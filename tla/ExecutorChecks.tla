--------------------------- MODULE ExecutorChecks ---------------------------
(***************************************************************************)
(* What is read from the catalog: the checks of executors                  *)
(* (pkg/parser/validate/executor.go) and the completion of their fields    *)
(* (pkg/services/complete/executors.go).  A check asks for the catalog     *)
(* anew for every list it needs, and other goroutines, a failing request   *)
(* and a change of host come in between.                                   *)
(***************************************************************************)
EXTENDS MachineOfferings

CONSTANTS
  Catalog,     \* of each host: images (for macOS, Xcode versions) by class,
               \* and the deprecated ones
  Executors,   \* the executors that are checked: any but `machine: true'
  Unset,       \* a field that is not there
  Params,      \* texts of a field that contain a parameter
  OnlyParams,  \* and those that are nothing else
  SelfHosted,  \* classes with a slash
  DockerOnly, MachineOnly,  \* small and medium+; classes with .gen, .multi, gpu.
  None

Kinds == {"docker", "macos", "machine"}

(* A check of an executor, whose image is its Xcode version for macOS; or   *)
(* the completion of a field of one.                                        *)
Check(kind, class, image) == [kind |-> kind, class |-> class, image |-> image]
Completion(kind, field) == [kind |-> kind, field |-> field]
Completions ==
  {Completion(k, "class") : k \in Kinds} \union {Completion("machine", "image")}

ASSUME TasksAssumption ==
  /\ None \notin Executors \union Completions
  /\ Executors \intersect Completions = {}
  /\ \A e \in Executors : e.kind \in Kinds
ASSUME TextsAssumption == OnlyParams \subseteq Params /\ DockerOnly # {}

VARIABLES
  task,    \* what each worker is at
  first,   \* the catalog its first list was taken from
  outcome  \* the diagnostics, or names, its last task ended with
taskVars == <<task, first, outcome>>
allVars == <<vars, taskVars>>
-----------------------------------------------------------------------------
(* The lists, from the catalog o; all are nil, that is empty, without one.  *)
Classes(o, l) == IF o = Nil THEN {} ELSE DOMAIN Catalog[o][l]
Images(o, l) == UNION {Catalog[o][l][c] : c \in Classes(o, l)}
Deprecated(o, l) == IF o = Nil THEN {} ELSE Catalog[o].deprecated[l]

MachinePairs(o) ==
  UNION {{[class |-> c, images |-> Catalog[o][l][c]] : c \in Classes(o, l)}
           : l \in {"linux", "windows"}}
MachineResourceClasses(o) == Classes(o, "linux") \union Classes(o, "windows")
DeprecatedMachineImages(o) == Deprecated(o, "linux") \union Deprecated(o, "windows")
AllImages(o) ==   \* mutation: the deprecated images are offered too
  Images(o, "linux") \union Images(o, "windows") \union DeprecatedMachineImages(o)
MachineImages(o) == Images(o, "linux") \union Images(o, "windows")
XcodeVersions(o) == Images(o, "macos")
DockerResourceClasses(o) ==
  IF o = Nil THEN {} ELSE DockerOnly \union (Classes(o, "linux") \ MachineOnly)
-----------------------------------------------------------------------------
(* The checks: o is the catalog the first list is from, o2 the second.      *)

(* checkIfValidResourceClass, with the answer of validateExecutorNamespace. *)
InvalidClass(class, valid) ==
  class \notin OnlyParams \union {Unset} \union valid \union SelfHosted
ClassProblems(class, valid, missing) ==
  {d \in {"class", "namespace"} :
     \/ d = "class" /\ InvalidClass(class, valid)
     \/ d = "namespace" /\ class \in SelfHosted /\ missing}

MacOSProblems(e, o, o2, missing) ==
  IF XcodeVersions(o) = {} THEN {}
  ELSE IF e.image \in XcodeVersions(o)
    THEN ClassProblems(e.class, Classes(o2, "macos"), missing)
    ELSE {IF e.image \in Deprecated(o2, "macos") THEN "deprecated" ELSE "image"}

HasClass(e, p) == e.class \in Params \union {p.class, Unset}
HasImage(e, p) == e.image \in Params \union p.images

PairProblems(e, o, o2) ==
  LET class == \E p \in MachinePairs(o) : HasClass(e, p)
      image == \E p \in MachinePairs(o) : HasImage(e, p)
  IN {d \in {"class", "image", "deprecated", "pair"} :
        \/ d = "class" /\ ~class
        \/ d = "image" /\ ~image /\ e.image \notin DeprecatedMachineImages(o2)
        \/ d = "deprecated" /\ ~image /\ e.image \in DeprecatedMachineImages(o2)
        \/ d = "pair" /\ class /\ image}

Imageless(e) == e.class \notin Params \union SelfHosted \union {Unset}
MachineProblems(e, o, o2) ==
  IF e.image = Unset
    THEN {d \in {"class"} : Imageless(e) /\ e.class \notin MachineResourceClasses(o2)}
  ELSE IF e.class \in SelfHosted THEN {"extraneous"}
  ELSE IF \E p \in MachinePairs(o) : HasClass(e, p) /\ HasImage(e, p) THEN {}
  ELSE PairProblems(e, o, o2)

Problems(e, o, o2, missing) ==
  CASE e.kind = "macos" -> MacOSProblems(e, o, o2, missing)
    [] e.kind = "machine" -> MachineProblems(e, o, o2)
    [] e.kind = "docker" -> ClassProblems(e.class, DockerResourceClasses(o), missing)

(* The conditions under which a check asks for another list.                *)
NeedsAnother(t, o) ==
  /\ t \in Executors /\ o # Nil
  /\ \/ t.kind = "macos" /\ XcodeVersions(o) # {}
     \/ t.kind = "machine" /\ t.image = Unset /\ Imageless(t)
     \/ /\ t.kind = "machine" /\ t.image # Unset /\ t.class \notin SelfHosted
        /\ \A p \in MachinePairs(o) : ~HasImage(t, p)

(* The classes the file's organization registered, as the request made when *)
(* it was opened told; none if that failed, or if the user is logged out.   *)
CustomClasses == {{}, SelfHosted \ Params}

(* What the fields are completed with.                                      *)
Proposals(t, o, custom) ==
  CASE t = Completion("machine", "class") -> MachineResourceClasses(o) \union custom
    [] t = Completion("machine", "image") -> MachineImages(o)
    [] t = Completion("macos", "class") -> Classes(o, "macos")
    [] t = Completion("docker", "class") -> DockerResourceClasses(o)
-----------------------------------------------------------------------------
InitChecks ==
  /\ Init
  /\ task = [w \in Workers |-> None] /\ first = [w \in Workers |-> NotYet]
  /\ outcome = [w \in Workers |-> None]

Begin(w, t) ==
  /\ task[w] = None /\ Call(w)
  /\ task' = [task EXCEPT ![w] = t]
  /\ outcome' = [outcome EXCEPT ![w] = None]
  /\ UNCHANGED first

Earliest(w) == IF first[w] = NotYet THEN got[w] ELSE first[w]

AskAgain(w) ==
  /\ task[w] # None /\ first[w] = NotYet
  /\ Call(w) /\ NeedsAnother(task[w], got[w])
  /\ first' = [first EXCEPT ![w] = got[w]]
  /\ UNCHANGED <<task, outcome>>

(* Without a catalog nothing is reported.                                   *)
Reported(t, o, o2, missing) ==
  IF o = Nil THEN {} ELSE Problems(t, o, o2, missing)

(* missing: validateExecutorNamespace was told that there is no such        *)
(* namespace; a request that fails tells nothing.                           *)
Conclude(w) ==
  /\ task[w] # None /\ pc[w] = "idle"
  /\ first[w] = NotYet => ~NeedsAnother(task[w], got[w])
  /\ task' = [task EXCEPT ![w] = None]
  /\ first' = [first EXCEPT ![w] = NotYet]
  /\ \/ /\ task[w] \in Executors
        /\ \E missing \in BOOLEAN :
             outcome' = [outcome EXCEPT ![w] =
               [of |-> task[w],
                is |-> Reported(task[w], Earliest(w), got[w], missing)]]
     \/ /\ task[w] \in Completions
        /\ \E custom \in CustomClasses :
             outcome' = [outcome EXCEPT ![w] =
               [of |-> task[w], is |-> Proposals(task[w], got[w], custom)]]
  /\ UNCHANGED vars

Proceed(w) == AskAgain(w) \/ Conclude(w)

NextChecks ==
  \/ \E w \in Workers : \E t \in Executors \union Completions : Begin(w, t)
  \/ \E w \in Workers : Proceed(w)
  \/ (\E w \in Workers : Lock(w) \/ Holder(w)) /\ UNCHANGED taskVars
  \/ (\E h \in Hosts : SetHost(h)) /\ UNCHANGED taskVars

SpecChecks == InitChecks /\ [][NextChecks]_allVars

(* A goroutine that has its answer goes on.                                 *)
FairSpecChecks ==
  /\ SpecChecks
  /\ \A w \in Workers :
       /\ WF_allVars(Holder(w) /\ UNCHANGED taskVars)
       /\ SF_allVars(Lock(w) /\ UNCHANGED taskVars)
       /\ WF_allVars(Proceed(w))
-----------------------------------------------------------------------------
(* Whether some values of its parameters make e an executor that o offers:  *)
(* one of its classes with one of that class' images.                       *)
ClassIs(e, c) == e.class \in Params \union {Unset, c}
ImageIn(e, images) == e.image \in Params \union images
Offered(e, o) ==
  CASE e.kind = "machine" /\ e.class \in SelfHosted -> e.image = Unset
    [] e.kind = "machine" /\ e.class \notin SelfHosted ->
         \/ e.image = Unset /\ e.class \in Params \union {Unset}
         \/ \E l \in {"linux", "windows"} : \E c \in Classes(o, l) :
              ClassIs(e, c) /\ ImageIn(e, Catalog[o][l][c] \union {Unset})
    [] e.kind = "macos" ->
         \E c \in Classes(o, "macos") :
           /\ ClassIs(e, c) \/ e.class \in SelfHosted
           /\ ImageIn(e, Catalog[o]["macos"][c])
    [] e.kind = "docker" ->
         \E c \in DockerOnly \union (Classes(o, "linux") \ MachineOnly) :
           ClassIs(e, c) \/ e.class \in SelfHosted

(* checkIfValidResourceClass takes a class that only contains a parameter   *)
(* for a name, and an Xcode version is never taken for a parameter.         *)
Judged(e) ==
  e.kind # "machine" =>
    /\ e.class \notin Params \ (OnlyParams \union SelfHosted)
    /\ e.kind = "macos" => e.image \notin Params

Done(w) == outcome[w] # None

(* "Returns nil on failure, so callers skip validation rather than flag      *)
(* valid config" (machineOfferings.go:45-46): a check reports no executor    *)
(* that the one catalog there is offers, and every other, though it reads    *)
(* the catalog several times, the first request may have failed or been      *)
(* under way, and the host may have changed.  An Xcode version is not        *)
(* compared with the class.                                                  *)
VerdictIsTheCatalogs ==
  \A w \in Workers : Done(w) /\ outcome[w].of \in Executors =>
    LET e == outcome[w].of
        reported == outcome[w].is \ {"namespace"}
    IN /\ offerings = Nil => outcome[w].is = {}
       /\ offerings # Nil /\ Judged(e) =>
            /\ Offered(e, offerings) => reported = {}
            /\ reported = {} /\ e.kind # "macos" => Offered(e, offerings)

(* What completion fills in (complete/executors.go:46-51,125-172) is never   *)
(* called unknown, invalid or deprecated by a check (validate/executor.go)   *)
(* that another goroutine makes, before or after, of the field filled in.    *)
CompletedIsKnown ==
  \A v, w \in Workers :
    Done(v) /\ Done(w) /\ outcome[v].of \in Completions /\ outcome[w].of \in Executors =>
      LET c == outcome[v].of
          e == outcome[w].of
      IN c.kind = e.kind /\ e[c.field] \in outcome[v].is =>
           outcome[w].is \intersect
             (IF c.field = "class" THEN {"class"} ELSE {"image", "deprecated"}) = {}

(* Every variable keeps its type. *)
ChecksTypeOK ==
  /\ TypeOK /\ task \in [Workers -> Executors \union Completions \union {None}]
  /\ first \in [Workers -> Offerings \union {NotYet}] /\ DOMAIN outcome = Workers

(* The answer is final. *)
Settled(o) == offerings = o /\ attempted /\ Requesting = {}

(* Whatever a worker was given, and keeps, is the final answer, and what it  *)
(* concluded follows from it.                                                *)
Given == \A w \in Workers : got[w] # NotYet => Settled(got[w])
Kept == \A w \in Workers : first[w] # NotYet => Settled(first[w])
NothingMissing == \A w \in Workers : task[w] # None /\ pc[w] = "idle" => got[w] # NotYet
Follows(r, o) ==
  \/ /\ r.of \in Executors
     /\ \E missing \in BOOLEAN : r.is = Reported(r.of, o, o, missing)
  \/ /\ r.of \in Completions
     /\ \E custom \in SUBSET SelfHosted : r.is = Proposals(r.of, o, custom)
Concluded ==
  \A w \in Workers : Done(w) => Settled(offerings) /\ Follows(outcome[w], offerings)

(* The inductive invariant. *)
ChecksIInv ==
  IInv /\ ChecksTypeOK /\ Given /\ Kept /\ NothingMissing /\ Concluded
=============================================================================
