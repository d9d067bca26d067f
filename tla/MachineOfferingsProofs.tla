---------------------- MODULE MachineOfferingsProofs ----------------------
(***************************************************************************)
(* MachineOfferings implements AnswerOnce.  The invariant says who holds   *)
(* the mutex: a request is made by its holder, so no one else can be about *)
(* to return, or find the catalog attempted, while it is under way.        *)
(* ExecutorChecks takes every step of the cache as it is: what its checks  *)
(* were given is final, and the rest is about one catalog.                 *)
(***************************************************************************)
EXTENDS ExecutorChecks, TLAPS

LEMMA InitIInv == Init => IInv
  <1> SUFFICES ASSUME Init PROVE IInv
    OBVIOUS
  <1>1. TypeOK
    BY HostAssumption DEF Init, TypeOK, PCs, Offerings
  <1>2. \A w \in Workers : pc[w] = "idle"
    BY DEF Init
  <1> QED BY <1>1, <1>2 DEF Init, IInv, HeldByOne

(* A step of a worker: it keeps the invariant. *)
LEMMA WorkerStep ==
  ASSUME IInv, NEW w \in Workers, Call(w) \/ Lock(w) \/ Holder(w)
  PROVE  IInv'
  <1> USE DEF IInv, TypeOK, HeldByOne, PCs, Step, settings
  <1>1. CASE Call(w)
    BY <1>1 DEF Call
  <1>2. CASE Lock(w)
    BY <1>2, NilAssumption DEF Lock, Free
  <1>3. CASE Attempt(w)
    <2>1. CASE attempted
      BY <1>3, <2>1 DEF Attempt, Attempted
    <2>2. CASE ~attempted
      BY <1>3, <2>2 DEF Attempt, Attempted
    <2> QED BY <2>1, <2>2
  <1>4. CASE Answered(w)
    BY <1>4 DEF Answered, Receive, Offerings
  <1>5. CASE FetchFails(w)
    BY <1>5 DEF FetchFails, Receive, Offerings
  <1>6. CASE Return(w)
    BY <1>6, NilAssumption DEF Return
  <1> QED BY <1>1, <1>2, <1>3, <1>4, <1>5, <1>6 DEF Holder

LEMMA NextIInv == IInv /\ [Next]_vars => IInv'
  <1> SUFFICES ASSUME IInv, [Next]_vars PROVE IInv'
    OBVIOUS
  <1>1. ASSUME NEW w \in Workers, Call(w) \/ Lock(w) \/ Holder(w) PROVE IInv'
    BY <1>1, WorkerStep
  <1>2. ASSUME NEW h \in Hosts, SetHost(h) PROVE IInv'
    BY <1>2 DEF SetHost, IInv, TypeOK, HeldByOne, PCs, settings
  <1>3. CASE UNCHANGED vars
    BY <1>3 DEF vars, settings, IInv, TypeOK, HeldByOne, PCs
  <1> QED BY <1>1, <1>2, <1>3 DEF Next

(* The invariant of the catalog's cache (machineOfferings.go:47-56). *)
THEOREM Inductive == Spec => []IInv
  BY InitIInv, NextIInv, PTL DEF Spec

(* No second request is ever made (machineOfferings.go:51-52). *)
THEOREM NoRequestIsRepeated == Spec => []FetchedOnce
  <1>1. IInv => FetchedOnce
    BY DEF IInv, FetchedOnce
  <1> QED BY <1>1, Inductive, PTL
-----------------------------------------------------------------------------
(* Every step is a step of the abstract cache, or none of it. *)
LEMMA StepImplements == IInv /\ [Next]_vars => [Once!Next]_(Once!vars)
  <1> SUFFICES ASSUME IInv, [Next]_vars PROVE [Once!Next]_(Once!vars)
    OBVIOUS
  <1> USE DEF Once!vars, Asking, Requesting, Answer, IInv, TypeOK, PCs
  <1>1. ASSUME NEW w \in Workers, Call(w) PROVE Once!Ask(w)
    BY <1>1 DEF Call, Step, settings, Once!Ask
  <1>2. ASSUME NEW w \in Workers, Lock(w) PROVE UNCHANGED Once!vars
    BY <1>2 DEF Lock, Step, settings
  <1>3. ASSUME NEW w \in Workers, Attempt(w) PROVE UNCHANGED Once!vars
    <2>1. CASE attempted
      BY <1>3, <2>1 DEF Attempt, Attempted, settings
    <2>2. CASE ~attempted
      BY <1>3, <2>2 DEF Attempt, Attempted, settings
    <2> QED BY <2>1, <2>2
  <1>4. ASSUME NEW w \in Workers, NEW o \in Offerings, Receive(w, o)
        PROVE  Once!Decide
    <2>1. Requesting = {w} /\ Requesting' = {}
      BY <1>4 DEF Receive, Step, HeldByOne
    <2>2. Answer = NotYet /\ Answer' = o /\ attempted
      BY <1>4, <2>1 DEF Receive, Step
    <2>3. Asking' = Asking /\ w \in Asking
      BY <1>4 DEF Receive, Step
    <2> QED BY <1>4, <2>2, <2>3 DEF Receive, Once!Decide
  <1>5. ASSUME NEW w \in Workers, Return(w) PROVE Once!Give(w)
    <2>1. Requesting = {} /\ Requesting' = {}
      BY <1>5 DEF Return, Step, HeldByOne
    <2>2. Answer = offerings /\ Answer' = offerings /\ offerings # NotYet
      BY <1>5, <2>1, NilAssumption DEF Return, Step, settings
    <2>3. w \in Asking /\ Asking' = Asking \ {w}
      BY <1>5 DEF Return, Step
    <2> QED BY <1>5, <2>2, <2>3 DEF Return, Once!Give
  <1>6. ASSUME NEW h \in Hosts, SetHost(h) PROVE UNCHANGED Once!vars
    BY <1>6 DEF SetHost
  <1>7. CASE UNCHANGED vars
    BY <1>7 DEF vars, settings
  <1>8. ASSUME NEW w \in Workers, Answered(w) \/ FetchFails(w) PROVE Once!Decide
    BY <1>8, <1>4 DEF Answered, FetchFails, Offerings
  <1> QED
    BY <1>1, <1>2, <1>3, <1>5, <1>6, <1>7, <1>8 DEF Next, Holder, Once!Next

(* Whoever asks for the catalog is given the one answer there ever is       *)
(* (machineOfferings.go:44-56). *)
THEOREM Implements == Spec => ImplementsSafely
  <1>1. Init => Once!Init
    BY DEF Init, Once!Init, Asking, Answer
  <1> QED BY <1>1, StepImplements, Inductive, PTL DEF Spec, ImplementsSafely, Once!Spec
-----------------------------------------------------------------------------
(* The checks do nothing to the cache but ask it. *)
LEMMA ChecksAsk == [NextChecks]_allVars => [Next]_vars
  BY DEF NextChecks, allVars, Next, Begin, Proceed, AskAgain, Conclude

(* The checks of executors leave the cache what it promises                 *)
(* (machineOfferings.go:44-56, validate/executor.go). *)
THEOREM ChecksUseTheCache == SpecChecks => ImplementsSafely
  <1>1. InitChecks => Init
    BY DEF InitChecks
  <1>2. SpecChecks => Spec
    BY <1>1, ChecksAsk, PTL DEF SpecChecks, Spec
  <1> QED BY <1>2, Implements, PTL

(* The answer, once there, stays. *)
LEMMA SettledStays ==
  ASSUME IInv, [Next]_vars, NEW o, Settled(o)
  PROVE  Settled(o)'
  <1> USE DEF Settled, Requesting, IInv, TypeOK, PCs
  <1>1. ASSUME NEW w \in Workers, Call(w) PROVE Settled(o)'
    BY <1>1 DEF Call, Step, settings
  <1>2. ASSUME NEW w \in Workers, Lock(w) PROVE Settled(o)'
    BY <1>2 DEF Lock, Step, settings
  <1>3. ASSUME NEW w \in Workers, Attempt(w) PROVE Settled(o)'
    BY <1>3 DEF Attempt, Attempted, settings
  <1>4. ASSUME NEW w \in Workers, Answered(w) \/ FetchFails(w) PROVE Settled(o)'
    BY <1>4 DEF Answered, FetchFails, Receive, Step
  <1>5. ASSUME NEW w \in Workers, Return(w) PROVE Settled(o)'
    BY <1>5 DEF Return, Step, settings
  <1>6. ASSUME NEW h \in Hosts, SetHost(h) PROVE Settled(o)'
    BY <1>6 DEF SetHost
  <1>7. CASE UNCHANGED vars
    BY <1>7 DEF vars, settings
  <1> QED BY <1>1, <1>2, <1>3, <1>4, <1>5, <1>6, <1>7 DEF Next, Holder

(* Only the final answer is given. *)
LEMMA OnlyFinalGiven ==
  ASSUME IInv, [Next]_vars, Given
  PROVE  Given'
  <1> SUFFICES ASSUME NEW w \in Workers, got'[w] # NotYet PROVE Settled(got[w])'
    BY DEF Given
  <1>1. CASE got'[w] = got[w]
    BY <1>1, SettledStays DEF Given, Settled
  <1>2. ASSUME got'[w] # got[w] PROVE Return(w)
    BY <1>2 DEF Next, Holder, Call, Lock, Attempt, Answered, FetchFails, Receive, Return,
      SetHost, vars, settings, IInv, TypeOK
  <1>3. CASE Return(w)
    <2>1. got'[w] = offerings /\ attempted' /\ offerings' = offerings
      BY <1>3 DEF Return, Step, IInv, TypeOK
    <2>2. Requesting' = {}
      BY <1>3 DEF Return, Step, Requesting, IInv, TypeOK, HeldByOne, PCs
    <2> QED BY <2>1, <2>2 DEF Settled
  <1> QED BY <1>1, <1>2, <1>3

LEMMA InitChecksIInv == InitChecks => ChecksIInv
  BY InitIInv DEF InitChecks, Init, ChecksIInv, ChecksTypeOK, IInv, Given, Kept,
    NothingMissing, Concluded, Done, Offerings

(* What a task ends with follows from what was given. *)
LEMMA ConcludeFollows ==
  ASSUME ChecksIInv, NEW w \in Workers, Conclude(w)
  PROVE  Settled(offerings) /\ Follows(outcome[w], offerings)'
  <1>1. got[w] # NotYet /\ Settled(got[w]) /\ got[w] = offerings
    BY DEF Conclude, ChecksIInv, NothingMissing, Given, Settled
  <1>2. Earliest(w) = offerings
    BY <1>1 DEF Earliest, ChecksIInv, Kept, Settled
  <1>3. offerings' = offerings
    BY DEF Conclude, vars
  <1>4. CASE task[w] \in Executors
    <2>1. PICK missing \in BOOLEAN :
            outcome'[w] = [of |-> task[w], is |-> Reported(task[w], offerings, offerings, missing)]
      BY <1>1, <1>2, <1>4, TasksAssumption DEF Conclude, ChecksIInv, ChecksTypeOK
    <2> QED BY <1>1, <1>3, <1>4, <2>1 DEF Follows
  <1>5. CASE task[w] \in Completions
    <2>1. PICK custom \in CustomClasses :
            outcome'[w] = [of |-> task[w], is |-> Proposals(task[w], offerings, custom)]
      BY <1>1, <1>5, TasksAssumption DEF Conclude, ChecksIInv, ChecksTypeOK
    <2> QED BY <1>1, <1>3, <1>5, <2>1 DEF Follows, CustomClasses
  <1> QED BY <1>1, <1>4, <1>5 DEF Conclude

LEMMA NextChecksIInv == ChecksIInv /\ [NextChecks]_allVars => ChecksIInv'
  <1> SUFFICES ASSUME ChecksIInv, [NextChecks]_allVars PROVE ChecksIInv'
    OBVIOUS
  <1>1. IInv' /\ Given' /\ [Next]_vars
    BY ChecksAsk, NextIInv, OnlyFinalGiven DEF ChecksIInv
  <1>2. \A o : Settled(o) => Settled(o)'
    BY <1>1, SettledStays DEF ChecksIInv
  <1>3. ASSUME UNCHANGED taskVars,
               \A w \in Workers : task[w] # None /\ pc'[w] = "idle" => got'[w] # NotYet
        PROVE  ChecksIInv'
    <2>1. ChecksTypeOK' /\ NothingMissing'
      BY <1>1, <1>3 DEF ChecksIInv, ChecksTypeOK, NothingMissing, taskVars, IInv
    <2>2. Kept'
      BY <1>2, <1>3 DEF ChecksIInv, Kept, taskVars
    <2>3. Concluded'
      <3> SUFFICES ASSUME NEW w \in Workers, Done(w)'
                   PROVE  Settled(offerings)' /\ Follows(outcome[w], offerings)'
        BY DEF Concluded
      <3>1. outcome'[w] = outcome[w] /\ Settled(offerings) /\ Follows(outcome[w], offerings)
        BY <1>3 DEF taskVars, Done, ChecksIInv, Concluded
      <3>2. offerings' = offerings
        BY <3>1, <1>2 DEF Settled
      <3> QED BY <3>1, <3>2, <1>2 DEF Follows
    <2> QED BY <1>1, <2>1, <2>2, <2>3 DEF ChecksIInv
  <1>4. ASSUME NEW w \in Workers, NEW t \in Executors \union Completions, Begin(w, t)
        PROVE  ChecksIInv'
    <2>1. ChecksTypeOK'
      BY <1>1, <1>4 DEF Begin, ChecksIInv, ChecksTypeOK, IInv
    <2>2. Kept'
      BY <1>2, <1>4 DEF Begin, ChecksIInv, Kept
    <2>3. NothingMissing'
      BY <1>4 DEF Begin, Call, Step, ChecksIInv, NothingMissing, ChecksTypeOK, TypeOK
    <2>4. Concluded'
      <3> SUFFICES ASSUME NEW v \in Workers, Done(v)'
                   PROVE  Settled(offerings)' /\ Follows(outcome[v], offerings)'
        BY DEF Concluded
      <3>1. outcome'[v] = outcome[v] /\ outcome[v] # None
        BY <1>4 DEF Begin, Done, ChecksIInv, ChecksTypeOK
      <3>2. Settled(offerings) /\ Follows(outcome[v], offerings) /\ offerings' = offerings
        BY <3>1, <1>4 DEF Begin, Call, Done, ChecksIInv, Concluded
      <3> QED BY <3>1, <3>2, <1>2 DEF Follows
    <2> QED BY <1>1, <2>1, <2>2, <2>3, <2>4 DEF ChecksIInv
  <1>5. ASSUME NEW w \in Workers, AskAgain(w) PROVE ChecksIInv'
    <2>1. ChecksTypeOK'
      BY <1>1, <1>5 DEF AskAgain, ChecksIInv, ChecksTypeOK, TypeOK, IInv
    <2>2. Kept'
      <3> SUFFICES ASSUME NEW v \in Workers, first'[v] # NotYet PROVE Settled(first[v])'
        BY DEF Kept
      <3>1. first'[v] = IF v = w THEN got[w] ELSE first[v]
        BY <1>5 DEF AskAgain, ChecksIInv, ChecksTypeOK
      <3> QED BY <3>1, <1>2 DEF ChecksIInv, Kept, Given
    <2>3. NothingMissing'
      BY <1>5 DEF AskAgain, Call, Step, ChecksIInv, NothingMissing, ChecksTypeOK, TypeOK
    <2>4. Concluded'
      <3> SUFFICES ASSUME NEW v \in Workers, Done(v)'
                   PROVE  Settled(offerings)' /\ Follows(outcome[v], offerings)'
        BY DEF Concluded
      <3>1. /\ outcome'[v] = outcome[v] /\ offerings' = offerings
            /\ Settled(offerings) /\ Follows(outcome[v], offerings)
        BY <1>5 DEF AskAgain, Call, Done, ChecksIInv, Concluded
      <3> QED BY <3>1, <1>2 DEF Follows
    <2> QED BY <1>1, <2>1, <2>2, <2>3, <2>4 DEF ChecksIInv
  <1>6. ASSUME NEW w \in Workers, Conclude(w) PROVE ChecksIInv'
    <2>1. ChecksTypeOK'
      BY <1>1, <1>6 DEF Conclude, ChecksIInv, ChecksTypeOK, IInv
    <2>2. Kept'
      BY <1>2, <1>6 DEF Conclude, ChecksIInv, ChecksTypeOK, Kept
    <2>3. NothingMissing'
      BY <1>6 DEF Conclude, vars, ChecksIInv, NothingMissing, ChecksTypeOK
    <2>4. Concluded'
      <3> SUFFICES ASSUME NEW v \in Workers, Done(v)'
                   PROVE  Settled(offerings)' /\ Follows(outcome[v], offerings)'
        BY DEF Concluded
      <3>1. Settled(offerings) /\ Follows(outcome[w], offerings)'
        BY <1>6, ConcludeFollows
      <3>2. CASE v = w
        BY <3>1, <3>2, <1>2, <1>6 DEF Conclude, vars
      <3>3. CASE v # w
        <4>1. outcome'[v] = outcome[v] /\ offerings' = offerings
          BY <1>6, <3>3 DEF Conclude, vars, ChecksIInv, ChecksTypeOK
        <4>2. Follows(outcome[v], offerings)
          BY <4>1 DEF Done, ChecksIInv, Concluded
        <4> QED BY <3>1, <4>1, <4>2, <1>2 DEF Follows
      <3> QED BY <3>2, <3>3
    <2> QED BY <1>1, <2>1, <2>2, <2>3, <2>4 DEF ChecksIInv
  <1>7. ASSUME NEW w \in Workers, Lock(w) \/ Holder(w), UNCHANGED taskVars PROVE ChecksIInv'
    <2>1. ASSUME NEW v \in Workers, task[v] # None, pc'[v] = "idle" PROVE got'[v] # NotYet
      <3>1. CASE Return(w)
        BY <3>1, <2>1, NilAssumption DEF Return, Step, ChecksIInv, NothingMissing,
          ChecksTypeOK, TypeOK
      <3>2. CASE Lock(w) \/ Attempt(w)
        BY <3>2, <2>1 DEF Lock, Attempt, Step, ChecksIInv, NothingMissing, ChecksTypeOK, TypeOK
      <3>3. CASE Answered(w) \/ FetchFails(w)
        BY <3>3, <2>1 DEF Answered, FetchFails, Receive, Step, ChecksIInv, NothingMissing,
          ChecksTypeOK, TypeOK
      <3> QED BY <3>1, <3>2, <3>3, <1>7 DEF Holder
    <2> QED BY <1>3, <1>7, <2>1
  <1>8. ASSUME NEW h \in Hosts, SetHost(h), UNCHANGED taskVars PROVE ChecksIInv'
    BY <1>3, <1>8 DEF SetHost, ChecksIInv, NothingMissing
  <1>9. CASE UNCHANGED allVars
    BY <1>3, <1>9 DEF allVars, vars, ChecksIInv, NothingMissing
  <1> QED BY <1>4, <1>5, <1>6, <1>7, <1>8, <1>9 DEF NextChecks, Proceed

(* Everything a check concludes with follows from the one answer.           *)
THEOREM ChecksInductive == SpecChecks => []ChecksIInv
  BY InitChecksIInv, NextChecksIInv, PTL DEF SpecChecks
-----------------------------------------------------------------------------
(* What one catalog says of an executor it offers, and of one it does not.  *)
LEMMA OfferedIsClean ==
  ASSUME NEW e \in Executors, NEW o \in Offerings \ {Nil}, NEW missing \in BOOLEAN, Judged(e)
  PROVE  LET reported == Reported(e, o, o, missing) \ {"namespace"}
         IN /\ Offered(e, o) => reported = {}
            /\ reported = {} /\ e.kind # "macos" => Offered(e, o)
  <1> DEFINE reported == Reported(e, o, o, missing) \ {"namespace"}
  <1>1. Reported(e, o, o, missing) = Problems(e, o, o, missing)
    BY DEF Reported
  <1>2. CASE e.kind = "docker"
    <2>1. reported = {} <=> ~InvalidClass(e.class, DockerResourceClasses(o))
      BY <1>1, <1>2 DEF Problems, ClassProblems
    <2>2. Offered(e, o) <=> ~InvalidClass(e.class, DockerResourceClasses(o))
      <3>1. Offered(e, o) <=> \E c \in DockerResourceClasses(o) :
                                ClassIs(e, c) \/ e.class \in SelfHosted
        BY <1>2 DEF Offered, DockerResourceClasses
      <3>2. PICK c \in DockerOnly : c \in DockerResourceClasses(o)
        BY TextsAssumption DEF DockerResourceClasses
      <3> QED BY <1>2, <3>1, <3>2, TextsAssumption DEF InvalidClass, ClassIs, Judged
    <2> QED BY <2>1, <2>2
  <1>3. CASE e.kind = "macos"
    <2>1. Offered(e, o) => e.image \in XcodeVersions(o)
      BY <1>3 DEF Offered, Judged, ImageIn, XcodeVersions, Images, Classes
    <2>2. Offered(e, o) => ~InvalidClass(e.class, Classes(o, "macos"))
      BY <1>3, TextsAssumption DEF Offered, Judged, ClassIs, InvalidClass
    <2>3. Offered(e, o) => reported = {}
      BY <1>1, <1>3, <2>1, <2>2 DEF Problems, MacOSProblems, ClassProblems
    <2> QED BY <1>3, <2>3
  <1>4. CASE e.kind = "machine"
    <2> DEFINE offers == \E l \in {"linux", "windows"} : \E c \in Classes(o, l) :
                 ClassIs(e, c) /\ ImageIn(e, Catalog[o][l][c] \union {Unset})
    <2>1. Problems(e, o, o, missing) = MachineProblems(e, o, o)
      BY <1>4 DEF Problems
    <2>2. CASE e.image = Unset /\ e.class \in Params \union SelfHosted \union {Unset}
      <3>1. MachineProblems(e, o, o) = {}
        BY <2>2 DEF MachineProblems, Imageless
      <3>2. Offered(e, o)
        BY <1>4, <2>2 DEF Offered
      <3> QED BY <1>1, <2>1, <3>1, <3>2
    <2>3. CASE e.image = Unset /\ e.class \notin Params \union SelfHosted \union {Unset}
      <3>1. reported = {} <=> e.class \in MachineResourceClasses(o)
        BY <1>1, <2>1, <2>3 DEF MachineProblems, Imageless
      <3>2. Offered(e, o) <=> e.class \in MachineResourceClasses(o)
        BY <1>4, <2>3 DEF Offered, MachineResourceClasses, ClassIs, ImageIn
      <3> QED BY <3>1, <3>2
    <2>4. CASE e.image # Unset /\ e.class \in SelfHosted
      <3>1. reported = {"extraneous"}
        BY <1>1, <2>1, <2>4 DEF MachineProblems
      <3>2. ~Offered(e, o)
        BY <1>4, <2>4 DEF Offered
      <3> QED BY <3>1, <3>2
    <2>5. CASE e.image # Unset /\ e.class \notin SelfHosted
      <3>1. offers <=> \E p \in MachinePairs(o) : HasClass(e, p) /\ HasImage(e, p)
        <4> DEFINE P(l, c) == [class |-> c, images |-> Catalog[o][l][c]]
        <4>1. \A p : p \in MachinePairs(o) <=>
                 \E l \in {"linux", "windows"} : \E c \in Classes(o, l) : p = P(l, c)
          BY DEF MachinePairs
        <4>2. \A l, c : HasClass(e, P(l, c)) /\ HasImage(e, P(l, c)) <=>
                 ClassIs(e, c) /\ ImageIn(e, Catalog[o][l][c] \union {Unset})
          BY <2>5 DEF HasClass, HasImage, ClassIs, ImageIn
        <4>3. ASSUME NEW p \in MachinePairs(o), HasClass(e, p) /\ HasImage(e, p) PROVE offers
          <5>1. PICK l \in {"linux", "windows"} : \E c \in Classes(o, l) : p = P(l, c)
            BY <4>1
          <5>2. PICK c \in Classes(o, l) : p = P(l, c)
            BY <5>1
          <5> QED BY <4>2, <4>3, <5>2
        <4>4. ASSUME NEW l \in {"linux", "windows"}, NEW c \in Classes(o, l),
                     ClassIs(e, c) /\ ImageIn(e, Catalog[o][l][c] \union {Unset})
              PROVE  \E p \in MachinePairs(o) : HasClass(e, p) /\ HasImage(e, p)
          <5>1. P(l, c) \in MachinePairs(o)
            BY <4>1
          <5> QED BY <4>2, <4>4, <5>1
        <4> QED BY <4>3, <4>4
      <3>2. Offered(e, o) <=> offers
        BY <1>4, <2>5 DEF Offered
      <3>3. ASSUME \A p \in MachinePairs(o) : ~(HasClass(e, p) /\ HasImage(e, p))
            PROVE  reported # {}
        <4>1. MachineProblems(e, o, o) = PairProblems(e, o, o)
          BY <2>5, <3>3 DEF MachineProblems
        <4>2. \E d \in {"class", "image", "deprecated", "pair"} : d \in PairProblems(e, o, o)
          BY DEF PairProblems
        <4> QED BY <1>1, <2>1, <4>1, <4>2
      <3>4. ASSUME \E p \in MachinePairs(o) : HasClass(e, p) /\ HasImage(e, p)
            PROVE  reported = {}
        BY <1>1, <2>1, <2>5, <3>4 DEF MachineProblems
      <3> QED BY <3>1, <3>2, <3>3, <3>4
    <2> QED BY <2>2, <2>3, <2>4, <2>5
  <1> QED BY <1>2, <1>3, <1>4, TasksAssumption DEF Kinds

(* A check reports what the one catalog does not offer, and nothing it      *)
(* offers (validate/executor.go:34-170), however the catalog came to be.    *)
THEOREM VerdictsSound == SpecChecks => []VerdictIsTheCatalogs
  <1>1. ChecksIInv => VerdictIsTheCatalogs
    <2> SUFFICES ASSUME ChecksIInv, NEW w \in Workers, Done(w), outcome[w].of \in Executors
                 PROVE  LET e == outcome[w].of
                            reported == outcome[w].is \ {"namespace"}
                        IN /\ offerings = Nil => outcome[w].is = {}
                           /\ offerings # Nil /\ Judged(e) =>
                                /\ Offered(e, offerings) => reported = {}
                                /\ reported = {} /\ e.kind # "macos" => Offered(e, offerings)
      BY DEF VerdictIsTheCatalogs
    <2>1. PICK missing \in BOOLEAN :
            outcome[w].is = Reported(outcome[w].of, offerings, offerings, missing)
      BY TasksAssumption DEF ChecksIInv, Concluded, Follows
    <2>2. offerings \in Offerings
      BY DEF ChecksIInv, IInv, TypeOK
    <2>3. offerings = Nil => outcome[w].is = {}
      BY <2>1 DEF Reported
    <2> QED BY <2>1, <2>2, <2>3, OfferedIsClean
  <1> QED BY <1>1, ChecksInductive, PTL
-----------------------------------------------------------------------------
(* A class, or an image, that completion takes from the catalog a check is  *)
(* made with is not what the check objects to.                              *)
LEMMA ProposedClass ==
  ASSUME NEW e \in Executors, NEW o \in Offerings, NEW custom \in SUBSET SelfHosted,
         NEW missing \in BOOLEAN,
         e.class \in Proposals(Completion(e.kind, "class"), o, custom)
  PROVE  "class" \notin Reported(e, o, o, missing)
  <1> SUFFICES ASSUME o # Nil PROVE "class" \notin Problems(e, o, o, missing)
    BY DEF Reported
  <1>1. CASE e.kind = "docker"
    <2>1. e.class \in DockerResourceClasses(o)
      BY <1>1 DEF Proposals, Completion
    <2> QED BY <1>1, <2>1 DEF Problems, ClassProblems, InvalidClass
  <1>2. CASE e.kind = "macos"
    <2>1. e.class \in Classes(o, "macos")
      BY <1>2 DEF Proposals, Completion
    <2> QED BY <1>2, <2>1 DEF Problems, MacOSProblems, ClassProblems, InvalidClass
  <1>3. CASE e.kind = "machine"
    <2>1. e.class \in MachineResourceClasses(o) \union SelfHosted
      BY <1>3 DEF Proposals, Completion
    <2>2. Problems(e, o, o, missing) = MachineProblems(e, o, o)
      BY <1>3 DEF Problems
    <2>3. ASSUME e.class \in MachineResourceClasses(o)
          PROVE  \E p \in MachinePairs(o) : HasClass(e, p)
      <3>1. PICK l \in {"linux", "windows"} : e.class \in Classes(o, l)
        BY <2>3 DEF MachineResourceClasses
      <3>2. [class |-> e.class, images |-> Catalog[o][l][e.class]] \in MachinePairs(o)
        BY <3>1 DEF MachinePairs
      <3> QED BY <3>2 DEF HasClass
    <2>4. e.class \notin SelfHosted => "class" \notin PairProblems(e, o, o)
      BY <2>1, <2>3 DEF PairProblems
    <2> QED BY <2>1, <2>2, <2>4 DEF MachineProblems, Imageless
  <1> QED BY <1>1, <1>2, <1>3, TasksAssumption DEF Kinds

LEMMA ProposedImage ==
  ASSUME NEW e \in Executors, NEW o \in Offerings, NEW custom \in SUBSET SelfHosted,
         NEW missing \in BOOLEAN, e.kind = "machine",
         e.image \in Proposals(Completion("machine", "image"), o, custom)
  PROVE  Reported(e, o, o, missing) \intersect {"image", "deprecated"} = {}
  <1> SUFFICES ASSUME o # Nil
               PROVE  MachineProblems(e, o, o) \intersect {"image", "deprecated"} = {}
    BY DEF Reported, Problems
  <1>1. e.image \in MachineImages(o)
    BY DEF Proposals, Completion
  <1>2. PICK l \in {"linux", "windows"} : \E c \in Classes(o, l) : e.image \in Catalog[o][l][c]
    BY <1>1 DEF MachineImages, Images
  <1>3. PICK c \in Classes(o, l) : e.image \in Catalog[o][l][c]
    BY <1>2
  <1>4. [class |-> c, images |-> Catalog[o][l][c]] \in MachinePairs(o)
    BY DEF MachinePairs
  <1>5. \E p \in MachinePairs(o) : HasImage(e, p)
    BY <1>3, <1>4 DEF HasImage
  <1> QED BY <1>5 DEF MachineProblems, PairProblems

(* What completion fills in is known to every check                         *)
(* (complete/executors.go:46-51,125-172; validate/executor.go:34-170), of   *)
(* whichever goroutine. *)
THEOREM CompletionsKnown == SpecChecks => []CompletedIsKnown
  <1>1. ChecksIInv => CompletedIsKnown
    <2> SUFFICES ASSUME ChecksIInv, NEW v \in Workers, NEW w \in Workers, Done(v), Done(w),
                        NEW c \in Completions, c = outcome[v].of,
                        NEW e \in Executors, e = outcome[w].of,
                        c.kind = e.kind, e[c.field] \in outcome[v].is
                 PROVE  outcome[w].is \intersect
                          (IF c.field = "class" THEN {"class"} ELSE {"image", "deprecated"}) = {}
      BY DEF CompletedIsKnown
    <2>1. PICK missing \in BOOLEAN :
            outcome[w].is = Reported(e, offerings, offerings, missing)
      BY TasksAssumption DEF ChecksIInv, Concluded, Follows
    <2>2. PICK custom \in SUBSET SelfHosted :
            outcome[v].is = Proposals(c, offerings, custom)
      BY TasksAssumption DEF ChecksIInv, Concluded, Follows
    <2>3. offerings \in Offerings
      BY DEF ChecksIInv, IInv, TypeOK
    <2>4. CASE c.field = "class"
      <3>1. c = Completion(e.kind, "class")
        BY <2>4 DEF Completions, Completion
      <3>2. e.class \in Proposals(Completion(e.kind, "class"), offerings, custom)
        BY <2>2, <2>4, <3>1
      <3> QED BY <2>1, <2>3, <2>4, <3>2, ProposedClass
    <2>5. CASE c.field # "class"
      <3>1. c = Completion("machine", "image") /\ c.field = "image" /\ e.kind = "machine"
        BY <2>5 DEF Completions, Completion
      <3> QED BY <2>1, <2>2, <2>3, <2>5, <3>1, ProposedImage
    <2> QED BY <2>4, <2>5
  <1> QED BY <1>1, ChecksInductive, PTL
=============================================================================
