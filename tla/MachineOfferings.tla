-------------------------- MODULE MachineOfferings --------------------------
(***************************************************************************)
(* The catalog of machine images and resource classes                      *)
(* (pkg/utils/machineOfferings.go).  The goroutines that validate          *)
(* documents, and the read loop when it completes, call machineOfferings   *)
(* several times each; the first call of all fetches the catalog while it  *)
(* holds the mutex, and what it obtains is kept, a failure included.       *)
(*                                                                         *)
(* It is shown to implement AnswerOnce.                                    *)
(***************************************************************************)
EXTENDS Naturals

CONSTANTS
  Workers,          \* goroutines, and the read loop
  Hosts, InitHost,  \* the (host, token) pairs the user may set
  Nil,              \* no *Offerings
  NotYet, Nobody,
  MaxSwitches       \* bound: changes of host or token

Offerings == Hosts \union {Nil}   \* a catalog is told from others by its host

ASSUME HostAssumption == InitHost \in Hosts
ASSUME NilAssumption == NotYet \notin Offerings /\ Nobody \notin Workers
ASSUME BoundAssumption == MaxSwitches \in Nat

VARIABLES
  mutex,                 \* cacheMutex: its holder
  attempted, offerings,  \* MachineOfferingsCache
  host, switches,        \* LsContext.Api
  pc, asked,             \* the workers; asked: the host a request goes to
  got,                   \* what each worker was last given
  requests               \* history: how many requests were made
settings == <<host, switches>>
vars == <<mutex, attempted, offerings, settings, pc, asked, got, requests>>

PCs == {"idle", "lock", "locked", "request", "unlock"}

Init ==
  /\ mutex = Nobody /\ attempted = FALSE /\ offerings = Nil
  /\ host = InitHost /\ switches = 0
  /\ pc = [w \in Workers |-> "idle"] /\ asked = [w \in Workers |-> InitHost]
  /\ got = [w \in Workers |-> NotYet] /\ requests = 0

Step(w, from, to) == pc[w] = from /\ pc' = [pc EXCEPT ![w] = to]

(* MachinePairs, XcodeVersions, DeprecatedMachineImages and so on.          *)
Call(w) ==
  /\ Step(w, "idle", "lock")
  /\ UNCHANGED <<mutex, attempted, offerings, settings, asked, got, requests>>

NotLocked(w) == TRUE   \* mutation: the lock is not held across the fetch
Free(w) == mutex = Nobody

Lock(w) ==
  /\ Step(w, "lock", "locked") /\ Free(w)
  /\ mutex' = w
  /\ UNCHANGED <<attempted, offerings, settings, asked, got, requests>>

UnlessObtained == offerings # Nil   \* mutation: a failure is tried again
Attempted == attempted

(* `if !c.attempted', and the request fetchOfferings makes: the settings are *)
(* read now.                                                                *)
Attempt(w) ==
  /\ pc[w] = "locked"
  /\ IF Attempted
       THEN /\ pc' = [pc EXCEPT ![w] = "unlock"]
            /\ UNCHANGED <<attempted, asked, requests>>
       ELSE /\ pc' = [pc EXCEPT ![w] = "request"]
            /\ attempted' = TRUE
            /\ asked' = [asked EXCEPT ![w] = host]
            /\ requests' = requests + 1
  /\ UNCHANGED <<mutex, offerings, settings, got>>

Receive(w, o) ==
  /\ Step(w, "request", "unlock")
  /\ offerings' = o
  /\ UNCHANGED <<mutex, attempted, settings, asked, got, requests>>
Answered(w) == Receive(w, asked[w])
FetchFails(w) == Receive(w, Nil)     \* an error, or five seconds have passed

Return(w) ==
  /\ Step(w, "unlock", "idle")
  /\ mutex' = Nobody
  /\ got' = [got EXCEPT ![w] = offerings]
  /\ UNCHANGED <<attempted, offerings, settings, asked, requests>>

(* setToken, setSelfHostedUrl: ClearHostData does not touch this cache.     *)
SetHost(h) ==
  /\ h # host /\ switches < MaxSwitches
  /\ host' = h /\ switches' = switches + 1
  /\ UNCHANGED <<mutex, attempted, offerings, pc, asked, got, requests>>

Holder(w) == Attempt(w) \/ Answered(w) \/ FetchFails(w) \/ Return(w)

Next ==
  \/ \E w \in Workers : Call(w) \/ Lock(w) \/ Holder(w)
  \/ \E h \in Hosts : SetHost(h)

Spec == Init /\ [][Next]_vars

(* A request ends within five seconds.  A waiter of a sync.Mutex gets it    *)
(* eventually, however often others take it.                                *)
FairSpec ==
  Spec /\ \A w \in Workers : WF_vars(Holder(w)) /\ SF_vars(Lock(w))
-----------------------------------------------------------------------------
Asking == {w \in Workers : pc[w] # "idle"}
Requesting == {w \in Workers : pc[w] = "request"}
Answer == IF attempted /\ Requesting = {} THEN offerings ELSE NotYet

Once == INSTANCE AnswerOnce WITH Callers <- Workers, Answers <- Offerings,
          asking <- Asking, answer <- Answer, given <- got

(* "fetches the catalog once, holding the lock across the fetch so           *)
(* concurrent callers wait for the result instead of racing to a nil"        *)
(* (machineOfferings.go:44-46): all the lists one validation is made with    *)
(* come from the same catalog, or are all skipped, and nobody waits forever. *)
ImplementsAnswerOnce == Once!FairSpec
ImplementsSafely == Once!Spec

(* A failure is final, and no request is repeated (machineOfferings.go:51).  *)
FetchedOnce == requests <= 1

(* Every variable keeps its type. *)
TypeOK ==
  /\ mutex \in Workers \union {Nobody}
  /\ attempted \in BOOLEAN /\ offerings \in Offerings
  /\ host \in Hosts /\ switches \in Nat
  /\ pc \in [Workers -> PCs] /\ asked \in [Workers -> Hosts]
  /\ got \in [Workers -> Offerings \union {NotYet}] /\ requests \in Nat

(* Who is past Lock holds the mutex.                                        *)
HeldByOne == \A w \in Workers : pc[w] \in {"locked", "request", "unlock"} => mutex = w

(* The inductive invariant. *)
IInv ==
  /\ TypeOK /\ HeldByOne
  /\ requests = (IF attempted THEN 1 ELSE 0)
  /\ \A w \in Workers : pc[w] \in {"request", "unlock"} => attempted
=============================================================================
