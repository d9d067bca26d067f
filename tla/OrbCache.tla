------------------------------ MODULE OrbCache ------------------------------
(***************************************************************************)
(* Remote orbs: the ones in memory (OrbCache in pkg/utils/cache.go), their *)
(* sources in the user's cache directory, which outlives the server, the   *)
(* goroutines that fetch them (pkg/parser/remoteOrb.go, orbs.go), and the  *)
(* read loop, which forgets them when the token or host changes and which  *)
(* parses an orb file the editor has open (synchronize.go).                *)
(*                                                                         *)
(* A worker is a goroutine at one orb of ParseRemoteOrbs or at one lookup. *)
(* A lookup by the read loop itself does what a worker's does, but never   *)
(* while ClearHostData runs.                                               *)
(***************************************************************************)
EXTENDS Naturals

CONSTANTS
  Orbs,             \* orb IDs, name@version
  Volatile,         \* those whose source its author may replace
  Hosts, InitHost,  \* the (host, token) pairs the user may set
  Workers, NoOrb,
  MaxPublish,       \* bound: versions published of one volatile orb
  MaxSwitches       \* bound: changes of host or token

Sources == [host : Hosts, rev : 0..MaxPublish]
OrbInfo == [source : Sources, edited : BOOLEAN]  \* edited: the attributes are
                                                 \* of the text in the editor

ASSUME OrbAssumption == Volatile \subseteq Orbs /\ NoOrb \notin Sources \union OrbInfo
ASSUME HostAssumption == InitHost \in Hosts
ASSUME BoundAssumption == MaxPublish \in Nat /\ MaxSwitches \in Nat

VARIABLES
  orbsCache, file,     \* orb -> OrbInfo, orb -> source on disk, or NoOrb
  published,           \* the registry: latest revision of an orb
  host, next,          \* LsContext.Api, and what it is about to become
  handler, current,    \* the read loop
  pc, orb, source,     \* the workers
  crashed, switches,
  crossing, late       \* history: workers whose operation had begun before
                       \* the last change of host was complete; orbs they stored
storeVars   == <<orbsCache, file>>
hostVars    == <<host, next, switches>>
handlerVars == <<handler, current>>
workerVars  == <<pc, orb, source>>
historyVars == <<crossing, late>>
vars == <<storeVars, published, hostVars, handlerVars, workerVars, crashed, historyVars>>

PCs == {"idle", "stat", "read", "get", "has", "getAgain", "fetch", "check", "write", "set"}
Holding == {"check", "write", "set"}

(* The read loop has begun to forget the old host's data and has not yet    *)
(* set the new host.                                                        *)
Switching == handler \in {"removing", "assigning"}

Init ==
  /\ orbsCache = [o \in Orbs |-> NoOrb]
  /\ file \in [Orbs -> {NoOrb} \union [host : Hosts, rev : {0}]]
  /\ published = [o \in Orbs |-> 0]
  /\ host = InitHost /\ next = InitHost /\ switches = 0
  /\ handler = "idle" /\ current \in Orbs
  /\ pc = [w \in Workers |-> "idle"] /\ orb \in [Workers -> {current}]
  /\ source = [w \in Workers |-> NoOrb]
  /\ crashed = FALSE /\ crossing = {} /\ late = {}
-----------------------------------------------------------------------------
(* An author publishes another version under the same name.                 *)
Publish(o) ==
  /\ o \in Volatile /\ published[o] < MaxPublish
  /\ published' = [published EXCEPT ![o] = @ + 1]
  /\ UNCHANGED <<storeVars, hostVars, handlerVars, workerVars, crashed, historyVars>>

(* ParseRemoteOrbs(o), GetOrFetchOrbInfo(o).                                *)
Start(w, p, o) ==
  /\ pc[w] = "idle"
  /\ pc' = [pc EXCEPT ![w] = p] /\ orb' = [orb EXCEPT ![w] = o]
  /\ crossing' = crossing \ {w}
  /\ UNCHANGED <<storeVars, published, hostVars, handlerVars, source, crashed, late>>
ParseRemoteOrb(w, o) == Start(w, IF o \in Volatile THEN "fetch" ELSE "stat", o)
LookUp(w, o) == Start(w, "get", o)

Step(w, from, to) == pc[w] = from /\ pc' = [pc EXCEPT ![w] = to]

(* checkIfRemoteOrbAlreadyExistsInFSCache                                   *)
StatFile(w) ==
  /\ Step(w, "stat", IF file[orb[w]] # NoOrb THEN "read" ELSE "fetch")
  /\ UNCHANGED <<storeVars, published, hostVars, handlerVars, orb, source, crashed, historyVars>>

(* addAlreadyExistingRemoteOrbsToFSCache.  GetOrbVersions does not ask for   *)
(* the id without which it takes an answer for an error, so nothing is added *)
(* to the cache.                                                            *)
ReadFile(w) ==
  /\ Step(w, "read", IF file[orb[w]] # NoOrb THEN "idle" ELSE "fetch")
  /\ UNCHANGED <<storeVars, published, hostVars, handlerVars, orb, source, crashed, historyVars>>

(* GetOrFetchOrbInfo and GetOrbInfo look three times.                       *)
HasMissing(o) == TRUE   \* mutation: believes every orb is there
HasOrb(o) == orbsCache[o] # NoOrb

GetOrb(w) ==
  /\ Step(w, "get", IF orbsCache[orb[w]] # NoOrb THEN "idle" ELSE "has")
  /\ UNCHANGED <<storeVars, published, hostVars, handlerVars, orb, source, crashed, historyVars>>

CheckOrb(w) ==
  /\ Step(w, "has", IF HasOrb(orb[w]) THEN "getAgain" ELSE "fetch")
  /\ UNCHANGED <<storeVars, published, hostVars, handlerVars, orb, source, crashed, historyVars>>

(* Not every caller looks whether it was given nil (validate/orb.go:222-231). *)
GetOrbAgain(w) ==
  /\ Step(w, "getAgain", "idle")
  /\ crashed' \in IF orbsCache[orb[w]] = NoOrb THEN BOOLEAN ELSE {FALSE}
  /\ UNCHANGED <<storeVars, published, hostVars, handlerVars, orb, source, historyVars>>

(* fetchOrbInfo: request, store the source on disk unless there is a file,  *)
(* store the orb in memory.                                                 *)
Fetch(w) ==
  /\ Step(w, "fetch", "check")
  /\ source' = [source EXCEPT ![w] = [host |-> host, rev |-> published[orb[w]]]]
  /\ UNCHANGED <<storeVars, published, hostVars, handlerVars, orb, crashed, historyVars>>

FetchFails(w) ==
  /\ Step(w, "fetch", "idle")
  /\ UNCHANGED <<storeVars, published, hostVars, handlerVars, orb, source, crashed, historyVars>>

NeverNeeded(o) == FALSE   \* mutation: the file is not written
NeedsFile(o) == file[o] = NoOrb

CheckFile(w) ==
  /\ Step(w, "check", IF NeedsFile(orb[w]) THEN "write" ELSE "set")
  /\ UNCHANGED <<storeVars, published, hostVars, handlerVars, orb, source, crashed, historyVars>>

WriteFile(w) ==
  /\ Step(w, "write", "set")
  /\ file' = [file EXCEPT ![orb[w]] = source[w]]
  /\ UNCHANGED <<orbsCache, published, hostVars, handlerVars, orb, source, crashed, historyVars>>

(* The source does not parse, or its file cannot be written.                *)
StoreFails(w) ==
  /\ pc[w] \in {"check", "write"} /\ pc' = [pc EXCEPT ![w] = "idle"]
  /\ source' = [source EXCEPT ![w] = NoOrb]
  /\ UNCHANGED <<storeVars, published, hostVars, handlerVars, orb, crashed, historyVars>>

SetOrb(w) ==
  LET o == orb[w] IN
  /\ Step(w, "set", "idle")
  /\ orbsCache' = [orbsCache EXCEPT ![o] = [source |-> source[w], edited |-> FALSE]]
  /\ source' = [source EXCEPT ![w] = NoOrb]
  /\ late' = IF Switching \/ w \in crossing THEN late \union {o} ELSE late \ {o}
  /\ UNCHANGED <<file, published, hostVars, handlerVars, orb, crashed, crossing>>
-----------------------------------------------------------------------------
(* updateOrbFile, when an orb file is opened or edited: HasOrb ...          *)
OpenOrbFile(o) ==
  /\ handler = "idle" /\ HasOrb(o)
  /\ handler' = "updating" /\ current' = o
  /\ UNCHANGED <<storeVars, published, hostVars, workerVars, crashed, historyVars>>

(* ... then UpdateOrbParsedAttributes of what is there by now.              *)
UpdateOrb ==
  /\ handler = "updating" /\ handler' = "idle"
  /\ IF orbsCache[current] = NoOrb
       THEN crashed' = TRUE /\ UNCHANGED orbsCache
       ELSE orbsCache' = [orbsCache EXCEPT ![current].edited = TRUE] /\ UNCHANGED crashed
  /\ UNCHANGED <<file, published, hostVars, current, workerVars, historyVars>>

(* setToken, setSelfHostedUrl: RemoveOrbFiles removes the files of the orbs  *)
(* that are in memory, RemoveOrbs forgets the orbs, then the new setting is  *)
(* assigned.                                                                *)
RemoveOrbFiles(h) ==
  /\ handler = "idle" /\ h # host /\ switches < MaxSwitches
  /\ handler' = "removing" /\ next' = h /\ switches' = switches + 1
  /\ file' = [o \in Orbs |-> IF orbsCache[o] # NoOrb THEN NoOrb ELSE file[o]]
  /\ UNCHANGED <<orbsCache, published, host, current, workerVars, crashed, historyVars>>

OnlyVolatile == Volatile   \* mutation: orbs with a version are kept
Forgotten == Orbs

RemoveOrbs ==
  /\ handler = "removing" /\ handler' = "assigning"
  /\ orbsCache' = [o \in Orbs |-> IF o \in Forgotten THEN NoOrb ELSE orbsCache[o]]
  /\ late' = {}
  /\ UNCHANGED <<file, published, hostVars, current, workerVars, crashed, crossing>>

SetHost ==
  /\ handler = "assigning" /\ handler' = "idle"
  /\ host' = next
  /\ crossing' = {w \in Workers : pc[w] # "idle"}
  /\ UNCHANGED <<storeVars, published, next, switches, current, workerVars, crashed, late>>

Worker(w) ==
  \/ \E o \in Orbs : ParseRemoteOrb(w, o) \/ LookUp(w, o)
  \/ StatFile(w) \/ ReadFile(w) \/ GetOrb(w) \/ CheckOrb(w) \/ GetOrbAgain(w)
  \/ Fetch(w) \/ FetchFails(w) \/ CheckFile(w) \/ WriteFile(w)
  \/ StoreFails(w) \/ SetOrb(w)

Handler ==
  \/ \E o \in Orbs : OpenOrbFile(o)
  \/ \E h \in Hosts : RemoveOrbFiles(h)
  \/ UpdateOrb \/ RemoveOrbs \/ SetHost

Next ==
  /\ ~crashed
  /\ \/ \E w \in Workers : Worker(w)
     \/ Handler
     \/ \E o \in Orbs : Publish(o)

Spec == Init /\ [][Next]_vars
-----------------------------------------------------------------------------
(* Every variable keeps its type. *)
TypeOK ==
  /\ orbsCache \in [Orbs -> OrbInfo \union {NoOrb}]
  /\ file \in [Orbs -> Sources \union {NoOrb}]
  /\ published \in [Orbs -> 0..MaxPublish]
  /\ host \in Hosts /\ next \in Hosts /\ switches \in Nat
  /\ handler \in {"idle", "updating", "removing", "assigning"} /\ current \in Orbs
  /\ pc \in [Workers -> PCs] /\ orb \in [Workers -> Orbs]
  /\ source \in [Workers -> Sources \union {NoOrb}]
  /\ crashed \in BOOLEAN /\ crossing \subseteq Workers /\ late \subseteq Orbs

Settled(o) == ~Switching /\ orbsCache[o] # NoOrb /\ o \notin late

(* An orb in memory comes from the host the settings name, unless a fetch    *)
(* that began before the settings changed stored it afterwards               *)
(* (cache.go:280-284, remoteOrb.go:106-145).                                *)
MemoryIsOfHost == \A o \in Orbs : Settled(o) => orbsCache[o].source.host = host

(* Go-to-definition on an orb opens RemoteInfo.FilePath (definition/orb.go): *)
(* the file is there, although goroutines write files and memory and the     *)
(* read loop removes them in separate critical sections, with the same       *)
(* exception.                                                               *)
FileBacksMemory == \A o \in Orbs : Settled(o) => file[o] # NoOrb

SomeoneOvertaken ==
  \E w \in Workers : pc[w] = "getAgain" /\ (Switching \/ w \in crossing)

(* A nil orb is used only by a lookup that a change of host has overtaken    *)
(* (remoteOrb.go:42-48); never by the read loop (cache.go:177).              *)
CrashesOnlyAcrossSwitch == [][crashed' => SomeoneOvertaken]_vars
-----------------------------------------------------------------------------
(* An operation that no change of host has overtaken holds the source of    *)
(* the present host, has seen the file, and has seen the orb.               *)
WorkerSettled(w) ==
  ~Switching /\ w \notin crossing =>
    /\ pc[w] \in Holding => source[w] # NoOrb /\ source[w].host = host
    /\ pc[w] = "set" => file[orb[w]] # NoOrb
    /\ pc[w] = "getAgain" => orbsCache[orb[w]] # NoOrb

(* What is in memory between RemoveOrbs and the assignment came late.       *)
Emptied == handler = "assigning" => \A o \in Orbs : orbsCache[o] # NoOrb => o \in late

(* The inductive invariant. *)
IInv ==
  /\ TypeOK /\ MemoryIsOfHost /\ FileBacksMemory /\ Emptied
  /\ \A w \in Workers : pc[w] \in Holding => source[w] # NoOrb
  /\ \A w \in Workers : WorkerSettled(w)
  /\ handler = "updating" => orbsCache[current] # NoOrb
=============================================================================
