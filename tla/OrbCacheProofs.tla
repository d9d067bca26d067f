--------------------------- MODULE OrbCacheProofs ---------------------------
(***************************************************************************)
(* Proofs about OrbCache, for every number of orbs, hosts and goroutines.  *)
(*                                                                         *)
(* The invariant is preserved because an operation that no change of host  *)
(* overtakes sees neither an orb nor a file disappear: only ClearHostData  *)
(* removes them, and the operations it interrupts are in `crossing'.       *)
(***************************************************************************)
EXTENDS OrbCache, TLAPS

(* The parts of the invariant, one by one. *)
Held == \A w \in Workers : pc[w] \in Holding => source[w] # NoOrb
Settlement == \A w \in Workers : WorkerSettled(w)
Updating == handler = "updating" => orbsCache[current] # NoOrb

(* The invariant is the conjunction of its parts, now and in the next state. *)
LEMMA Parts ==
  /\ IInv <=> /\ TypeOK /\ MemoryIsOfHost /\ FileBacksMemory /\ Emptied
             /\ Held /\ Settlement /\ Updating
  /\ IInv' <=> /\ TypeOK' /\ MemoryIsOfHost' /\ FileBacksMemory' /\ Emptied'
              /\ Held' /\ Settlement' /\ Updating'
<1> QED BY DEF IInv, Held, Settlement, Updating

(* The initial states. *)
LEMMA InitIInv == Init => IInv
<1> SUFFICES ASSUME Init PROVE IInv
  OBVIOUS
<1>1. TypeOK
  <2>1. \A r \in [host : Hosts, rev : {0}] : r \in Sources
    <3> TAKE r \in [host : Hosts, rev : {0}]
    <3>1. r = [host |-> r.host, rev |-> r.rev] /\ r.host \in Hosts /\ r.rev = 0
      OBVIOUS
    <3>2. [host |-> r.host, rev |-> 0] \in Sources
      BY <3>1, BoundAssumption DEF Sources
    <3> QED BY <3>1, <3>2
  <2> DEFINE Old == [host : Hosts, rev : {0}]
  <2>2. file \in [Orbs -> {NoOrb} \union Old] /\ Old \subseteq Sources
    BY <2>1 DEF Init
  <2> HIDE DEF Old
  <2>3. file = [o \in Orbs |-> file[o]] /\ \A o \in Orbs : file[o] \in Sources \union {NoOrb}
    BY <2>2
  <2>4. file \in [Orbs -> Sources \union {NoOrb}]
    BY <2>3
  <2>5. orb \in [Workers -> Orbs] /\ published \in [Orbs -> 0..MaxPublish]
    <3>1. orb = [w \in Workers |-> orb[w]] /\ \A w \in Workers : orb[w] = current
      BY DEF Init
    <3>2. 0 \in 0..MaxPublish
      BY BoundAssumption
    <3> QED BY <3>1, <3>2 DEF Init
  <2> QED BY <2>4, <2>5, OrbAssumption, HostAssumption, BoundAssumption DEF Init, TypeOK, PCs
<1>2. MemoryIsOfHost /\ FileBacksMemory
  BY DEF Init, MemoryIsOfHost, FileBacksMemory, Settled
<1>3. Held /\ Settlement /\ Updating /\ Emptied
  BY DEF Init, Emptied, Held, Settlement, Updating, WorkerSettled, Holding
<1> QED BY <1>1, <1>2, <1>3, Parts

(* A publication changes nothing that is cached. *)
LEMMA PublishStep ==
  ASSUME NEW o \in Orbs, IInv, Publish(o)
  PROVE  IInv'
<1> USE Parts DEF Publish, storeVars, hostVars, handlerVars, workerVars, historyVars
<1>0. published[o] + 1 \in 0..MaxPublish
  BY BoundAssumption DEF TypeOK
<1>1. TypeOK'
  BY <1>0 DEF TypeOK, PCs
<1>2. MemoryIsOfHost' /\ FileBacksMemory'
  BY <1>0 DEF MemoryIsOfHost, FileBacksMemory, Settled, Switching, TypeOK, Settlement,
     WorkerSettled, Holding, Emptied
<1>3. Held'
  BY <1>0 DEF Held, Holding, TypeOK
<1>4. Settlement'
  BY <1>0 DEF Settlement, WorkerSettled, Holding, Switching, TypeOK, FileBacksMemory,
     MemoryIsOfHost, Settled
<1>5. Updating' /\ Emptied'
  BY <1>0 DEF Updating, Emptied, Switching, TypeOK
<1> QED BY <1>1, <1>2, <1>3, <1>4, <1>5

(* An operation begins. *)
LEMMA ParseStep ==
  ASSUME NEW w \in Workers, NEW o \in Orbs, IInv, ParseRemoteOrb(w, o)
  PROVE  IInv'
<1> USE Parts DEF ParseRemoteOrb, Start, storeVars, hostVars, handlerVars, workerVars, historyVars
<1>1. TypeOK'
  BY DEF TypeOK, PCs, Sources, OrbInfo
<1>2. MemoryIsOfHost' /\ FileBacksMemory'
  BY DEF MemoryIsOfHost, FileBacksMemory, Settled, Switching, TypeOK, Settlement,
     WorkerSettled, Holding, Emptied
<1>3. Held'
  BY DEF Held, Holding, TypeOK
<1>4. Settlement'
  BY DEF Settlement, WorkerSettled, Holding, Switching, TypeOK, FileBacksMemory,
     MemoryIsOfHost, Settled
<1>5. Updating' /\ Emptied'
  BY DEF Updating, Emptied, Switching, TypeOK
<1> QED BY <1>1, <1>2, <1>3, <1>4, <1>5

(* An operation begins. *)
LEMMA LookUpStep ==
  ASSUME NEW w \in Workers, NEW o \in Orbs, IInv, LookUp(w, o)
  PROVE  IInv'
<1> USE Parts DEF LookUp, Start, storeVars, hostVars, handlerVars, workerVars, historyVars
<1>1. TypeOK'
  BY DEF TypeOK, PCs, Sources, OrbInfo
<1>2. MemoryIsOfHost' /\ FileBacksMemory'
  BY DEF MemoryIsOfHost, FileBacksMemory, Settled, Switching, TypeOK, Settlement,
     WorkerSettled, Holding, Emptied
<1>3. Held'
  BY DEF Held, Holding, TypeOK
<1>4. Settlement'
  BY DEF Settlement, WorkerSettled, Holding, Switching, TypeOK, FileBacksMemory,
     MemoryIsOfHost, Settled
<1>5. Updating' /\ Emptied'
  BY DEF Updating, Emptied, Switching, TypeOK
<1> QED BY <1>1, <1>2, <1>3, <1>4, <1>5

(* The file is looked for. *)
LEMMA StatFileStep ==
  ASSUME NEW w \in Workers, IInv, StatFile(w)
  PROVE  IInv'
<1> USE Parts DEF StatFile, Step, HasOrb, NeedsFile, storeVars, hostVars, handlerVars, workerVars, historyVars
<1>1. TypeOK'
  BY DEF TypeOK, PCs, Sources, OrbInfo
<1>2. MemoryIsOfHost' /\ FileBacksMemory'
  BY DEF MemoryIsOfHost, FileBacksMemory, Settled, Switching, TypeOK, Settlement,
     WorkerSettled, Holding, Emptied
<1>3. Held'
  BY DEF Held, Holding, TypeOK
<1>4. Settlement'
  BY DEF Settlement, WorkerSettled, Holding, Switching, TypeOK, FileBacksMemory,
     MemoryIsOfHost, Settled
<1>5. Updating' /\ Emptied'
  BY DEF Updating, Emptied, Switching, TypeOK
<1> QED BY <1>1, <1>2, <1>3, <1>4, <1>5

(* The file is read. *)
LEMMA ReadFileStep ==
  ASSUME NEW w \in Workers, IInv, ReadFile(w)
  PROVE  IInv'
<1> USE Parts DEF ReadFile, Step, HasOrb, NeedsFile, storeVars, hostVars, handlerVars, workerVars, historyVars
<1>1. TypeOK'
  BY DEF TypeOK, PCs, Sources, OrbInfo
<1>2. MemoryIsOfHost' /\ FileBacksMemory'
  BY DEF MemoryIsOfHost, FileBacksMemory, Settled, Switching, TypeOK, Settlement,
     WorkerSettled, Holding, Emptied
<1>3. Held'
  BY DEF Held, Holding, TypeOK
<1>4. Settlement'
  BY DEF Settlement, WorkerSettled, Holding, Switching, TypeOK, FileBacksMemory,
     MemoryIsOfHost, Settled
<1>5. Updating' /\ Emptied'
  BY DEF Updating, Emptied, Switching, TypeOK
<1> QED BY <1>1, <1>2, <1>3, <1>4, <1>5

(* The first look into the cache. *)
LEMMA GetOrbStep ==
  ASSUME NEW w \in Workers, IInv, GetOrb(w)
  PROVE  IInv'
<1> USE Parts DEF GetOrb, Step, HasOrb, NeedsFile, storeVars, hostVars, handlerVars, workerVars, historyVars
<1>1. TypeOK'
  BY DEF TypeOK, PCs, Sources, OrbInfo
<1>2. MemoryIsOfHost' /\ FileBacksMemory'
  BY DEF MemoryIsOfHost, FileBacksMemory, Settled, Switching, TypeOK, Settlement,
     WorkerSettled, Holding, Emptied
<1>3. Held'
  BY DEF Held, Holding, TypeOK
<1>4. Settlement'
  BY DEF Settlement, WorkerSettled, Holding, Switching, TypeOK, FileBacksMemory,
     MemoryIsOfHost, Settled
<1>5. Updating' /\ Emptied'
  BY DEF Updating, Emptied, Switching, TypeOK
<1> QED BY <1>1, <1>2, <1>3, <1>4, <1>5

(* The second look: what it saw stays, unless the host changes. *)
LEMMA CheckOrbStep ==
  ASSUME NEW w \in Workers, IInv, CheckOrb(w)
  PROVE  IInv'
<1> USE Parts DEF CheckOrb, Step, HasOrb, NeedsFile, storeVars, hostVars, handlerVars, workerVars, historyVars
<1>1. TypeOK'
  BY DEF TypeOK, PCs, Sources, OrbInfo
<1>2. MemoryIsOfHost' /\ FileBacksMemory'
  BY DEF MemoryIsOfHost, FileBacksMemory, Settled, Switching, TypeOK, Settlement,
     WorkerSettled, Holding, Emptied
<1>3. Held'
  BY DEF Held, Holding, TypeOK
<1>4. Settlement'
  BY DEF Settlement, WorkerSettled, Holding, Switching, TypeOK, FileBacksMemory,
     MemoryIsOfHost, Settled
<1>5. Updating' /\ Emptied'
  BY DEF Updating, Emptied, Switching, TypeOK
<1> QED BY <1>1, <1>2, <1>3, <1>4, <1>5

(* The third look. *)
LEMMA GetOrbAgainStep ==
  ASSUME NEW w \in Workers, IInv, GetOrbAgain(w)
  PROVE  IInv'
<1> USE Parts DEF GetOrbAgain, Step, HasOrb, NeedsFile, storeVars, hostVars, handlerVars, workerVars, historyVars
<1>1. TypeOK'
  BY DEF TypeOK, PCs, Sources, OrbInfo
<1>2. MemoryIsOfHost' /\ FileBacksMemory'
  BY DEF MemoryIsOfHost, FileBacksMemory, Settled, Switching, TypeOK, Settlement,
     WorkerSettled, Holding, Emptied
<1>3. Held'
  BY DEF Held, Holding, TypeOK
<1>4. Settlement'
  BY DEF Settlement, WorkerSettled, Holding, Switching, TypeOK, FileBacksMemory,
     MemoryIsOfHost, Settled
<1>5. Updating' /\ Emptied'
  BY DEF Updating, Emptied, Switching, TypeOK
<1> QED BY <1>1, <1>2, <1>3, <1>4, <1>5

(* A fetch carries the host of the moment. *)
LEMMA FetchStep ==
  ASSUME NEW w \in Workers, IInv, Fetch(w)
  PROVE  IInv'
<1> USE Parts DEF Fetch, Step, HasOrb, NeedsFile, storeVars, hostVars, handlerVars, workerVars, historyVars
<1> DEFINE src == [host |-> host, rev |-> published[orb[w]]]
<1>0. src \in Sources /\ src # NoOrb /\ src.host = host
  BY OrbAssumption DEF TypeOK, Sources
<1>00. source' = [source EXCEPT ![w] = src]
  OBVIOUS
<1> HIDE DEF src
<1>1. TypeOK'
  BY <1>0, <1>00 DEF TypeOK, PCs
<1>2. MemoryIsOfHost' /\ FileBacksMemory'
  BY <1>0, <1>00 DEF MemoryIsOfHost, FileBacksMemory, Settled, Switching, TypeOK, Settlement,
     WorkerSettled, Holding, Emptied
<1>3. Held'
  BY <1>0, <1>00 DEF Held, Holding, TypeOK
<1>4. Settlement'
  BY <1>0, <1>00 DEF Settlement, WorkerSettled, Holding, Switching, TypeOK, FileBacksMemory,
     MemoryIsOfHost, Settled
<1>5. Updating' /\ Emptied'
  BY <1>0, <1>00 DEF Updating, Emptied, Switching, TypeOK
<1> QED BY <1>1, <1>2, <1>3, <1>4, <1>5

(* A fetch fails. *)
LEMMA FetchFailsStep ==
  ASSUME NEW w \in Workers, IInv, FetchFails(w)
  PROVE  IInv'
<1> USE Parts DEF FetchFails, Step, HasOrb, NeedsFile, storeVars, hostVars, handlerVars, workerVars, historyVars
<1>1. TypeOK'
  BY DEF TypeOK, PCs, Sources, OrbInfo
<1>2. MemoryIsOfHost' /\ FileBacksMemory'
  BY DEF MemoryIsOfHost, FileBacksMemory, Settled, Switching, TypeOK, Settlement,
     WorkerSettled, Holding, Emptied
<1>3. Held'
  BY DEF Held, Holding, TypeOK
<1>4. Settlement'
  BY DEF Settlement, WorkerSettled, Holding, Switching, TypeOK, FileBacksMemory,
     MemoryIsOfHost, Settled
<1>5. Updating' /\ Emptied'
  BY DEF Updating, Emptied, Switching, TypeOK
<1> QED BY <1>1, <1>2, <1>3, <1>4, <1>5

(* A source that was fetched is not stored. *)
LEMMA StoreFailsStep ==
  ASSUME NEW w \in Workers, IInv, StoreFails(w)
  PROVE  IInv'
<1> USE Parts DEF StoreFails, Step, HasOrb, NeedsFile, storeVars, hostVars, handlerVars, workerVars, historyVars
<1>1. TypeOK'
  BY DEF TypeOK, PCs, Sources, OrbInfo
<1>2. MemoryIsOfHost' /\ FileBacksMemory'
  BY DEF MemoryIsOfHost, FileBacksMemory, Settled, Switching, TypeOK, Settlement,
     WorkerSettled, Holding, Emptied
<1>3. Held'
  BY DEF Held, Holding, TypeOK
<1>4. Settlement'
  BY DEF Settlement, WorkerSettled, Holding, Switching, TypeOK, FileBacksMemory,
     MemoryIsOfHost, Settled
<1>5. Updating' /\ Emptied'
  BY DEF Updating, Emptied, Switching, TypeOK
<1> QED BY <1>1, <1>2, <1>3, <1>4, <1>5

(* A file that exists is not written, and stays. *)
LEMMA CheckFileStep ==
  ASSUME NEW w \in Workers, IInv, CheckFile(w)
  PROVE  IInv'
<1> USE Parts DEF CheckFile, Step, HasOrb, NeedsFile, storeVars, hostVars, handlerVars, workerVars, historyVars
<1>1. TypeOK'
  BY DEF TypeOK, PCs, Sources, OrbInfo
<1>2. MemoryIsOfHost' /\ FileBacksMemory'
  BY DEF MemoryIsOfHost, FileBacksMemory, Settled, Switching, TypeOK, Settlement,
     WorkerSettled, Holding, Emptied
<1>3. Held'
  BY DEF Held, Holding, TypeOK
<1>4. Settlement'
  BY DEF Settlement, WorkerSettled, Holding, Switching, TypeOK, FileBacksMemory,
     MemoryIsOfHost, Settled
<1>5. Updating' /\ Emptied'
  BY DEF Updating, Emptied, Switching, TypeOK
<1> QED BY <1>1, <1>2, <1>3, <1>4, <1>5

(* A file that is missing is written. *)
LEMMA WriteFileStep ==
  ASSUME NEW w \in Workers, IInv, WriteFile(w)
  PROVE  IInv'
<1> USE Parts DEF WriteFile, Step, HasOrb, NeedsFile, storeVars, hostVars, handlerVars, workerVars, historyVars
<1>0. source[w] \in Sources /\ source[w] # NoOrb
  BY OrbAssumption DEF Held, Holding, TypeOK
<1>1. TypeOK'
  BY <1>0 DEF TypeOK, PCs
<1>2. MemoryIsOfHost' /\ FileBacksMemory'
  BY <1>0 DEF MemoryIsOfHost, FileBacksMemory, Settled, Switching, TypeOK, Settlement,
     WorkerSettled, Holding, Emptied
<1>3. Held'
  BY <1>0 DEF Held, Holding, TypeOK
<1>4. Settlement'
  BY <1>0 DEF Settlement, WorkerSettled, Holding, Switching, TypeOK, FileBacksMemory,
     MemoryIsOfHost, Settled
<1>5. Updating' /\ Emptied'
  BY <1>0 DEF Updating, Emptied, Switching, TypeOK
<1> QED BY <1>1, <1>2, <1>3, <1>4, <1>5

(* What is stored is of the present host, or late. *)
LEMMA SetOrbStep ==
  ASSUME NEW w \in Workers, IInv, SetOrb(w)
  PROVE  IInv'
<1> USE Parts DEF SetOrb, Step, HasOrb, NeedsFile, storeVars, hostVars, handlerVars, workerVars, historyVars
<1> DEFINE info == [source |-> source[w], edited |-> FALSE]
<1>000. source[w] \in Sources /\ source[w] # NoOrb
  BY DEF Held, Holding, TypeOK
<1>001. info \in OrbInfo /\ info.source = source[w]
  <2> HIDE DEF SetOrb, IInv, Parts
  <2> QED BY <1>000 DEF OrbInfo
<1>0. /\ info \in OrbInfo /\ info # NoOrb
      /\ info.source = source[w] /\ source[w] # NoOrb
  BY <1>000, <1>001, OrbAssumption
<1>00. orbsCache' = [orbsCache EXCEPT ![orb[w]] = info]
  OBVIOUS
<1> HIDE DEF info
<1>1. TypeOK'
  <2>0. orb[w] \in Orbs /\ orbsCache \in [Orbs -> OrbInfo \union {NoOrb}]
    BY DEF TypeOK
  <2>1. orbsCache' \in [Orbs -> OrbInfo \union {NoOrb}]
    <3> HIDE DEF SetOrb, Parts
    <3> QED BY <1>0, <1>00, <2>0
  <2>3. source' \in [Workers -> Sources \union {NoOrb}]
    BY DEF TypeOK
  <2>2. pc' \in [Workers -> PCs] /\ late' \subseteq Orbs
    BY DEF TypeOK, PCs
  <2> QED BY <2>1, <2>2, <2>3 DEF TypeOK
<1>2. MemoryIsOfHost' /\ FileBacksMemory'
  BY <1>0, <1>00 DEF MemoryIsOfHost, FileBacksMemory, Settled, Switching, TypeOK, Settlement,
     WorkerSettled, Holding, Emptied
<1>3. Held'
  BY <1>0, <1>00 DEF Held, Holding, TypeOK
<1>4. Settlement'
  BY <1>0, <1>00 DEF Settlement, WorkerSettled, Holding, Switching, TypeOK, FileBacksMemory,
     MemoryIsOfHost, Settled
<1>5. Updating' /\ Emptied'
  BY <1>0, <1>00 DEF Updating, Emptied, Switching, TypeOK
<1> QED BY <1>1, <1>2, <1>3, <1>4, <1>5

(* Only the read loop forgets orbs: what it has seen stays. *)
LEMMA OpenOrbFileStep ==
  ASSUME NEW o \in Orbs, IInv, OpenOrbFile(o)
  PROVE  IInv'
<1> USE Parts DEF OpenOrbFile, HasOrb, Forgotten, storeVars, hostVars, handlerVars, workerVars, historyVars
<1>1. TypeOK'
  BY DEF TypeOK, PCs, Sources, OrbInfo
<1>2. MemoryIsOfHost' /\ FileBacksMemory'
  BY DEF MemoryIsOfHost, FileBacksMemory, Settled, Switching, TypeOK, Settlement,
     WorkerSettled, Holding, Emptied
<1>3. Held'
  BY DEF Held, Holding, TypeOK
<1>4. Settlement'
  BY DEF Settlement, WorkerSettled, Holding, Switching, TypeOK, FileBacksMemory,
     MemoryIsOfHost, Settled
<1>5. Updating' /\ Emptied'
  BY DEF Updating, Emptied, Switching, TypeOK
<1> QED BY <1>1, <1>2, <1>3, <1>4, <1>5

(* The orb seen is still there. *)
LEMMA UpdateOrbStep ==
  ASSUME IInv, UpdateOrb
  PROVE  IInv'
<1> USE Parts DEF UpdateOrb, HasOrb, Forgotten, storeVars, hostVars, handlerVars, workerVars, historyVars
<1> DEFINE info == [orbsCache[current] EXCEPT !.edited = TRUE]
<1>0. /\ info \in OrbInfo /\ info # NoOrb /\ info.source = orbsCache[current].source
      /\ orbsCache[current] # NoOrb
  BY OrbAssumption DEF Updating, TypeOK, OrbInfo
<1>00. orbsCache' = [orbsCache EXCEPT ![current] = info]
  BY <1>0
<1> HIDE DEF info
<1>1. TypeOK'
  BY <1>0, <1>00 DEF TypeOK, PCs
<1>2. MemoryIsOfHost' /\ FileBacksMemory'
  BY <1>0, <1>00 DEF MemoryIsOfHost, FileBacksMemory, Settled, Switching, TypeOK, Settlement,
     WorkerSettled, Holding, Emptied
<1>3. Held'
  BY <1>0, <1>00 DEF Held, Holding, TypeOK
<1>4. Settlement'
  BY <1>0, <1>00 DEF Settlement, WorkerSettled, Holding, Switching, TypeOK, FileBacksMemory,
     MemoryIsOfHost, Settled
<1>5. Updating' /\ Emptied'
  BY <1>0, <1>00 DEF Updating, Emptied, Switching, TypeOK
<1> QED BY <1>1, <1>2, <1>3, <1>4, <1>5

(* The change of host begins. *)
LEMMA RemoveFilesStep ==
  ASSUME NEW h \in Hosts, IInv, RemoveOrbFiles(h)
  PROVE  IInv'
<1> USE Parts DEF RemoveOrbFiles, HasOrb, Forgotten, storeVars, hostVars, handlerVars, workerVars, historyVars
<1>1. TypeOK'
  BY DEF TypeOK, PCs, Sources, OrbInfo
<1>2. MemoryIsOfHost' /\ FileBacksMemory'
  BY DEF MemoryIsOfHost, FileBacksMemory, Settled, Switching, TypeOK, Settlement,
     WorkerSettled, Holding, Emptied
<1>3. Held'
  BY DEF Held, Holding, TypeOK
<1>4. Settlement'
  BY DEF Settlement, WorkerSettled, Holding, Switching, TypeOK, FileBacksMemory,
     MemoryIsOfHost, Settled
<1>5. Updating' /\ Emptied'
  BY DEF Updating, Emptied, Switching, TypeOK
<1> QED BY <1>1, <1>2, <1>3, <1>4, <1>5

(* The memory is emptied. *)
LEMMA RemoveOrbsStep ==
  ASSUME IInv, RemoveOrbs
  PROVE  IInv'
<1> USE Parts DEF RemoveOrbs, HasOrb, Forgotten, storeVars, hostVars, handlerVars, workerVars, historyVars
<1>1. TypeOK'
  BY DEF TypeOK, PCs, Sources, OrbInfo
<1>2. MemoryIsOfHost' /\ FileBacksMemory'
  BY DEF MemoryIsOfHost, FileBacksMemory, Settled, Switching, TypeOK, Settlement,
     WorkerSettled, Holding, Emptied
<1>3. Held'
  BY DEF Held, Holding, TypeOK
<1>4. Settlement'
  BY DEF Settlement, WorkerSettled, Holding, Switching, TypeOK, FileBacksMemory,
     MemoryIsOfHost, Settled
<1>5. Updating' /\ Emptied'
  BY DEF Updating, Emptied, Switching, TypeOK
<1> QED BY <1>1, <1>2, <1>3, <1>4, <1>5

(* Whoever is in the middle of an operation has crossed the change. *)
LEMMA SetHostStep ==
  ASSUME IInv, SetHost
  PROVE  IInv'
<1> USE Parts DEF SetHost, HasOrb, Forgotten, storeVars, hostVars, handlerVars, workerVars, historyVars
<1>1. TypeOK'
  BY DEF TypeOK, PCs, Sources, OrbInfo
<1>2. MemoryIsOfHost' /\ FileBacksMemory'
  BY DEF MemoryIsOfHost, FileBacksMemory, Settled, Switching, TypeOK, Settlement,
     WorkerSettled, Holding, Emptied
<1>3. Held'
  BY DEF Held, Holding, TypeOK
<1>4. Settlement'
  BY DEF Settlement, WorkerSettled, Holding, Switching, TypeOK, FileBacksMemory,
     MemoryIsOfHost, Settled
<1>5. Updating' /\ Emptied'
  BY DEF Updating, Emptied, Switching, TypeOK
<1> QED BY <1>1, <1>2, <1>3, <1>4, <1>5

(* The invariant is inductive. *)
THEOREM Inductive == Spec => []IInv
<1>1. ASSUME IInv, [Next]_vars PROVE IInv'
  <2>1. CASE UNCHANGED vars
    <3> USE <1>1, <2>1 DEF vars, storeVars, hostVars, handlerVars, workerVars, historyVars
    <3>1. TypeOK' /\ MemoryIsOfHost' /\ FileBacksMemory' /\ Emptied'
      BY DEF IInv, TypeOK, MemoryIsOfHost, FileBacksMemory, Emptied, Settled, Switching
    <3>2. Held' /\ Settlement' /\ Updating'
      BY DEF IInv, Held, Settlement, Updating, WorkerSettled, Switching
    <3> QED BY <3>1, <3>2, Parts
  <2>2. ASSUME NEW o \in Orbs, Publish(o) PROVE IInv'
    BY <1>1, <2>2, PublishStep
  <2>3. ASSUME NEW w \in Workers, Worker(w) PROVE IInv'
    BY <1>1, <2>3, ParseStep, LookUpStep, StatFileStep, ReadFileStep, GetOrbStep,
       CheckOrbStep, GetOrbAgainStep, FetchStep, FetchFailsStep, CheckFileStep,
       WriteFileStep, StoreFailsStep, SetOrbStep DEF Worker
  <2>4. CASE Handler
    BY <1>1, <2>4, OpenOrbFileStep, UpdateOrbStep, RemoveFilesStep, RemoveOrbsStep,
       SetHostStep DEF Handler
  <2> QED BY <1>1, <2>1, <2>2, <2>3, <2>4 DEF Next
<1> QED BY <1>1, InitIInv, PTL DEF Spec

-----------------------------------------------------------------------------
(* Orbs in memory come from the host the settings name (cache.go:280-284,    *)
(* remoteOrb.go:106-145).                                                    *)
THEOREM MemoryFollowsHost == Spec => []MemoryIsOfHost
<1>1. IInv => MemoryIsOfHost
  BY DEF IInv
<1> QED BY <1>1, Inductive, PTL

(* An orb in memory has its file (remoteOrb.go:265-277, definition/orb.go).   *)
THEOREM FilesAreThere == Spec => []FileBacksMemory
<1>1. IInv => FileBacksMemory
  BY DEF IInv
<1> QED BY <1>1, Inductive, PTL

(* Only a lookup that a change of host has overtaken uses a nil orb           *)
(* (remoteOrb.go:42-48).                                                     *)
THEOREM NilOnlyAcrossSwitch == Spec => CrashesOnlyAcrossSwitch
<1>1. ASSUME IInv, Next, crashed' PROVE SomeoneOvertaken
  <2>1. ~crashed
    BY <1>1 DEF Next
  <2>2. ASSUME NEW w \in Workers, Worker(w) PROVE SomeoneOvertaken
    <3>1. GetOrbAgain(w) /\ orbsCache[orb[w]] = NoOrb
      BY <1>1, <2>1, <2>2 DEF Worker, ParseRemoteOrb, LookUp, Start, StatFile, ReadFile,
         GetOrb, CheckOrb, GetOrbAgain, Fetch, FetchFails, CheckFile, WriteFile, StoreFails, SetOrb
    <3> QED BY <1>1, <3>1 DEF GetOrbAgain, Step, IInv, WorkerSettled, SomeoneOvertaken
  <2>3. ~Handler
    BY <1>1, <2>1 DEF Handler, OpenOrbFile, UpdateOrb, RemoveOrbFiles, RemoveOrbs, SetHost, IInv
  <2>4. \A o \in Orbs : ~Publish(o)
    BY <1>1, <2>1 DEF Publish
  <2> QED BY <1>1, <2>2, <2>3, <2>4 DEF Next
<1>2. IInv /\ [Next]_vars => [crashed' => SomeoneOvertaken]_vars
  BY <1>1
<1> QED BY <1>2, Inductive, PTL DEF Spec, CrashesOnlyAcrossSwitch
=============================================================================
