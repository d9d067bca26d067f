--------------------------- MODULE DocumentProofs ---------------------------
(***************************************************************************)
(* Proofs about one document.  DocumentSync: for every set of files, orb     *)
(* files, workers and tokens and every value of the bounds.  TextEdits and    *)
(* Suppression: for every set of documents, of problems, of characters typed     *)
(* and every number of edits, from the assumptions those modules name.        *)
(***************************************************************************)
EXTENDS DocumentSync, Suppression, SequenceTheorems, FiniteSetTheorems, WellFoundedInduction, TLAPS

(* The types of the records the variables hold. *)
LEMMA ValueTypes == /\ NoDoc \in Docs /\ NoEntry \in Entries /\ NoJob \in Jobs
PROOF
  <1>1. (CHOOSE f \in Files : TRUE) \in Files
    BY FilesAssumption
  <1> QED BY <1>1 DEF NoDoc, Docs, NoEntry, Entries, NoJob, Jobs

(* The server starts in the invariant: nothing is open, cached or shown. *)
LEMMA InitIInv == Init => IInv
PROOF
  <1> SUFFICES ASSUME Init PROVE IInv OBVIOUS
  <1> USE ValueTypes, FilesAssumption, TokenAssumption, BoundAssumption
  <1>1. TypeOK
    BY DEF Init, TypeOK, HandlerPCs, WorkerPCs, NoJob, Jobs
  <1>2. OpenIsCached /\ BaseInSync /\ InSync
    BY DEF Init, OpenIsCached, BaseInSync, InSync
  <1>3. VersionsBounded
    BY DEF Init, VersionsBounded, Ver, NoEntry, NoDoc
  <1>4. WorkersBounded /\ PublishedForItsVersion
    BY DEF Init, WorkersBounded, WorkerBounded, PublishedForItsVersion
  <1>5. CrashInv
    BY DEF Init, CrashInv, RangedAfterToken, HandlerRanges, OnlyOpenedFiles,
         MissingIsClosedOrb, CrashesExplained
  <1> QED BY <1>1, <1>2, <1>3, <1>4, <1>5 DEF IInv

(* Storing an entry (Cache.SetFile) keeps the cache and its history typed. *)
LEMMA SetFileType ==
  ASSUME cached \subseteq Files, entry \in [Files -> Entries],
         lost \subseteq Files, regressed \subseteq Files,
         NEW f \in Files, NEW e \in Entries, SetFile(f, e)
  PROVE  /\ cached' \subseteq Files /\ entry' \in [Files -> Entries]
         /\ lost' \subseteq Files /\ regressed' \subseteq Files
PROOF
  <1>1. cached' \subseteq Files /\ entry' \in [Files -> Entries]
    BY DEF SetFile
  <1>2. lost' \subseteq Files
    BY DEF SetFile
  <1>3. regressed' \subseteq Files
    BY DEF SetFile
  <1> QED BY <1>1, <1>2, <1>3

(* No step takes a variable out of its type. *)
LEMMA TypeStep == TypeOK /\ [Next]_vars => TypeOK'
PROOF
  <1> SUFFICES ASSUME TypeOK, [Next]_vars PROVE TypeOK'
    OBVIOUS
  <1> USE ValueTypes, FilesAssumption DEF TypeOK, HandlerPCs, WorkerPCs, Docs,
       Entries, Jobs, Publications, editorVars, cacheVars, handlerVars,
       timerVars, workerVars, historyVars
  <1>1. ASSUME NEW f \in Files, DidOpen(f) PROVE TypeOK'
    <2>1. PICK text \in {{}, sent[f].text} :
            /\ sent' = [sent EXCEPT ![f] = [version |-> 1, text |-> text]]
            /\ entry' = [entry EXCEPT ![f] =
                 IF f \in cached THEN [entry[f] EXCEPT !.doc = [version |-> 1, text |-> text]]
                                 ELSE [doc |-> [version |-> 1, text |-> text], slug |-> FALSE]]
      BY <1>1 DEF DidOpen, SetChange
    <2>2. sent[f] \in Docs /\ entry[f] \in Entries
      BY DEF TypeOK
    <2>3. [version |-> 1, text |-> text] \in Docs
      BY <2>2 DEF Docs
    <2>4. sent' \in [Files -> Docs]
      BY <2>1, <2>3 DEF TypeOK
    <2>5. entry' \in [Files -> Entries]
      BY <2>1, <2>2, <2>3 DEF TypeOK, Entries
    <2>6. crashed' \in BOOLEAN
      BY <1>1 DEF DidOpen, RaceOutcomes
    <2>7. opens' \in [Files -> Nat]
      BY <1>1 DEF DidOpen, TypeOK
    <2>8. regressed' \subseteq Files
      BY <1>1 DEF DidOpen, TypeOK
    <2>9. open' \subseteq Files /\ cached' \subseteq Files /\ lost' \subseteq Files
          /\ handler' \in HandlerPCs /\ current' \in Files
      BY <1>1 DEF DidOpen, SetChange, TypeOK, HandlerPCs
    <2> QED BY <1>1, <2>4, <2>5, <2>6, <2>7, <2>8, <2>9 DEF DidOpen, timerVars, workerVars, TypeOK
  <1>2. ASSUME NEW f \in Files, DidChangeRead(f) PROVE TypeOK'
    BY <1>2 DEF DidChangeRead
  <1>3. ASSUME NEW f \in Files, DidClose(f) PROVE TypeOK'
    <2>1. shown' \in [Files -> SUBSET Publications]
      BY <1>3 DEF DidClose, TypeOK
    <2>2. cached' \subseteq Files /\ regressed' \subseteq Files
      BY <1>3 DEF DidClose, TypeOK
    <2>3. crashed' \in BOOLEAN
      BY <1>3 DEF DidClose, RaceOutcomes, TypeOK
    <2> QED BY <1>3, <2>1, <2>2, <2>3 DEF DidClose, handlerVars, timerVars, workerVars, TypeOK
  <1>4. ASSUME NEW k \in Tokens, SetToken(k) PROVE TypeOK'
    BY <1>4 DEF SetToken
  <1>5. CASE DidOpenParse
    BY <1>5 DEF DidOpenParse, ParseRemoteOrbs, Go
  <1>6. CASE DidChangeWrite
    <2> DEFINE id  == edits[current] + 1
               ver == sent[current].version + 1
    <2>1. id \in Nat /\ ver \in Nat /\ sent[current].text \subseteq Nat /\ current \in Files
      BY DEF TypeOK, Docs
    <2>2. edits' \in [Files -> Nat]
      BY <1>6, <2>1 DEF DidChangeWrite, TypeOK
    <2>3. sent' \in [Files -> Docs]
      <3>1. [version |-> ver, text |-> sent[current].text \union {id}] \in Docs
        BY <2>1 DEF Docs
      <3> QED BY <1>6, <2>1, <3>1 DEF DidChangeWrite, TypeOK
    <2>4. entry' \in [Files -> Entries]
      <3>1. [version |-> ver, text |-> base \union {id}] \in Docs
        BY <2>1 DEF Docs, TypeOK
      <3> QED BY <1>6, <2>1, <3>1 DEF DidChangeWrite, SetChange, TypeOK, Entries
    <2>5. pendingChange' \subseteq (Files \X Nat)
      BY <1>6, <2>1 DEF DidChangeWrite
    <2> QED BY <1>6, <2>2, <2>3, <2>4, <2>5 DEF DidChangeWrite, SetChange, RaceOutcomes,
              workerVars, historyVars, TypeOK, HandlerPCs
  <1>7. ASSUME NEW f \in Files, SetTokenSpawn(f) PROVE TypeOK'
    BY <1>7 DEF SetTokenSpawn, Go
  <1>8. ASSUME NEW f \in Files, SetTokenCopy(f) PROVE TypeOK'
    BY <1>8 DEF SetTokenCopy
  <1>9. CASE SetTokenSpawned
    BY <1>9 DEF SetTokenSpawned
  <1>10. CASE SetTokenInstall
    <2>1. current \in Files /\ handlerCopy \in Entries
      BY DEF TypeOK
    <2>2. cached' \subseteq Files /\ entry' \in [Files -> Entries]
          /\ lost' \subseteq Files /\ regressed' \subseteq Files
      BY <1>10, <2>1, SetFileType DEF SetTokenInstall, TypeOK
    <2>3. handler' \in HandlerPCs /\ handlerCopy' \in Entries
      BY <1>10 DEF SetTokenInstall
    <2>4. crashed' \in BOOLEAN
      BY <1>10 DEF SetTokenInstall, RaceOutcomes
    <2> QED BY <1>10, <2>2, <2>3, <2>4 DEF SetTokenInstall
  <1>11. CASE SetTokenDone
    BY <1>11 DEF SetTokenDone
  <1>12. CASE RefreshTimerFires
    BY <1>12 DEF RefreshTimerFires
  <1>13. ASSUME NEW f \in Files, RefreshSpawn(f) PROVE TypeOK'
    <2>1. pc' \in [Workers -> WorkerPCs] /\ job' \in [Workers -> Jobs]
          /\ UNCHANGED <<seen, copy>>
      <3>1. CASE f \in cached
        <4>1. PICK w \in Workers : Go(w, "start", f, entry[f].doc.version)
          BY <1>13, <3>1 DEF RefreshSpawn
        <4>2. [file |-> f, version |-> entry[f].doc.version] \in Jobs
          BY DEF TypeOK, Entries, Docs, Jobs
        <4> QED BY <4>1, <4>2 DEF Go, TypeOK, WorkerPCs
      <3>2. CASE f \notin cached
        BY <1>13, <3>2 DEF RefreshSpawn, workerVars, TypeOK
      <3> QED BY <3>1, <3>2
    <2> QED BY <1>13, <2>1 DEF RefreshSpawn, editorVars, cacheVars, handlerVars,
              historyVars, TypeOK
  <1>14. ASSUME NEW w \in Workers, ChangeTimerFires(w) PROVE TypeOK'
    BY <1>14 DEF ChangeTimerFires, Go
  <1>15. ASSUME NEW w \in Workers, DebouncedParse(w) PROVE TypeOK'
    BY <1>15 DEF DebouncedParse, ParseRemoteOrbs
  <1>16. ASSUME NEW w \in Workers, Start(w) PROVE TypeOK'
    BY <1>16 DEF Start, WorkerStep
  <1>17. ASSUME NEW w \in Workers, EnvGetFile(w) PROVE TypeOK'
    BY <1>17 DEF EnvGetFile, WorkerStep
  <1>18. ASSUME NEW w \in Workers, ProjectUnknown(w) PROVE TypeOK'
    BY <1>18 DEF ProjectUnknown, WorkerStep
  <1>19. ASSUME NEW w \in Workers, ProjectFound(w) PROVE TypeOK'
    <2>1. entry' \in [Files -> Entries]
      <3>1. job[w].file \in Files /\ entry[job[w].file] \in Entries
        BY DEF TypeOK, Jobs
      <3>2. entry' = [entry EXCEPT ![job[w].file].slug =
                        IF job[w].file \in cached THEN TRUE ELSE @]
        BY <1>19 DEF ProjectFound
      <3> QED BY <3>1, <3>2 DEF TypeOK, Entries
    <2>2. pc' \in [Workers -> WorkerPCs]
      BY <1>19 DEF ProjectFound, WorkerStep
    <2>3. crashed' \in BOOLEAN
      BY <1>19 DEF ProjectFound, RaceOutcomes
    <2> QED BY <1>19, <2>1, <2>2, <2>3 DEF ProjectFound
  <1>20. ASSUME NEW w \in Workers, CopyEntry(w) PROVE TypeOK'
    BY <1>20 DEF CopyEntry, WorkerStep
  <1>21. ASSUME NEW w \in Workers, InstallEntry(w) PROVE TypeOK'
    <2>1. job[w].file \in Files /\ copy[w] \in Entries
      BY DEF TypeOK, Jobs
    <2>2. cached' \subseteq Files /\ entry' \in [Files -> Entries]
          /\ lost' \subseteq Files /\ regressed' \subseteq Files
      BY <1>21, <2>1, SetFileType DEF InstallEntry, TypeOK
    <2>3. pc' \in [Workers -> WorkerPCs]
      BY <1>21 DEF InstallEntry, WorkerStep
    <2>4. copy' \in [Workers -> Entries]
      BY <1>21 DEF InstallEntry
    <2>5. crashed' \in BOOLEAN
      BY <1>21 DEF InstallEntry, RaceOutcomes
    <2> QED BY <1>21, <2>2, <2>3, <2>4, <2>5 DEF InstallEntry
  <1>22. ASSUME NEW w \in Workers, ReceiveVariables(w) PROVE TypeOK'
    <2>1. pc' \in [Workers -> WorkerPCs]
      BY <1>22 DEF ReceiveVariables, WorkerStep
    <2>2. crashed' \in BOOLEAN
      BY <1>22 DEF ReceiveVariables, RaceOutcomes
    <2> QED BY <1>22, <2>1, <2>2 DEF ReceiveVariables
  <1>23. ASSUME NEW w \in Workers, Parse(w) PROVE TypeOK'
    BY <1>23 DEF Parse, WorkerStep
  <1>24. ASSUME NEW w \in Workers, Check(w) PROVE TypeOK'
    BY <1>24 DEF Check, Current, WorkerStep
  <1>25. ASSUME NEW w \in Workers, Notify(w) PROVE TypeOK'
    BY <1>25 DEF Notify, WorkerStep
  <1>26. CASE UNCHANGED vars
    BY <1>26 DEF vars
  <1> QED BY <1>1, <1>2, <1>3, <1>4, <1>5, <1>6, <1>7, <1>8, <1>9, <1>10, <1>11,
       <1>12, <1>13, <1>14, <1>15, <1>16, <1>17, <1>18, <1>19, <1>20, <1>21,
       <1>22, <1>23, <1>24, <1>25, <1>26 DEF Next, Editor, Handler, Timers,
       Worker

(* A file is removed only when the editor closes it, from an idle handler. *)
LEMMA OpenIsCachedStep == TypeOK /\ OpenIsCached /\ [Next]_vars => OpenIsCached'
PROOF
  <1> SUFFICES ASSUME TypeOK, OpenIsCached, [Next]_vars PROVE OpenIsCached'
    OBVIOUS
  <1> USE DEF OpenIsCached, TypeOK, editorVars, cacheVars, handlerVars,
       timerVars, workerVars, historyVars
  <1>1. ASSUME NEW f \in Files, DidOpen(f) PROVE OpenIsCached'
    BY <1>1 DEF DidOpen, SetChange, RaceOutcomes
  <1>2. ASSUME NEW f \in Files, DidChangeRead(f) PROVE OpenIsCached'
    BY <1>2 DEF DidChangeRead
  <1>3. ASSUME NEW f \in Files, DidClose(f) PROVE OpenIsCached'
    BY <1>3 DEF DidClose, RaceOutcomes
  <1>4. ASSUME NEW k \in Tokens, SetToken(k) PROVE OpenIsCached'
    BY <1>4 DEF SetToken
  <1>5. CASE DidOpenParse
    BY <1>5 DEF DidOpenParse, ParseRemoteOrbs, Go
  <1>6. CASE DidChangeWrite
    BY <1>6 DEF DidChangeWrite, SetChange, RaceOutcomes
  <1>7. ASSUME NEW f \in Files, SetTokenSpawn(f) PROVE OpenIsCached'
    BY <1>7 DEF SetTokenSpawn, Go
  <1>8. ASSUME NEW f \in Files, SetTokenCopy(f) PROVE OpenIsCached'
    BY <1>8 DEF SetTokenCopy
  <1>9. CASE SetTokenSpawned
    BY <1>9 DEF SetTokenSpawned
  <1>10. CASE SetTokenInstall
    BY <1>10 DEF SetTokenInstall, SetFile, RaceOutcomes
  <1>11. CASE SetTokenDone
    BY <1>11 DEF SetTokenDone
  <1>12. CASE RefreshTimerFires
    BY <1>12 DEF RefreshTimerFires
  <1>13. ASSUME NEW f \in Files, RefreshSpawn(f) PROVE OpenIsCached'
    BY <1>13 DEF RefreshSpawn, Go
  <1>14. ASSUME NEW w \in Workers, ChangeTimerFires(w) PROVE OpenIsCached'
    BY <1>14 DEF ChangeTimerFires, Go
  <1>15. ASSUME NEW w \in Workers, DebouncedParse(w) PROVE OpenIsCached'
    BY <1>15 DEF DebouncedParse, ParseRemoteOrbs
  <1>16. ASSUME NEW w \in Workers, Start(w) PROVE OpenIsCached'
    BY <1>16 DEF Start, WorkerStep
  <1>17. ASSUME NEW w \in Workers, EnvGetFile(w) PROVE OpenIsCached'
    BY <1>17 DEF EnvGetFile, WorkerStep
  <1>18. ASSUME NEW w \in Workers, ProjectUnknown(w) PROVE OpenIsCached'
    BY <1>18 DEF ProjectUnknown, WorkerStep
  <1>19. ASSUME NEW w \in Workers, ProjectFound(w) PROVE OpenIsCached'
    BY <1>19 DEF ProjectFound, RaceOutcomes, WorkerStep
  <1>20. ASSUME NEW w \in Workers, CopyEntry(w) PROVE OpenIsCached'
    BY <1>20 DEF CopyEntry, WorkerStep
  <1>21. ASSUME NEW w \in Workers, InstallEntry(w) PROVE OpenIsCached'
    BY <1>21 DEF InstallEntry, SetFile, RaceOutcomes, WorkerStep
  <1>22. ASSUME NEW w \in Workers, ReceiveVariables(w) PROVE OpenIsCached'
    BY <1>22 DEF ReceiveVariables, RaceOutcomes, WorkerStep
  <1>23. ASSUME NEW w \in Workers, Parse(w) PROVE OpenIsCached'
    BY <1>23 DEF Parse, WorkerStep
  <1>24. ASSUME NEW w \in Workers, Check(w) PROVE OpenIsCached'
    BY <1>24 DEF Check, Current, WorkerStep
  <1>25. ASSUME NEW w \in Workers, Notify(w) PROVE OpenIsCached'
    BY <1>25 DEF Notify, WorkerStep
  <1>26. CASE UNCHANGED vars
    BY <1>26 DEF vars
  <1> QED BY <1>1, <1>2, <1>3, <1>4, <1>5, <1>6, <1>7, <1>8, <1>9, <1>10, <1>11,
       <1>12, <1>13, <1>14, <1>15, <1>16, <1>17, <1>18, <1>19, <1>20, <1>21,
       <1>22, <1>23, <1>24, <1>25, <1>26 DEF Next, Editor, Handler, Timers,
       Worker

(* The cache follows the editor's documents, and so does the text DidChange holds. *)
LEMMA InSyncStep == TypeOK /\ OpenIsCached /\ BaseInSync /\ InSync /\ [Next]_vars => (BaseInSync /\ InSync)'
PROOF
  <1> SUFFICES ASSUME TypeOK, OpenIsCached, BaseInSync, InSync, [Next]_vars PROVE (BaseInSync /\ InSync)'
    OBVIOUS
  <1> USE DEF OpenIsCached, BaseInSync, InSync, TypeOK, Docs, Entries,
       editorVars, cacheVars, handlerVars, timerVars, workerVars, historyVars
  <1>1. ASSUME NEW f \in Files, DidOpen(f) PROVE (BaseInSync /\ InSync)'
    BY <1>1 DEF DidOpen, SetChange, RaceOutcomes
  <1>2. ASSUME NEW f \in Files, DidChangeRead(f) PROVE (BaseInSync /\ InSync)'
    BY <1>2 DEF DidChangeRead
  <1>3. ASSUME NEW f \in Files, DidClose(f) PROVE (BaseInSync /\ InSync)'
    BY <1>3 DEF DidClose, RaceOutcomes
  <1>4. ASSUME NEW k \in Tokens, SetToken(k) PROVE (BaseInSync /\ InSync)'
    BY <1>4 DEF SetToken
  <1>5. CASE DidOpenParse
    BY <1>5 DEF DidOpenParse, ParseRemoteOrbs, Go
  <1>6. CASE DidChangeWrite
    BY <1>6 DEF DidChangeWrite, SetChange, RaceOutcomes
  <1>7. ASSUME NEW f \in Files, SetTokenSpawn(f) PROVE (BaseInSync /\ InSync)'
    BY <1>7 DEF SetTokenSpawn, Go
  <1>8. ASSUME NEW f \in Files, SetTokenCopy(f) PROVE (BaseInSync /\ InSync)'
    BY <1>8 DEF SetTokenCopy
  <1>9. CASE SetTokenSpawned
    BY <1>9 DEF SetTokenSpawned
  <1>10. CASE SetTokenInstall
    BY <1>10 DEF SetTokenInstall, SetFile, RaceOutcomes
  <1>11. CASE SetTokenDone
    BY <1>11 DEF SetTokenDone
  <1>12. CASE RefreshTimerFires
    BY <1>12 DEF RefreshTimerFires
  <1>13. ASSUME NEW f \in Files, RefreshSpawn(f) PROVE (BaseInSync /\ InSync)'
    BY <1>13 DEF RefreshSpawn, Go
  <1>14. ASSUME NEW w \in Workers, ChangeTimerFires(w) PROVE (BaseInSync /\ InSync)'
    BY <1>14 DEF ChangeTimerFires, Go
  <1>15. ASSUME NEW w \in Workers, DebouncedParse(w) PROVE (BaseInSync /\ InSync)'
    BY <1>15 DEF DebouncedParse, ParseRemoteOrbs
  <1>16. ASSUME NEW w \in Workers, Start(w) PROVE (BaseInSync /\ InSync)'
    BY <1>16 DEF Start, WorkerStep
  <1>17. ASSUME NEW w \in Workers, EnvGetFile(w) PROVE (BaseInSync /\ InSync)'
    BY <1>17 DEF EnvGetFile, WorkerStep
  <1>18. ASSUME NEW w \in Workers, ProjectUnknown(w) PROVE (BaseInSync /\ InSync)'
    BY <1>18 DEF ProjectUnknown, WorkerStep
  <1>19. ASSUME NEW w \in Workers, ProjectFound(w) PROVE (BaseInSync /\ InSync)'
    BY <1>19 DEF ProjectFound, RaceOutcomes, WorkerStep
  <1>20. ASSUME NEW w \in Workers, CopyEntry(w) PROVE (BaseInSync /\ InSync)'
    BY <1>20 DEF CopyEntry, WorkerStep
  <1>21. ASSUME NEW w \in Workers, InstallEntry(w) PROVE (BaseInSync /\ InSync)'
    BY <1>21 DEF InstallEntry, SetFile, RaceOutcomes, WorkerStep
  <1>22. ASSUME NEW w \in Workers, ReceiveVariables(w) PROVE (BaseInSync /\ InSync)'
    BY <1>22 DEF ReceiveVariables, RaceOutcomes, WorkerStep
  <1>23. ASSUME NEW w \in Workers, Parse(w) PROVE (BaseInSync /\ InSync)'
    BY <1>23 DEF Parse, WorkerStep
  <1>24. ASSUME NEW w \in Workers, Check(w) PROVE (BaseInSync /\ InSync)'
    BY <1>24 DEF Check, Current, WorkerStep
  <1>25. ASSUME NEW w \in Workers, Notify(w) PROVE (BaseInSync /\ InSync)'
    BY <1>25 DEF Notify, WorkerStep
  <1>26. CASE UNCHANGED vars
    BY <1>26 DEF vars
  <1> QED BY <1>1, <1>2, <1>3, <1>4, <1>5, <1>6, <1>7, <1>8, <1>9, <1>10, <1>11,
       <1>12, <1>13, <1>14, <1>15, <1>16, <1>17, <1>18, <1>19, <1>20, <1>21,
       <1>22, <1>23, <1>24, <1>25, <1>26 DEF Next, Editor, Handler, Timers,
       Worker

(* Versions remembered by the handler and the timer are never ahead of the cache. *)
LEMMA VersionsStep == TypeOK /\ OpenIsCached /\ VersionsBounded /\ WorkersBounded /\ [Next]_vars => VersionsBounded'
PROOF
  <1> SUFFICES ASSUME TypeOK, OpenIsCached, VersionsBounded, WorkersBounded, [Next]_vars PROVE VersionsBounded'
    OBVIOUS
  <1> USE DEF OpenIsCached, VersionsBounded, WorkersBounded, WorkerBounded, Ver,
       TypeOK, Docs, Entries, Jobs, editorVars, cacheVars, handlerVars,
       timerVars, workerVars, historyVars
  <1>1. ASSUME NEW f \in Files, DidOpen(f) PROVE VersionsBounded'
    BY <1>1 DEF DidOpen, SetChange, RaceOutcomes
  <1>2. ASSUME NEW f \in Files, DidChangeRead(f) PROVE VersionsBounded'
    BY <1>2 DEF DidChangeRead
  <1>3. ASSUME NEW f \in Files, DidClose(f) PROVE VersionsBounded'
    BY <1>3 DEF DidClose, RaceOutcomes
  <1>4. ASSUME NEW k \in Tokens, SetToken(k) PROVE VersionsBounded'
    BY <1>4 DEF SetToken
  <1>5. CASE DidOpenParse
    BY <1>5 DEF DidOpenParse, ParseRemoteOrbs, Go
  <1>6. CASE DidChangeWrite
    BY <1>6 DEF DidChangeWrite, SetChange, RaceOutcomes
  <1>7. ASSUME NEW f \in Files, SetTokenSpawn(f) PROVE VersionsBounded'
    BY <1>7 DEF SetTokenSpawn, Go
  <1>8. ASSUME NEW f \in Files, SetTokenCopy(f) PROVE VersionsBounded'
    BY <1>8 DEF SetTokenCopy
  <1>9. CASE SetTokenSpawned
    BY <1>9 DEF SetTokenSpawned
  <1>10. CASE SetTokenInstall
    BY <1>10 DEF SetTokenInstall, SetFile, RaceOutcomes
  <1>11. CASE SetTokenDone
    BY <1>11 DEF SetTokenDone
  <1>12. CASE RefreshTimerFires
    BY <1>12 DEF RefreshTimerFires
  <1>13. ASSUME NEW f \in Files, RefreshSpawn(f) PROVE VersionsBounded'
    BY <1>13 DEF RefreshSpawn, Go
  <1>14. ASSUME NEW w \in Workers, ChangeTimerFires(w) PROVE VersionsBounded'
    BY <1>14 DEF ChangeTimerFires, Go
  <1>15. ASSUME NEW w \in Workers, DebouncedParse(w) PROVE VersionsBounded'
    BY <1>15 DEF DebouncedParse, ParseRemoteOrbs
  <1>16. ASSUME NEW w \in Workers, Start(w) PROVE VersionsBounded'
    BY <1>16 DEF Start, WorkerStep
  <1>17. ASSUME NEW w \in Workers, EnvGetFile(w) PROVE VersionsBounded'
    BY <1>17 DEF EnvGetFile, WorkerStep
  <1>18. ASSUME NEW w \in Workers, ProjectUnknown(w) PROVE VersionsBounded'
    BY <1>18 DEF ProjectUnknown, WorkerStep
  <1>19. ASSUME NEW w \in Workers, ProjectFound(w) PROVE VersionsBounded'
    BY <1>19 DEF ProjectFound, RaceOutcomes, WorkerStep
  <1>20. ASSUME NEW w \in Workers, CopyEntry(w) PROVE VersionsBounded'
    BY <1>20 DEF CopyEntry, WorkerStep
  <1>21. ASSUME NEW w \in Workers, InstallEntry(w) PROVE VersionsBounded'
    BY <1>21 DEF InstallEntry, SetFile, RaceOutcomes, WorkerStep
  <1>22. ASSUME NEW w \in Workers, ReceiveVariables(w) PROVE VersionsBounded'
    BY <1>22 DEF ReceiveVariables, RaceOutcomes, WorkerStep
  <1>23. ASSUME NEW w \in Workers, Parse(w) PROVE VersionsBounded'
    BY <1>23 DEF Parse, WorkerStep
  <1>24. ASSUME NEW w \in Workers, Check(w) PROVE VersionsBounded'
    BY <1>24 DEF Check, Current, WorkerStep
  <1>25. ASSUME NEW w \in Workers, Notify(w) PROVE VersionsBounded'
    BY <1>25 DEF Notify, WorkerStep
  <1>26. CASE UNCHANGED vars
    BY <1>26 DEF vars
  <1> QED BY <1>1, <1>2, <1>3, <1>4, <1>5, <1>6, <1>7, <1>8, <1>9, <1>10, <1>11,
       <1>12, <1>13, <1>14, <1>15, <1>16, <1>17, <1>18, <1>19, <1>20, <1>21,
       <1>22, <1>23, <1>24, <1>25, <1>26 DEF Next, Editor, Handler, Timers,
       Worker
(* What workers remember stays behind a cache whose versions only grow. *)
LEMMA NewerCacheStep ==
  ASSUME TypeOK, WorkersBounded, UNCHANGED <<pc, job, seen, copy, regressed>>,
         cached \subseteq cached',
         \A g \in Files \ regressed : Ver(g)' \in Nat /\ Ver(g) <= Ver(g)'
  PROVE  WorkersBounded'
PROOF
  <1> SUFFICES ASSUME NEW w \in Workers PROVE WorkerBounded(w)'
    BY DEF WorkersBounded
  <1>1. /\ job[w].file \in Files /\ job[w].version \in Nat /\ seen[w].version \in Nat
        /\ copy[w].doc.version \in Nat /\ Ver(job[w].file) \in Nat
    BY DEF TypeOK, Jobs, Docs, Entries, Ver
  <1>2. WorkerBounded(w)
    BY DEF WorkersBounded
  <1> QED BY <1>1, <1>2 DEF WorkerBounded


(* Versions remembered by a worker are never ahead of the cache. *)
LEMMA WorkersStep == TypeOK /\ OpenIsCached /\ VersionsBounded /\ WorkersBounded /\ [Next]_vars => WorkersBounded'
PROOF
  <1> SUFFICES ASSUME TypeOK, OpenIsCached, VersionsBounded, WorkersBounded, [Next]_vars PROVE WorkersBounded'
    OBVIOUS
  <1> USE DEF OpenIsCached, VersionsBounded, WorkersBounded, WorkerBounded, Ver,
       TypeOK, Docs, Entries, Jobs, editorVars, cacheVars, handlerVars,
       timerVars, workerVars, historyVars
  <1>1. ASSUME NEW f \in Files, DidOpen(f) PROVE WorkersBounded'
    BY <1>1 DEF DidOpen, SetChange, RaceOutcomes
  <1>2. ASSUME NEW f \in Files, DidChangeRead(f) PROVE WorkersBounded'
    BY <1>2 DEF DidChangeRead
  <1>3. ASSUME NEW f \in Files, DidClose(f) PROVE WorkersBounded'
    BY <1>3 DEF DidClose, RaceOutcomes
  <1>4. ASSUME NEW k \in Tokens, SetToken(k) PROVE WorkersBounded'
    BY <1>4 DEF SetToken
  <1>5. CASE DidOpenParse
    BY <1>5 DEF DidOpenParse, ParseRemoteOrbs, Go
  <1>6. CASE DidChangeWrite
    <2>1. current \in Files /\ sent[current].version \in Nat
          /\ \A g \in Files : Ver(g) \in Nat
      BY DEF Ver
    <2>2. entry'[current].doc.version = sent[current].version + 1
      BY <1>6, <2>1 DEF DidChangeWrite, SetChange
    <2>3. \A g \in Files \ {current} : Ver(g)' = Ver(g)
      BY <1>6 DEF DidChangeWrite, SetChange
    <2>4. ASSUME NEW g \in Files \ regressed
          PROVE  Ver(g)' \in Nat /\ Ver(g) <= Ver(g)'
      <3>1. Ver(g) \in Nat /\ sent[g].version \in Nat /\ Ver(g) <= sent[g].version
        OBVIOUS
      <3>2. CASE g = current
        BY <2>2, <3>1, <3>2
      <3>3. CASE g # current
        BY <2>3, <3>1, <3>3
      <3> QED BY <3>2, <3>3
    <2>5. cached \subseteq cached' /\ UNCHANGED <<pc, job, seen, copy, regressed>>
      BY <1>6 DEF DidChangeWrite, SetChange
    <2> QED BY <2>4, <2>5, NewerCacheStep
  <1>7. ASSUME NEW f \in Files, SetTokenSpawn(f) PROVE WorkersBounded'
    BY <1>7 DEF SetTokenSpawn, Go
  <1>8. ASSUME NEW f \in Files, SetTokenCopy(f) PROVE WorkersBounded'
    BY <1>8 DEF SetTokenCopy
  <1>9. CASE SetTokenSpawned
    BY <1>9 DEF SetTokenSpawned
  <1>10. CASE SetTokenInstall
    BY <1>10 DEF SetTokenInstall, SetFile, RaceOutcomes
  <1>11. CASE SetTokenDone
    BY <1>11 DEF SetTokenDone
  <1>12. CASE RefreshTimerFires
    BY <1>12 DEF RefreshTimerFires
  <1>13. ASSUME NEW f \in Files, RefreshSpawn(f) PROVE WorkersBounded'
    <2> SUFFICES ASSUME NEW u \in Workers PROVE WorkerBounded(u)'
      BY DEF WorkersBounded
    <2>1. UNCHANGED <<cacheVars, regressed>> /\ WorkerBounded(u)
      BY <1>13 DEF RefreshSpawn, historyVars, WorkersBounded
    <2>2. CASE f \notin cached
      BY <1>13, <2>1, <2>2 DEF RefreshSpawn, workerVars, cacheVars, WorkerBounded, Ver
    <2>3. CASE f \in cached
      <3>1. PICK w \in Workers : Go(w, "start", f, Ver(f))
        BY <1>13, <2>3 DEF RefreshSpawn, Ver
      <3>2. Ver(f) \in Nat
        BY DEF Ver, TypeOK, Entries, Docs
      <3> QED BY <2>1, <2>3, <3>1, <3>2 DEF Go, cacheVars, WorkerBounded, Ver, TypeOK
    <2> QED BY <2>2, <2>3
  <1>14. ASSUME NEW w \in Workers, ChangeTimerFires(w) PROVE WorkersBounded'
    BY <1>14 DEF ChangeTimerFires, Go
  <1>15. ASSUME NEW w \in Workers, DebouncedParse(w) PROVE WorkersBounded'
    BY <1>15 DEF DebouncedParse, ParseRemoteOrbs
  <1>16. ASSUME NEW w \in Workers, Start(w) PROVE WorkersBounded'
    BY <1>16 DEF Start, WorkerStep
  <1>17. ASSUME NEW w \in Workers, EnvGetFile(w) PROVE WorkersBounded'
    BY <1>17 DEF EnvGetFile, WorkerStep
  <1>18. ASSUME NEW w \in Workers, ProjectUnknown(w) PROVE WorkersBounded'
    BY <1>18 DEF ProjectUnknown, WorkerStep
  <1>19. ASSUME NEW w \in Workers, ProjectFound(w) PROVE WorkersBounded'
    BY <1>19 DEF ProjectFound, RaceOutcomes, WorkerStep
  <1>20. ASSUME NEW w \in Workers, CopyEntry(w) PROVE WorkersBounded'
    BY <1>20 DEF CopyEntry, WorkerStep
  <1>21. ASSUME NEW w \in Workers, InstallEntry(w) PROVE WorkersBounded'
    <2> SUFFICES ASSUME NEW u \in Workers PROVE WorkerBounded(u)'
      BY DEF WorkersBounded
    <2> DEFINE f == job[w].file
    <2>1. f \in Files /\ WorkerBounded(u) /\ WorkerBounded(w)
      BY DEF TypeOK, Jobs, WorkersBounded
    <2>2. cached' = cached \union {f} /\ entry' = [entry EXCEPT ![f] = copy[w]]
          /\ regressed \subseteq regressed' /\ UNCHANGED <<job, seen>>
          /\ pc' = [pc EXCEPT ![w] = IF token # NoToken THEN "vars" ELSE "parse"]
          /\ pc[w] = "install" /\ copy' = [copy EXCEPT ![w] = NoEntry]
      BY <1>21 DEF InstallEntry, SetFile, WorkerStep, workerVars
    <2>3. f \notin regressed' => copy[w].doc.version = Ver(f)
      <3>1. copy[w].doc.version \in Nat /\ Ver(f) \in Nat
        BY <2>1 DEF Ver, TypeOK, Entries, Docs
      <3>2. f \notin regressed' => ~(copy[w].doc.version < Ver(f))
        BY <1>21 DEF InstallEntry, SetFile, Ver
      <3>3. f \notin regressed => copy[w].doc.version <= Ver(f)
        BY <2>1, <2>2 DEF WorkerBounded
      <3>4. f \notin regressed' => f \notin regressed
        BY <2>2
      <3> HIDE DEF f, Ver, TypeOK, OpenIsCached, VersionsBounded, WorkersBounded
      <3> QED BY <3>1, <3>2, <3>3, <3>4
    <2>4. \A g \in Files \ regressed' : Ver(g)' = Ver(g)
      BY <2>1, <2>2, <2>3 DEF Ver, TypeOK
    <2>5. job[u].file \in Files
      BY DEF TypeOK, Jobs
    <2>6. CASE u = w
      BY <2>1, <2>2, <2>4, <2>5, <2>6 DEF WorkerBounded, TypeOK
    <2>7. CASE u # w
      <3>1. pc'[u] = pc[u] /\ copy'[u] = copy[u]
        BY <2>2, <2>7 DEF TypeOK
      <3> QED BY <2>1, <2>2, <2>4, <2>5, <3>1 DEF WorkerBounded
    <2> QED BY <2>6, <2>7
  <1>22. ASSUME NEW w \in Workers, ReceiveVariables(w) PROVE WorkersBounded'
    BY <1>22 DEF ReceiveVariables, RaceOutcomes, WorkerStep
  <1>23. ASSUME NEW w \in Workers, Parse(w) PROVE WorkersBounded'
    BY <1>23 DEF Parse, WorkerStep
  <1>24. ASSUME NEW w \in Workers, Check(w) PROVE WorkersBounded'
    <2> SUFFICES ASSUME NEW u \in Workers PROVE WorkerBounded(u)'
      BY DEF WorkersBounded
    <2>1. WorkerBounded(u) /\ UNCHANGED <<cached, entry, copy, regressed>>
      BY <1>24 DEF Check, WorkersBounded, cacheVars, historyVars
    <2>2. CASE u # w
      <3>1. pc'[u] = pc[u] /\ job'[u] = job[u] /\ seen'[u] = seen[u]
        BY <1>24, <2>2 DEF Check, WorkerStep, TypeOK
      <3> QED BY <2>1, <3>1 DEF WorkerBounded, Ver
    <2>3. CASE u = w /\ Current(w)
      <3>1. pc'[u] = "notify" /\ pc[u] = "check"
            /\ job'[u] = job[u] /\ seen'[u] = seen[u]
        BY <1>24, <2>3 DEF Check, WorkerStep, TypeOK
      <3>2. Ver(job[u].file) = job[u].version /\ job[u].version \in Nat
            /\ seen[u].version \in Nat
        BY <2>3 DEF Current, Ver, TypeOK, Jobs, Docs
      <3>3. job[u].file \notin regressed => seen[u].version = job[u].version
        <4>1. job[u].file \notin regressed =>
                job[u].version <= seen[u].version /\ seen[u].version <= Ver(job[u].file)
          BY <2>1, <3>1 DEF WorkerBounded
        <4> HIDE DEF Ver, TypeOK, OpenIsCached, VersionsBounded, WorkersBounded, WorkerBounded
        <4> QED BY <3>2, <4>1
      <3> QED BY <2>1, <3>1, <3>2, <3>3 DEF WorkerBounded, Ver
    <2>4. CASE u = w /\ ~Current(w)
      <3>1. pc'[u] = "free"
        BY <1>24, <2>4 DEF Check, WorkerStep, TypeOK
      <3> QED BY <3>1 DEF WorkerBounded
    <2> QED BY <2>2, <2>3, <2>4
  <1>25. ASSUME NEW w \in Workers, Notify(w) PROVE WorkersBounded'
    BY <1>25 DEF Notify, WorkerStep
  <1>26. CASE UNCHANGED vars
    BY <1>26 DEF vars
  <1> QED BY <1>1, <1>2, <1>3, <1>4, <1>5, <1>6, <1>7, <1>8, <1>9, <1>10, <1>11,
       <1>12, <1>13, <1>14, <1>15, <1>16, <1>17, <1>18, <1>19, <1>20, <1>21,
       <1>22, <1>23, <1>24, <1>25, <1>26 DEF Next, Editor, Handler, Timers,
       Worker

(* What is published was seen at the version that is published. *)
LEMMA PublishedStep == TypeOK /\ WorkersBounded /\ PublishedForItsVersion /\ [Next]_vars => PublishedForItsVersion'
PROOF
  <1> SUFFICES ASSUME TypeOK, WorkersBounded, PublishedForItsVersion, [Next]_vars PROVE PublishedForItsVersion'
    OBVIOUS
  <1> USE DEF WorkersBounded, WorkerBounded, PublishedForItsVersion, TypeOK,
       Publications, editorVars, cacheVars, handlerVars, timerVars, workerVars,
       historyVars
  <1>1. ASSUME NEW f \in Files, DidOpen(f) PROVE PublishedForItsVersion'
    BY <1>1 DEF DidOpen, SetChange, RaceOutcomes
  <1>2. ASSUME NEW f \in Files, DidChangeRead(f) PROVE PublishedForItsVersion'
    BY <1>2 DEF DidChangeRead
  <1>3. ASSUME NEW f \in Files, DidClose(f) PROVE PublishedForItsVersion'
    BY <1>3 DEF DidClose, RaceOutcomes
  <1>4. ASSUME NEW k \in Tokens, SetToken(k) PROVE PublishedForItsVersion'
    BY <1>4 DEF SetToken
  <1>5. CASE DidOpenParse
    BY <1>5 DEF DidOpenParse, ParseRemoteOrbs, Go
  <1>6. CASE DidChangeWrite
    BY <1>6 DEF DidChangeWrite, SetChange, RaceOutcomes
  <1>7. ASSUME NEW f \in Files, SetTokenSpawn(f) PROVE PublishedForItsVersion'
    BY <1>7 DEF SetTokenSpawn, Go
  <1>8. ASSUME NEW f \in Files, SetTokenCopy(f) PROVE PublishedForItsVersion'
    BY <1>8 DEF SetTokenCopy
  <1>9. CASE SetTokenSpawned
    BY <1>9 DEF SetTokenSpawned
  <1>10. CASE SetTokenInstall
    BY <1>10 DEF SetTokenInstall, SetFile, RaceOutcomes
  <1>11. CASE SetTokenDone
    BY <1>11 DEF SetTokenDone
  <1>12. CASE RefreshTimerFires
    BY <1>12 DEF RefreshTimerFires
  <1>13. ASSUME NEW f \in Files, RefreshSpawn(f) PROVE PublishedForItsVersion'
    BY <1>13 DEF RefreshSpawn, Go
  <1>14. ASSUME NEW w \in Workers, ChangeTimerFires(w) PROVE PublishedForItsVersion'
    BY <1>14 DEF ChangeTimerFires, Go
  <1>15. ASSUME NEW w \in Workers, DebouncedParse(w) PROVE PublishedForItsVersion'
    BY <1>15 DEF DebouncedParse, ParseRemoteOrbs
  <1>16. ASSUME NEW w \in Workers, Start(w) PROVE PublishedForItsVersion'
    BY <1>16 DEF Start, WorkerStep
  <1>17. ASSUME NEW w \in Workers, EnvGetFile(w) PROVE PublishedForItsVersion'
    BY <1>17 DEF EnvGetFile, WorkerStep
  <1>18. ASSUME NEW w \in Workers, ProjectUnknown(w) PROVE PublishedForItsVersion'
    BY <1>18 DEF ProjectUnknown, WorkerStep
  <1>19. ASSUME NEW w \in Workers, ProjectFound(w) PROVE PublishedForItsVersion'
    BY <1>19 DEF ProjectFound, RaceOutcomes, WorkerStep
  <1>20. ASSUME NEW w \in Workers, CopyEntry(w) PROVE PublishedForItsVersion'
    BY <1>20 DEF CopyEntry, WorkerStep
  <1>21. ASSUME NEW w \in Workers, InstallEntry(w) PROVE PublishedForItsVersion'
    BY <1>21 DEF InstallEntry, SetFile, RaceOutcomes, WorkerStep
  <1>22. ASSUME NEW w \in Workers, ReceiveVariables(w) PROVE PublishedForItsVersion'
    BY <1>22 DEF ReceiveVariables, RaceOutcomes, WorkerStep
  <1>23. ASSUME NEW w \in Workers, Parse(w) PROVE PublishedForItsVersion'
    BY <1>23 DEF Parse, WorkerStep
  <1>24. ASSUME NEW w \in Workers, Check(w) PROVE PublishedForItsVersion'
    BY <1>24 DEF Check, Current, WorkerStep
  <1>25. ASSUME NEW w \in Workers, Notify(w) PROVE PublishedForItsVersion'
    BY <1>25 DEF Notify, WorkerStep
  <1>26. CASE UNCHANGED vars
    BY <1>26 DEF vars
  <1> QED BY <1>1, <1>2, <1>3, <1>4, <1>5, <1>6, <1>7, <1>8, <1>9, <1>10, <1>11,
       <1>12, <1>13, <1>14, <1>15, <1>16, <1>17, <1>18, <1>19, <1>20, <1>21,
       <1>22, <1>23, <1>24, <1>25, <1>26 DEF Next, Editor, Handler, Timers,
       Worker

(* Only Check lets a worker pass, and it compares with the synchronised entry. *)
LEMMA PassesLatestStep == TypeOK /\ InSync /\ [Next]_vars => PassesLatest
PROOF
  <1> SUFFICES ASSUME TypeOK, InSync, [Next]_vars PROVE PassesLatest
    OBVIOUS
  <1> USE DEF PassesLatest, InSync, TypeOK, editorVars, cacheVars, handlerVars,
       timerVars, workerVars, historyVars
  <1>1. ASSUME NEW f \in Files, DidOpen(f) PROVE PassesLatest
    BY <1>1 DEF DidOpen, SetChange, RaceOutcomes
  <1>2. ASSUME NEW f \in Files, DidChangeRead(f) PROVE PassesLatest
    BY <1>2 DEF DidChangeRead
  <1>3. ASSUME NEW f \in Files, DidClose(f) PROVE PassesLatest
    BY <1>3 DEF DidClose, RaceOutcomes
  <1>4. ASSUME NEW k \in Tokens, SetToken(k) PROVE PassesLatest
    BY <1>4 DEF SetToken
  <1>5. CASE DidOpenParse
    BY <1>5 DEF DidOpenParse, ParseRemoteOrbs, Go
  <1>6. CASE DidChangeWrite
    BY <1>6 DEF DidChangeWrite, SetChange, RaceOutcomes
  <1>7. ASSUME NEW f \in Files, SetTokenSpawn(f) PROVE PassesLatest
    BY <1>7 DEF SetTokenSpawn, Go
  <1>8. ASSUME NEW f \in Files, SetTokenCopy(f) PROVE PassesLatest
    BY <1>8 DEF SetTokenCopy
  <1>9. CASE SetTokenSpawned
    BY <1>9 DEF SetTokenSpawned
  <1>10. CASE SetTokenInstall
    BY <1>10 DEF SetTokenInstall, SetFile, RaceOutcomes
  <1>11. CASE SetTokenDone
    BY <1>11 DEF SetTokenDone
  <1>12. CASE RefreshTimerFires
    BY <1>12 DEF RefreshTimerFires
  <1>13. ASSUME NEW f \in Files, RefreshSpawn(f) PROVE PassesLatest
    BY <1>13 DEF RefreshSpawn, Go
  <1>14. ASSUME NEW w \in Workers, ChangeTimerFires(w) PROVE PassesLatest
    BY <1>14 DEF ChangeTimerFires, Go
  <1>15. ASSUME NEW w \in Workers, DebouncedParse(w) PROVE PassesLatest
    BY <1>15 DEF DebouncedParse, ParseRemoteOrbs
  <1>16. ASSUME NEW w \in Workers, Start(w) PROVE PassesLatest
    BY <1>16 DEF Start, WorkerStep
  <1>17. ASSUME NEW w \in Workers, EnvGetFile(w) PROVE PassesLatest
    BY <1>17 DEF EnvGetFile, WorkerStep
  <1>18. ASSUME NEW w \in Workers, ProjectUnknown(w) PROVE PassesLatest
    BY <1>18 DEF ProjectUnknown, WorkerStep
  <1>19. ASSUME NEW w \in Workers, ProjectFound(w) PROVE PassesLatest
    BY <1>19 DEF ProjectFound, RaceOutcomes, WorkerStep
  <1>20. ASSUME NEW w \in Workers, CopyEntry(w) PROVE PassesLatest
    BY <1>20 DEF CopyEntry, WorkerStep
  <1>21. ASSUME NEW w \in Workers, InstallEntry(w) PROVE PassesLatest
    BY <1>21 DEF InstallEntry, SetFile, RaceOutcomes, WorkerStep
  <1>22. ASSUME NEW w \in Workers, ReceiveVariables(w) PROVE PassesLatest
    BY <1>22 DEF ReceiveVariables, RaceOutcomes, WorkerStep
  <1>23. ASSUME NEW w \in Workers, Parse(w) PROVE PassesLatest
    BY <1>23 DEF Parse, WorkerStep
  <1>24. ASSUME NEW w \in Workers, Check(w) PROVE PassesLatest
    BY <1>24 DEF Check, Current, WorkerStep
  <1>25. ASSUME NEW w \in Workers, Notify(w) PROVE PassesLatest
    BY <1>25 DEF Notify, WorkerStep
  <1>26. CASE UNCHANGED vars
    BY <1>26 DEF vars
  <1> QED BY <1>1, <1>2, <1>3, <1>4, <1>5, <1>6, <1>7, <1>8, <1>9, <1>10, <1>11,
       <1>12, <1>13, <1>14, <1>15, <1>16, <1>17, <1>18, <1>19, <1>20, <1>21,
       <1>22, <1>23, <1>24, <1>25, <1>26 DEF Next, Editor, Handler, Timers,
       Worker

(* A write to the map can end the process only while another goroutine ranges *)
(* over it.                                                                  *)
LEMMA RaceNeedsRanging ==
  ASSUME NEW ranged, NEW outcome, outcome \in RaceOutcomes(ranged)
  PROVE  outcome => ranged
PROOF
  <1>1. CASE ranged
    BY <1>1
  <1>2. CASE ~ranged
    BY <1>2, Zenon DEF RaceOutcomes
  <1> QED BY <1>1, <1>2

(* A crash needs a change of token or a closed orb file, and so does every   *)
(* state from which one could follow.                                        *)
LEMMA CrashStep == TypeOK /\ OpenIsCached /\ CrashInv /\ [Next]_vars => CrashInv'
PROOF
  <1> SUFFICES ASSUME TypeOK, OpenIsCached, CrashInv, [Next]_vars PROVE CrashInv'
    OBVIOUS
  <1>0. ~crashed \/ UNCHANGED vars
    BY DEF Next
  <1> USE DEF TypeOK, OpenIsCached, CrashInv, RangedAfterToken, HandlerRanges,
       OnlyOpenedFiles, MissingIsClosedOrb, CrashesExplained, Jobs, editorVars,
       cacheVars, handlerVars, timerVars, workerVars, historyVars
  <1>1. ASSUME NEW f \in Files, ~crashed, DidOpen(f) PROVE CrashInv'
    <2>0. crashed' => refreshing # {}
      BY <1>1, RaceNeedsRanging, Zenon DEF DidOpen
    <2>1. /\ crashed' => tokenChanges > 0
          /\ UNCHANGED <<tokenChanges, refreshing, pendingRefresh, pendingChange, pc, job>>
      BY <1>1, <2>0 DEF DidOpen
    <2>2. /\ open' = open \union {f} /\ cached' = cached \union {f} /\ handler' = "opening"
          /\ opens'[f] > 0 /\ \A g \in Files : opens[g] > 0 => opens'[g] > 0
      BY <1>1 DEF DidOpen, SetChange
    <2>3. \A g \in Files \ {f} : opens'[g] = opens[g]
      BY <1>1 DEF DidOpen
    <2> QED BY <1>1, <2>1, <2>2, <2>3
  <1>2. ASSUME NEW f \in Files, ~crashed, DidChangeRead(f) PROVE CrashInv'
    BY <1>2 DEF DidChangeRead
  <1>3. ASSUME NEW f \in Files, ~crashed, DidClose(f) PROVE CrashInv'
    BY <1>3 DEF DidClose, LeavesCache, IsOrb, RaceOutcomes
  <1>4. ASSUME NEW k \in Tokens, ~crashed, SetToken(k) PROVE CrashInv'
    BY <1>4 DEF SetToken
  <1>5. ASSUME ~crashed, DidOpenParse PROVE CrashInv'
    BY <1>5 DEF DidOpenParse, ParseRemoteOrbs, Go
  <1>6. ASSUME ~crashed, DidChangeWrite PROVE CrashInv'
    <2>0. crashed' => refreshing # {}
      BY <1>6, RaceNeedsRanging, Zenon DEF DidChangeWrite
    <2>1. /\ crashed' => tokenChanges > 0
          /\ UNCHANGED <<tokenChanges, refreshing, pendingRefresh, open, opens, pc, job>>
      BY <1>6, <2>0 DEF DidChangeWrite
    <2>2. current \in open /\ cached' = cached \union {current} /\ handler' = "idle"
          /\ \A p \in pendingChange' : p[1] = current
      BY <1>6 DEF DidChangeWrite, SetChange
    <2> QED BY <1>6, <2>1, <2>2
  <1>7. ASSUME NEW f \in Files, ~crashed, SetTokenSpawn(f) PROVE CrashInv'
    BY <1>7 DEF SetTokenSpawn, Go
  <1>8. ASSUME NEW f \in Files, ~crashed, SetTokenCopy(f) PROVE CrashInv'
    BY <1>8 DEF SetTokenCopy
  <1>9. ASSUME ~crashed, SetTokenSpawned PROVE CrashInv'
    BY <1>9 DEF SetTokenSpawned
  <1>10. ASSUME ~crashed, SetTokenInstall PROVE CrashInv'
    <2>1. tokenChanges > 0
      BY <1>10 DEF SetTokenInstall
    <2> QED BY <1>10, <2>1 DEF SetTokenInstall, SetFile
  <1>11. ASSUME ~crashed, SetTokenDone PROVE CrashInv'
    BY <1>11 DEF SetTokenDone
  <1>12. ASSUME ~crashed, RefreshTimerFires PROVE CrashInv'
    BY <1>12 DEF RefreshTimerFires
  <1>13. ASSUME NEW f \in Files, ~crashed, RefreshSpawn(f) PROVE CrashInv'
    BY <1>13 DEF RefreshSpawn, Go
  <1>14. ASSUME NEW w \in Workers, ~crashed, ChangeTimerFires(w) PROVE CrashInv'
    BY <1>14 DEF ChangeTimerFires, Go
  <1>15. ASSUME NEW w \in Workers, ~crashed, DebouncedParse(w) PROVE CrashInv'
    BY <1>15 DEF DebouncedParse, ParseRemoteOrbs
  <1>16. ASSUME NEW w \in Workers, ~crashed, Start(w) PROVE CrashInv'
    BY <1>16 DEF Start, WorkerStep
  <1>17. ASSUME NEW w \in Workers, ~crashed, EnvGetFile(w) PROVE CrashInv'
    BY <1>17 DEF EnvGetFile, WorkerStep
  <1>18. ASSUME NEW w \in Workers, ~crashed, ProjectUnknown(w) PROVE CrashInv'
    BY <1>18 DEF ProjectUnknown, WorkerStep
  <1>19. ASSUME NEW w \in Workers, ~crashed, ProjectFound(w) PROVE CrashInv'
    <2>1. job[w].file \in Files /\ opens[job[w].file] > 0
      BY <1>19 DEF ProjectFound, WorkerStep
    <2>2. /\ \A u \in Workers : pc'[u] # "free" => pc[u] # "free"
          /\ UNCHANGED <<tokenChanges, refreshing, pendingRefresh, pendingChange, open, opens,
                         handler, current, todo, job>>
      BY <1>19 DEF ProjectFound, WorkerStep
    <2>3. cached \subseteq cached' /\ cached' \subseteq cached \union {job[w].file}
      BY <1>19 DEF ProjectFound
    <2>4. crashed' => tokenChanges > 0 \/ job[w].file \notin cached'
      <3>1. crashed' /\ job[w].file \in cached => HandlerRanges \/ refreshing # {}
        BY <1>19, RaceNeedsRanging, Zenon DEF ProjectFound
      <3> QED BY <1>19, <2>3, <3>1 DEF ProjectFound
    <2> QED BY <1>19, <2>1, <2>2, <2>3, <2>4
  <1>20. ASSUME NEW w \in Workers, ~crashed, CopyEntry(w) PROVE CrashInv'
    BY <1>20 DEF CopyEntry, WorkerStep
  <1>21. ASSUME NEW w \in Workers, ~crashed, InstallEntry(w) PROVE CrashInv'
    <2>1. job[w].file \in Files /\ opens[job[w].file] > 0
      BY <1>21 DEF InstallEntry, WorkerStep
    <2>2. /\ \A u \in Workers : pc'[u] # "free" => pc[u] # "free"
          /\ UNCHANGED <<tokenChanges, refreshing, pendingRefresh, pendingChange, open, opens,
                         handler, current, todo, job>>
      BY <1>21 DEF InstallEntry, WorkerStep
    <2>3. cached \subseteq cached' /\ cached' \subseteq cached \union {job[w].file}
      BY <1>21 DEF InstallEntry, SetFile
    <2>4. crashed' => tokenChanges > 0 \/ job[w].file \notin cached'
      <3>1. crashed' => HandlerRanges \/ refreshing # {}
        BY <1>21, RaceNeedsRanging, Zenon DEF InstallEntry
      <3> QED BY <1>21, <2>3, <3>1 DEF InstallEntry
    <2> QED BY <1>21, <2>1, <2>2, <2>3, <2>4
  <1>22. ASSUME NEW w \in Workers, ~crashed, ReceiveVariables(w) PROVE CrashInv'
    <2>1. job[w].file \in Files /\ opens[job[w].file] > 0
      BY <1>22 DEF ReceiveVariables, WorkerStep
    <2>2. /\ \A u \in Workers : pc'[u] # "free" => pc[u] # "free"
          /\ UNCHANGED <<tokenChanges, refreshing, pendingRefresh, pendingChange, open, opens,
                         handler, current, todo, job>>
      BY <1>22 DEF ReceiveVariables, WorkerStep
    <2>3. cached \subseteq cached' /\ cached' \subseteq cached \union {job[w].file}
      BY <1>22 DEF ReceiveVariables
    <2>4. crashed' => tokenChanges > 0 \/ job[w].file \notin cached'
      <3>1. crashed' /\ job[w].file \in cached => HandlerRanges \/ refreshing # {}
        BY <1>22, RaceNeedsRanging, Zenon DEF ReceiveVariables
      <3> QED BY <1>22, <2>3, <3>1 DEF ReceiveVariables
    <2> QED BY <1>22, <2>1, <2>2, <2>3, <2>4
  <1>23. ASSUME NEW w \in Workers, ~crashed, Parse(w) PROVE CrashInv'
    BY <1>23 DEF Parse, WorkerStep
  <1>24. ASSUME NEW w \in Workers, ~crashed, Check(w) PROVE CrashInv'
    BY <1>24 DEF Check, Current, WorkerStep
  <1>25. ASSUME NEW w \in Workers, ~crashed, Notify(w) PROVE CrashInv'
    BY <1>25 DEF Notify, WorkerStep
  <1>26. CASE UNCHANGED vars
    BY <1>26 DEF vars
  <1> QED BY <1>0, <1>1, <1>2, <1>3, <1>4, <1>5, <1>6, <1>7, <1>8, <1>9, <1>10,
       <1>11, <1>12, <1>13, <1>14, <1>15, <1>16, <1>17, <1>18, <1>19, <1>20,
       <1>21, <1>22, <1>23, <1>24, <1>25, <1>26 DEF Next, Editor, Handler, Timers,
       Worker
-----------------------------------------------------------------------------
(* IInv holds in every reachable state. *)
LEMMA Invariance == Spec => []IInv
PROOF
  <1>1. IInv /\ [Next]_vars => IInv'
    BY TypeStep, OpenIsCachedStep, InSyncStep, VersionsStep, WorkersStep,
       PublishedStep, CrashStep DEF IInv
  <1> QED BY InitIInv, <1>1, PTL DEF Spec

(* Every variable keeps its type. *)
THEOREM TypeCorrect == Spec => []TypeOK
PROOF
  <1>1. IInv => TypeOK
    BY DEF IInv
  <1> QED BY Invariance, <1>1, PTL

(* Incremental changes are never applied to another text than the editor's,  *)
(* unless a goroutine put back an older copy of the entry since the file was *)
(* opened: updateProjectEnvVariables is the only way to lose a change        *)
(* (synchronize.go:18, 152; envVariables.go:44).                             *)
THEOREM CacheInSync == Spec => []InSync
PROOF
  <1>1. IInv => InSync
    BY DEF IInv
  <1> QED BY Invariance, <1>1, PTL

(* Comparing the version after parsing the cached text is enough: as long as *)
(* the cached version of a file never goes back, what is published for a     *)
(* version was computed from that version (synchronize.go:117-123).          *)
THEOREM PublicationsAreConsistent == Spec => []PublishedForItsVersion
PROOF
  <1>1. IInv => PublishedForItsVersion
    BY DEF IInv
  <1> QED BY Invariance, <1>1, PTL

(* Only a stale copy or a closed file lets a goroutine past the comparison   *)
(* with another version than the editor's latest (synchronize.go:119-123).   *)
THEOREM OutdatedIsStopped == Spec => ChecksLatestUnlessLost
PROOF
  <1>1. IInv /\ [Next]_vars => [PassesLatest]_vars
    BY PassesLatestStep DEF IInv
  <1> QED BY Invariance, <1>1, PTL DEF Spec, ChecksLatestUnlessLost

(* A goroutine dereferences no entry of a file the editor has open, and no    *)
(* map is written while it is ranged over, before a token is set: what can    *)
(* crash is a goroutine left with a closed orb file (envVariables.go:13, 43;  *)
(* cache.go:114, 131, 142).                                                   *)
THEOREM CrashesAreExplained == Spec => []CrashesExplained
PROOF
  <1>1. IInv => CrashesExplained
    BY DEF IInv, CrashInv
  <1> QED BY Invariance, <1>1, PTL
-----------------------------------------------------------------------------
(* Induction over a set of naturals.                                         *)
LEMMA SetInduction ==
  ASSUME NEW T, T \subseteq Nat, 0 \in T, \A n \in T : n + 1 \in T
  PROVE  \A n \in Nat : n \in T
<1> DEFINE R == OpToRel(<, Nat)
           Missing == Nat \ T
<1> SUFFICES ASSUME Missing # {} PROVE FALSE
  OBVIOUS
<1>1. IsWellFoundedOn(R, Nat)
  BY NatLessThanWellFounded
<1>2. \A i, j \in Missing : j < i => <<j, i>> \in R
  BY DEF OpToRel
<1> HIDE DEF R
<1>3. PICK least \in Missing : \A j \in Missing : <<j, least>> \notin R
  BY <1>1, WFMin
<1>4. least \in Nat /\ least # 0
  OBVIOUS
<1>5. least - 1 \in Nat /\ least - 1 < least
  BY <1>4
<1>6. least - 1 \in T
  BY <1>2, <1>3, <1>5
<1>7. (least - 1) + 1 \in T
  BY <1>6
<1> QED
  BY <1>4, <1>7
-----------------------------------------------------------------------------
(* Texts are sequences of characters; what the parts of the model are made of.        *)
Texts == Seq(Characters)

LEMMA KnownCharacters ==
  /\ {NewLine, Indent, Script, Wide, "second byte"} \subseteq Characters
  /\ Typed \subseteq Characters /\ Comments \subseteq Characters
  /\ \A document \in Documents : ToSet(document) \subseteq Characters
<1>1. \A document \in Documents : ToSet(document) \subseteq DocumentCharacters
  BY DEF DocumentCharacters
<1> QED
  BY <1>1 DEF Characters

LEMMA EncodedCharacter ==
  ASSUME NEW c \in Characters
  PROVE  /\ Encoded(c) \in Texts /\ Len(Encoded(c)) = IF c = Wide THEN 2 ELSE 1
         /\ c # Wide => Encoded(c) = <<c>>
<1>1. Wide \in Characters /\ "second byte" \in Characters
  BY KnownCharacters
<1>2. \A a, b \in Characters : <<a, b>> \in Seq(Characters) /\ Len(<<a, b>>) = 2
  OBVIOUS
<1>3. <<c>> \in Seq(Characters) /\ Len(<<c>>) = 1
  OBVIOUS
<1> QED
  BY <1>1, <1>2, <1>3 DEF Encoded, Texts

(* What Bytes computes: the bytes of the first n characters.                    *)
IsBytes(bytes, text, last) ==
  bytes = [n \in 0..last |-> IF n = 0 THEN <<>> ELSE bytes[n - 1] \o Encoded(text[n])]

LEMMA BytesExist ==
  ASSUME NEW text, NEW last \in Nat
  PROVE  \E bytes : IsBytes(bytes, text, last)
<1> DEFINE T == {n \in Nat : \E bytes : IsBytes(bytes, text, n)}
<1>1. 0 \in T
  <2> DEFINE none == [n \in 0..0 |-> <<>>]
  <2>1. IsBytes(none, text, 0)
    BY DEF IsBytes
  <2> HIDE DEF none
  <2> QED
    BY <2>1
<1>2. ASSUME NEW n \in T PROVE n + 1 \in T
  <2>1. PICK bytes : IsBytes(bytes, text, n)
    OBVIOUS
  <2> DEFINE more == [m \in 0..(n + 1) |-> IF m = n + 1 THEN bytes[n] \o Encoded(text[n + 1]) ELSE bytes[m]]
  <2>2. n \in Nat
    OBVIOUS
  <2>3. ASSUME NEW m \in 0..(n + 1)
        PROVE  more[m] = IF m = 0 THEN <<>> ELSE more[m - 1] \o Encoded(text[m])
    <3>1. CASE m = n + 1
      <4>1. more[m] = bytes[n] \o Encoded(text[m]) /\ more[m - 1] = bytes[n] /\ m # 0
        BY <2>2, <3>1
      <4> QED
        BY <4>1
    <3>2. CASE m = 0
      <4>1. more[m] = bytes[0]
        BY <2>2, <3>2
      <4>2. bytes[0] = <<>>
        BY <2>1, <2>2 DEF IsBytes
      <4> QED
        BY <3>2, <4>1, <4>2
    <3>3. CASE m \in 1..n
      <4>1. more[m] = bytes[m] /\ more[m - 1] = bytes[m - 1] /\ m # 0 /\ m \in 0..n
        BY <2>2, <3>3
      <4>2. bytes[m] = bytes[m - 1] \o Encoded(text[m])
        BY <2>1, <4>1 DEF IsBytes
      <4> QED
        BY <4>1, <4>2
    <3> QED
      BY <2>2, <3>1, <3>2, <3>3
  <2>4. more = [m \in 0..(n + 1) |-> more[m]]
    OBVIOUS
  <2> HIDE DEF more
  <2>5. IsBytes(more, text, n + 1)
    BY <2>3, <2>4 DEF IsBytes
  <2> QED
    BY <2>2, <2>5
<1> HIDE DEF T
<1>3. T \subseteq Nat
  BY DEF T
<1>4. last \in T
  BY <1>1, <1>2, <1>3, SetInduction
<1> QED
  BY <1>4 DEF T

(* Two such functions agree wherever their texts do.                           *)
LEMMA BytesAreTheSame ==
  ASSUME NEW text, NEW other, NEW last \in Nat, NEW further \in Nat, last <= further,
         NEW bytes, NEW more, IsBytes(bytes, text, last), IsBytes(more, other, further),
         \A n \in 1..last : text[n] = other[n]
  PROVE  \A n \in 0..last : bytes[n] = more[n]
<1> DEFINE T == {n \in Nat : n <= last => bytes[n] = more[n]}
<1>1. 0 \in T
  BY DEF IsBytes
<1>2. ASSUME NEW n \in T PROVE n + 1 \in T
  <2> SUFFICES ASSUME n + 1 <= last PROVE bytes[n + 1] = more[n + 1]
    OBVIOUS
  <2>1. n \in Nat /\ n + 1 \in 0..last /\ n + 1 \in 0..further /\ n + 1 # 0 /\ (n + 1) - 1 = n /\ n + 1 \in 1..last
    OBVIOUS
  <2>2. bytes[n + 1] = bytes[n] \o Encoded(text[n + 1])
    BY <2>1 DEF IsBytes
  <2>3. more[n + 1] = more[n] \o Encoded(other[n + 1])
    BY <2>1 DEF IsBytes
  <2>4. bytes[n] = more[n]
    BY <2>1
  <2> QED
    BY <2>1, <2>2, <2>3, <2>4
<1> HIDE DEF T
<1>3. T \subseteq Nat
  BY DEF T
<1>4. \A n \in Nat : n \in T
  BY <1>1, <1>2, <1>3, SetInduction
<1> QED
  BY <1>4 DEF T

LEMMA BytesComputed ==
  ASSUME NEW text \in Texts
  PROVE  \E bytes : IsBytes(bytes, text, Len(text)) /\ Bytes(text) = bytes[Len(text)]
<1> DEFINE P(bytes) == bytes = [n \in 0..Len(text) |-> IF n = 0 THEN <<>> ELSE bytes[n - 1] \o Encoded(text[n])]
           computed == CHOOSE bytes : P(bytes)
<1>1. Len(text) \in Nat
  BY LenProperties DEF Texts
<1>2. \E bytes : P(bytes)
  BY <1>1, BytesExist DEF IsBytes
<1>3. P(computed)
  BY <1>2, Zenon
<1>4. Bytes(text) = computed[Len(text)]
  BY DEF Bytes
<1> HIDE DEF computed
<1>5. IsBytes(computed, text, Len(text))
  BY <1>3 DEF IsBytes
<1> QED
  BY <1>4, <1>5

LEMMA EmptyBytes == Bytes(<<>>) = <<>>
<1>1. <<>> \in Texts /\ Len(<<>>) = 0
  BY EmptySeq DEF Texts
<1>2. PICK bytes : IsBytes(bytes, <<>>, 0) /\ Bytes(<<>>) = bytes[0]
  BY <1>1, BytesComputed
<1> QED
  BY <1>2 DEF IsBytes

LEMMA BytesAppend ==
  ASSUME NEW text \in Texts, NEW c \in Characters
  PROVE  Bytes(Append(text, c)) = Bytes(text) \o Encoded(c)
<1> DEFINE longer == Append(text, c)
<1>1. /\ longer \in Texts /\ Len(text) \in Nat /\ Len(longer) = Len(text) + 1
      /\ \A n \in 1..Len(text) : text[n] = longer[n]
      /\ longer[Len(text) + 1] = c
  BY AppendProperties, LenProperties DEF Texts
<1> HIDE DEF longer
<1>2. PICK bytes : IsBytes(bytes, text, Len(text)) /\ Bytes(text) = bytes[Len(text)]
  BY BytesComputed
<1>3. PICK more : IsBytes(more, longer, Len(longer)) /\ Bytes(longer) = more[Len(longer)]
  BY <1>1, BytesComputed
<1>4. bytes[Len(text)] = more[Len(text)]
  <2>1. \A n \in 0..Len(text) : bytes[n] = more[n]
    <3>1. Len(text) <= Len(longer) /\ Len(longer) \in Nat
      BY <1>1
    <3>2. IsBytes(bytes, text, Len(text)) /\ IsBytes(more, longer, Len(longer))
      BY <1>2, <1>3
    <3>3. Len(text) \in Nat /\ \A n \in 1..Len(text) : text[n] = longer[n]
      BY <1>1
    <3> QED
      BY <3>1, <3>2, <3>3, BytesAreTheSame, SMTT(30)
  <2> QED
    BY <1>1, <2>1
<1>5. Len(longer) \in 0..Len(longer) /\ Len(longer) # 0 /\ Len(longer) - 1 = Len(text)
  BY <1>1
<1>6. more[Len(longer)] = more[Len(longer) - 1] \o Encoded(longer[Len(longer)])
  BY <1>3, <1>5 DEF IsBytes
<1>7. Bytes(longer) = Bytes(text) \o Encoded(c)
  BY <1>1, <1>2, <1>3, <1>4, <1>5, <1>6
<1> QED
  BY <1>7 DEF longer

(* Induction over the length of a text.                                       *)
LEMMA TextInduction ==
  ASSUME NEW T, <<>> \in T, \A text \in Texts, c \in Characters : text \in T => Append(text, c) \in T
  PROVE  Texts \subseteq T
<1> DEFINE N == {n \in Nat : \A text \in Texts : Len(text) = n => text \in T}
<1>1. 0 \in N
  <2> SUFFICES ASSUME NEW text \in Texts, Len(text) = 0 PROVE text \in T
    OBVIOUS
  <2>1. text = <<>>
    BY EmptySeq DEF Texts
  <2> QED
    BY <2>1
<1>2. ASSUME NEW n \in N PROVE n + 1 \in N
  <2> SUFFICES ASSUME NEW text \in Texts, Len(text) = n + 1 PROVE text \in T
    OBVIOUS
  <2>1. text # <<>>
    BY EmptySeq DEF Texts
  <2>2. PICK shorter \in Texts, c \in Characters : text = Append(shorter, c)
    BY <2>1, SequenceEmptyOrAppend DEF Texts
  <2>3. Len(shorter) \in Nat /\ Len(text) = Len(shorter) + 1
    BY <2>2, AppendProperties, LenProperties DEF Texts
  <2>4. shorter \in T
    BY <2>3
  <2> QED
    BY <2>2, <2>4
<1> HIDE DEF N
<1>3. N \subseteq Nat
  BY DEF N
<1>4. \A n \in Nat : n \in N
  BY <1>1, <1>2, <1>3, SetInduction
<1>5. \A text \in Texts : Len(text) \in Nat
  BY LenProperties DEF Texts
<1> QED
  BY <1>4, <1>5 DEF N

LEMMA BytesAreAText ==
  ASSUME NEW text \in Texts
  PROVE  Bytes(text) \in Texts /\ Len(Bytes(text)) \in Nat
<1> DEFINE T == {t \in Texts : Bytes(t) \in Texts}
<1>1. <<>> \in T
  BY EmptyBytes, EmptySeq DEF Texts
<1>2. ASSUME NEW t \in Texts, NEW c \in Characters, t \in T PROVE Append(t, c) \in T
  <2>1. Append(t, c) \in Texts
    BY AppendProperties DEF Texts
  <2>2. Encoded(c) \in Texts
    BY EncodedCharacter
  <2>3. Bytes(t) \o Encoded(c) \in Texts
    BY <1>2, <2>2, ConcatProperties DEF Texts
  <2> QED
    BY <2>1, <2>3, BytesAppend
<1> HIDE DEF T
<1>3. text \in T
  BY <1>1, <1>2, TextInduction
<1> QED
  BY <1>3, LenProperties DEF T, Texts

(* Bytes of a text behind another.                                            *)
LEMMA BytesConcat ==
  ASSUME NEW text \in Texts, NEW rest \in Texts
  PROVE  text \o rest \in Texts /\ Bytes(text \o rest) = Bytes(text) \o Bytes(rest)
<1> DEFINE T == {t \in Texts : Bytes(text \o t) = Bytes(text) \o Bytes(t)}
<1>1. <<>> \in T
  BY EmptyBytes, BytesAreAText, EmptySeq, ConcatEmptySeq DEF Texts
<1>2. ASSUME NEW t \in Texts, NEW c \in Characters, t \in T PROVE Append(t, c) \in T
  <2>1. /\ Append(t, c) \in Texts /\ Append(t, c) = t \o <<c>>
        /\ <<c>> \in Texts
        /\ text \o t \in Texts /\ Append(text \o t, c) = (text \o t) \o <<c>>
    BY AppendProperties, AppendIsConcat, ConcatProperties DEF Texts
  <2>2. text \o Append(t, c) = Append(text \o t, c)
    BY <2>1, ConcatAssociative DEF Texts
  <2>3. Bytes(text \o Append(t, c)) = (Bytes(text) \o Bytes(t)) \o Encoded(c)
    <3>1. Bytes(Append(text \o t, c)) = Bytes(text \o t) \o Encoded(c)
      BY <2>1, BytesAppend
    <3> QED
      BY <1>2, <2>2, <3>1
  <2>4. (Bytes(text) \o Bytes(t)) \o Encoded(c) = Bytes(text) \o (Bytes(t) \o Encoded(c))
    <3> DEFINE a == Bytes(text)
               b == Bytes(t)
               d == Encoded(c)
    <3>1. a \in Texts /\ b \in Texts /\ d \in Texts
      BY BytesAreAText, EncodedCharacter
    <3> HIDE DEF a, b, d
    <3>2. (a \o b) \o d = a \o (b \o d)
      BY <3>1, ConcatAssociative, SMTT(30) DEF Texts
    <3> QED
      BY <3>2 DEF a, b, d
  <2> QED
    BY <2>1, <2>3, <2>4, BytesAppend
<1> HIDE DEF T
<1>3. rest \in T
  BY <1>1, <1>2, TextInduction
<1> QED
  BY <1>3, ConcatProperties DEF T, Texts

(* Without a wide character the two readings are the same.                      *)
LEMMA BytesOfNarrow ==
  ASSUME NEW text \in Texts, \A i \in 1..Len(text) : text[i] # Wide
  PROVE  Bytes(text) = text
<1> DEFINE T == {t \in Texts : (\A i \in 1..Len(t) : t[i] # Wide) => Bytes(t) = t}
<1>1. <<>> \in T
  BY EmptyBytes, EmptySeq DEF Texts
<1>2. ASSUME NEW t \in Texts, NEW c \in Characters, t \in T PROVE Append(t, c) \in T
  <2>1. /\ Append(t, c) \in Texts /\ Append(t, c) = t \o <<c>>
        /\ Len(t) \in Nat /\ Len(Append(t, c)) = Len(t) + 1
        /\ \A i \in 1..Len(t) : Append(t, c)[i] = t[i]
        /\ Append(t, c)[Len(t) + 1] = c
    BY AppendProperties, AppendIsConcat, LenProperties DEF Texts
  <2> SUFFICES ASSUME \A i \in 1..Len(Append(t, c)) : Append(t, c)[i] # Wide
               PROVE  Bytes(Append(t, c)) = Append(t, c)
    BY <2>1
  <2>2. c # Wide /\ \A i \in 1..Len(t) : t[i] # Wide
    BY <2>1
  <2>3. Bytes(Append(t, c)) = Bytes(t) \o Encoded(c)
    BY BytesAppend
  <2>4. Bytes(t) = t /\ Encoded(c) = <<c>>
    BY <1>2, <2>2, EncodedCharacter
  <2> QED
    BY <2>1, <2>3, <2>4
<1> HIDE DEF T
<1>3. text \in T
  BY <1>1, <1>2, TextInduction
<1> QED
  BY <1>3 DEF T
-----------------------------------------------------------------------------
(* The new lines of a text, of its parts and of its bytes.                            *)
LEMMA NewLinesOfAText ==
  ASSUME NEW text \in Texts
  PROVE  /\ NewLines(text) \subseteq 1..Len(text) /\ Len(text) \in Nat
         /\ IsFiniteSet(NewLines(text)) /\ Cardinality(NewLines(text)) \in Nat
<1>1. NewLines(text) \subseteq 1..Len(text) /\ Len(text) \in Nat
  BY LenProperties DEF NewLines, Texts
<1>2. IsFiniteSet(1..Len(text))
  BY <1>1, FS_Interval
<1>3. IsFiniteSet(NewLines(text))
  BY <1>1, <1>2, FS_Subset
<1> QED
  BY <1>1, <1>3, FS_CardinalityType

(* The newlines up to an index, by which lines are counted.                     *)
Before(text, index) == {i \in NewLines(text) : i <= index}

LEMMA FinitelyManyBefore ==
  ASSUME NEW text \in Texts, NEW index
  PROVE  IsFiniteSet(Before(text, index)) /\ Cardinality(Before(text, index)) \in Nat
<1>1. Before(text, index) \subseteq NewLines(text) /\ IsFiniteSet(NewLines(text))
  BY NewLinesOfAText DEF Before
<1>2. IsFiniteSet(Before(text, index))
  BY <1>1, FS_Subset
<1> QED
  BY <1>2, FS_CardinalityType

LEMMA BeforeInAPrefix ==
  ASSUME NEW text \in Texts, NEW rest \in Texts
  PROVE  /\ Before(text \o rest, Len(text)) = NewLines(text)
         /\ NewLines(text) \subseteq NewLines(text \o rest)
<1>1. /\ Len(text) \in Nat /\ Len(rest) \in Nat /\ text \o rest \in Texts
      /\ Len(text \o rest) = Len(text) + Len(rest)
      /\ DOMAIN text = 1..Len(text) /\ DOMAIN (text \o rest) = 1..Len(text) + Len(rest)
      /\ \A i \in 1..Len(text) : (text \o rest)[i] = text[i]
  BY ConcatProperties, LenProperties DEF Texts
<1> DEFINE whole == text \o rest
<1> HIDE DEF whole
<1>2. \A i : i \in NewLines(text) <=> i \in NewLines(whole) /\ i <= Len(text)
  BY <1>1 DEF NewLines, whole
<1> QED
  BY <1>2 DEF Before, whole

LEMMA NewLinesAppend ==
  ASSUME NEW text \in Texts, NEW c \in Characters
  PROVE  /\ c = NewLine => Cardinality(NewLines(Append(text, c))) = Cardinality(NewLines(text)) + 1
         /\ c # NewLine => Cardinality(NewLines(Append(text, c))) = Cardinality(NewLines(text))
<1>1. /\ Len(text) \in Nat /\ Append(text, c) \in Texts
      /\ DOMAIN text = 1..Len(text) /\ DOMAIN Append(text, c) = 1..Len(text) + 1
      /\ \A i \in 1..Len(text) : Append(text, c)[i] = text[i]
      /\ Append(text, c)[Len(text) + 1] = c
  BY AppendProperties, LenProperties DEF Texts
<1> DEFINE longer == Append(text, c)
<1> HIDE DEF longer
<1>2. c # NewLine => NewLines(longer) = NewLines(text)
  BY <1>1 DEF NewLines, longer
<1>3. c = NewLine => NewLines(longer) = NewLines(text) \union {Len(text) + 1}
  BY <1>1 DEF NewLines, longer
<1>4. Len(text) + 1 \notin NewLines(text) /\ IsFiniteSet(NewLines(text))
  BY NewLinesOfAText
<1>5. Cardinality(NewLines(text) \union {Len(text) + 1}) = Cardinality(NewLines(text)) + 1
  BY <1>4, FS_AddElement
<1> QED
  BY <1>2, <1>3, <1>5 DEF longer

(* The server counts the same lines.                                          *)
LEMMA BytesHaveTheSameLines ==
  ASSUME NEW text \in Texts
  PROVE  Cardinality(NewLines(Bytes(text))) = Cardinality(NewLines(text))
<1> DEFINE T == {t \in Texts : Cardinality(NewLines(Bytes(t))) = Cardinality(NewLines(t))}
<1>1. <<>> \in T
  BY EmptyBytes, EmptySeq DEF Texts
<1>2. ASSUME NEW t \in Texts, NEW c \in Characters, t \in T PROVE Append(t, c) \in T
  <2>1. Append(t, c) \in Texts /\ Bytes(t) \in Texts /\ Bytes(Append(t, c)) = Bytes(t) \o Encoded(c)
    BY AppendProperties, BytesAreAText, BytesAppend DEF Texts
  <2>2. CASE c # Wide
    <3>1. Bytes(t) \o Encoded(c) = Append(Bytes(t), c)
      BY <2>1, <2>2, EncodedCharacter, AppendIsConcat DEF Texts
    <3> QED
      BY <1>2, <2>1, <3>1, NewLinesAppend, ZenonT(60)
  <2>3. CASE c = Wide
    <3> DEFINE second == "second byte"
    <3>1. second \in Characters /\ second # NewLine /\ Encoded(c) = <<c, second>>
      BY <2>3, KnownCharacters DEF Encoded, NewLine
    <3> HIDE DEF second
    <3>2. Bytes(t) \o <<c, second>> = Append(Append(Bytes(t), c), second) /\ Append(Bytes(t), c) \in Texts
      BY <2>1, <3>1, AppendProperties, AppendIsConcat DEF Texts
    <3>3. Cardinality(NewLines(Append(Append(Bytes(t), c), second))) = Cardinality(NewLines(Append(Bytes(t), c)))
      BY <3>1, <3>2, NewLinesAppend
    <3> QED
      BY <1>2, <2>1, <2>3, <3>1, <3>2, <3>3, WideAssumption, NewLinesAppend
  <2> QED
    BY <2>2, <2>3
<1> HIDE DEF T
<1>3. text \in T
  BY <1>1, <1>2, TextInduction
<1> QED
  BY <1>3 DEF T
-----------------------------------------------------------------------------
(* Where lines start, and that every offset survives the way to a position and back.     *)
LEMMA GreatestNatural ==
  ASSUME NEW T, NEW bound \in Nat, T \subseteq 0..bound, T # {}
  PROVE  Max(T) \in T /\ \A i \in T : i <= Max(T)
<1> DEFINE Free == {n \in Nat : \A i \in T : n + i <= bound}
<1>1. 0 \in Free
  OBVIOUS
<1>2. bound + 1 \notin Free
  <2>1. PICK i \in T : TRUE
    OBVIOUS
  <2>2. i \in Nat /\ ~(bound + 1 + i <= bound)
    BY <2>1
  <2> QED
    BY <2>1, <2>2
<1>3. \E n \in Free : n + 1 \notin Free
  <2> SUFFICES ASSUME \A n \in Free : n + 1 \in Free PROVE FALSE
    OBVIOUS
  <2> HIDE DEF Free
  <2>1. Free \subseteq Nat
    BY DEF Free
  <2>2. \A n \in Nat : n \in Free
    BY <1>1, <2>1, SetInduction
  <2> QED
    BY <1>2, <2>2
<1>4. PICK n \in Nat : n \in Free /\ n + 1 \notin Free
  BY <1>3
<1>5. PICK i \in T : n + 1 + i > bound
  BY <1>4
<1>6. \A j \in T : i >= j
  <2> SUFFICES ASSUME NEW j \in T PROVE i >= j
    OBVIOUS
  <2>1. i \in Nat /\ j \in Nat /\ n + j <= bound
    BY <1>4
  <2> QED
    BY <1>5, <2>1
<1>7. Max(T) \in T /\ \A j \in T : Max(T) >= j
  BY <1>6 DEF Max
<1>8. \A j \in T : j \in Nat
  OBVIOUS
<1> QED
  BY <1>7, <1>8

LEMMA FirstLineStart == \A text \in Texts : LineStart(text, 0) = 0
<1> SUFFICES ASSUME NEW text \in Texts PROVE LineStart(text, 0) = 0
  OBVIOUS
<1>1. Cardinality(NewLines(text)) \in Nat /\ ~(0 > Cardinality(NewLines(text)))
  BY NewLinesOfAText
<1> QED
  BY <1>1 DEF LineStart

LEMMA LaterNewLinesCountMore ==
  ASSUME NEW text \in Texts, NEW i \in NewLines(text), NEW j \in NewLines(text), i < j
  PROVE  Cardinality(Before(text, i)) < Cardinality(Before(text, j))
<1>1. \A k \in NewLines(text) : k \in Nat
  BY NewLinesOfAText
<1>2. Before(text, i) \union {j} \subseteq Before(text, j) /\ j \notin Before(text, i)
  BY <1>1 DEF Before
<1>3. /\ IsFiniteSet(Before(text, i)) /\ IsFiniteSet(Before(text, j))
      /\ Cardinality(Before(text, i)) \in Nat /\ Cardinality(Before(text, j)) \in Nat
  BY FinitelyManyBefore
<1>4. Cardinality(Before(text, i) \union {j}) = Cardinality(Before(text, i)) + 1
  BY <1>2, <1>3, FS_AddElement
<1>5. Cardinality(Before(text, i) \union {j}) <= Cardinality(Before(text, j))
  BY <1>2, <1>3, FS_Subset
<1> QED
  BY <1>3, <1>4, <1>5

(* The line that a newline ends is counted by no other newline, so that           *)
(* LineStart finds it.                                                       *)
LEMMA LineStartsBehindItsNewLine ==
  ASSUME NEW text \in Texts, NEW end \in NewLines(text)
  PROVE  /\ Cardinality(Before(text, end)) \in Nat \ {0}
         /\ LineStart(text, Cardinality(Before(text, end))) = end
<1> DEFINE Number(i) == Cardinality(Before(text, i))
<1>1. \A i \in NewLines(text) : i \in Nat
  BY NewLinesOfAText
<1>3. IsFiniteSet(Before(text, end)) /\ Number(end) \in Nat /\ end \in Before(text, end)
  BY <1>1, FinitelyManyBefore DEF Before
<1>4. Number(end) # 0
  BY <1>3, FS_EmptySet
<1>5. Number(end) <= Cardinality(NewLines(text)) /\ Cardinality(NewLines(text)) \in Nat
  <2>1. Before(text, end) \subseteq NewLines(text) /\ IsFiniteSet(NewLines(text)) /\ Cardinality(NewLines(text)) \in Nat
    BY NewLinesOfAText DEF Before
  <2> QED
    BY <2>1, FS_Subset
<1>6. \A i \in NewLines(text) : Number(i) = Number(end) => i = end
  <2> SUFFICES ASSUME NEW i \in NewLines(text), Number(i) = Number(end), i # end PROVE FALSE
    OBVIOUS
  <2>1. i < end \/ end < i
    BY <1>1
  <2>2. Number(i) \in Nat /\ Number(end) \in Nat
    BY FinitelyManyBefore
  <2> QED
    BY <2>1, <2>2, LaterNewLinesCountMore
<1>7. LineStart(text, Number(end)) = CHOOSE i \in NewLines(text) : Number(i) = Number(end)
  <2> DEFINE n == Number(end)
  <2>1. n # 0 /\ ~(n > Cardinality(NewLines(text)))
    BY <1>3, <1>4, <1>5
  <2> HIDE DEF n
  <2>2. LineStart(text, n) = CHOOSE i \in NewLines(text) : Cardinality(Before(text, i)) = n
    BY <2>1 DEF LineStart, Before
  <2> QED
    BY <2>2 DEF n
<1> QED
  BY <1>3, <1>4, <1>6, <1>7

(* The position of an index: behind the last newline before it.                 *)
LEMMA PositionOfAnIndex ==
  ASSUME NEW text \in Texts, NEW index \in 0..Len(text)
  PROVE  \/ /\ Before(text, index) = {}
            /\ IndexToPos(index, text) = Position(0, index)
         \/ /\ Before(text, index) # {}
            /\ \E end \in Before(text, index) :
                 /\ \A i \in Before(text, index) : i <= end
                 /\ IndexToPos(index, text) = Position(Cardinality(Before(text, index)), index - end)
<1>1. Before(text, index) = {} => IndexToPos(index, text) = Position(0, index)
  BY DEF IndexToPos, Before
<1>2. Before(text, index) # {} =>
        IndexToPos(index, text) = Position(Cardinality(Before(text, index)), index - Max(Before(text, index)))
  BY DEF IndexToPos, Before
<1>3. Before(text, index) \subseteq 0..Len(text) /\ Len(text) \in Nat
  BY NewLinesOfAText DEF Before
<1>4. Before(text, index) # {} =>
        /\ Max(Before(text, index)) \in Before(text, index)
        /\ \A i \in Before(text, index) : i <= Max(Before(text, index))
  BY <1>3, GreatestNatural
<1> QED
  BY <1>1, <1>2, <1>4

(* The offsets of a text survive the way to a position and back.                  *)
LEMMA RoundTrip ==
  ASSUME NEW text \in Texts, NEW index \in 0..Len(text)
  PROVE  PosToIndex(IndexToPos(index, text), text) = index
<1>1. Len(text) \in Nat /\ index \in Nat /\ index <= Len(text)
  BY NewLinesOfAText
<1>2. CASE Before(text, index) = {}
  <2>1. IndexToPos(index, text) = Position(0, index)
    BY <1>2, PositionOfAnIndex
  <2>2. LineStart(text, 0) = 0
    BY FirstLineStart
  <2> QED
    BY <1>1, <2>1, <2>2 DEF PosToIndex, Position, Smaller
<1>3. CASE Before(text, index) # {}
  <2>1. PICK end \in Before(text, index) :
          /\ \A i \in Before(text, index) : i <= end
          /\ IndexToPos(index, text) = Position(Cardinality(Before(text, index)), index - end)
    BY <1>3, PositionOfAnIndex
  <2>2. end \in NewLines(text) /\ end \in Nat /\ end <= index
    BY NewLinesOfAText DEF Before
  <2>3. Before(text, index) = Before(text, end)
    <3>1. \A i \in NewLines(text) : i \in Nat
      BY NewLinesOfAText
    <3>2. \A i \in NewLines(text) : i <= index <=> i <= end
      BY <1>1, <2>1, <2>2, <3>1 DEF Before
    <3> QED
      BY <3>2 DEF Before
  <2>4. LineStart(text, Cardinality(Before(text, index))) = end
    BY <2>2, <2>3, LineStartsBehindItsNewLine
  <2> QED
    BY <1>1, <2>1, <2>2, <2>4 DEF PosToIndex, Position, Smaller
<1> QED
  BY <1>2, <1>3
-----------------------------------------------------------------------------
(* A text is put together of what is before an offset and what is behind it.           *)
Upto(text, index) == SubSeq(text, 1, index)
Behind(text, index) == SubSeq(text, index + 1, Len(text))

LEMMA Parts ==
  ASSUME NEW text \in Texts, NEW index \in 0..Len(text)
  PROVE  /\ Upto(text, index) \in Texts /\ Behind(text, index) \in Texts
         /\ Len(Upto(text, index)) = index /\ Len(Behind(text, index)) = Len(text) - index
         /\ text = Upto(text, index) \o Behind(text, index)
         /\ \A i \in 1..index : Upto(text, index)[i] = text[i]
         /\ \A i \in 1..Len(text) - index : Behind(text, index)[i] = text[index + i]
<1>1. Len(text) \in Nat /\ index \in Nat /\ index <= Len(text) /\ \A i \in 1..Len(text) : text[i] \in Characters
  BY LenProperties DEF Texts
<1>2. /\ Upto(text, index) \in Texts /\ Len(Upto(text, index)) = index
      /\ \A i \in 1..index : Upto(text, index)[i] = text[i]
  <2>1. \A i \in 1..index : text[i] \in Characters
    BY <1>1
  <2>2. /\ SubSeq(text, 1, index) \in Seq(Characters)
        /\ Len(SubSeq(text, 1, index)) = IF 1 <= index THEN index - 1 + 1 ELSE 0
        /\ \A i \in 1..index - 1 + 1 : SubSeq(text, 1, index)[i] = text[1 + i - 1]
    BY <1>1, <2>1, SubSeqProperties
  <2> QED
    BY <1>1, <2>2 DEF Upto, Texts
<1>3. /\ Behind(text, index) \in Texts /\ Len(Behind(text, index)) = Len(text) - index
      /\ \A i \in 1..Len(text) - index : Behind(text, index)[i] = text[index + i]
  <2>1. \A i \in index + 1..Len(text) : text[i] \in Characters
    BY <1>1
  <2>2. /\ SubSeq(text, index + 1, Len(text)) \in Seq(Characters)
        /\ Len(SubSeq(text, index + 1, Len(text))) = IF index + 1 <= Len(text) THEN Len(text) - (index + 1) + 1 ELSE 0
        /\ \A i \in 1..Len(text) - (index + 1) + 1 :
             SubSeq(text, index + 1, Len(text))[i] = text[index + 1 + i - 1]
    BY <1>1, <2>1, SubSeqProperties
  <2> QED
    BY <1>1, <2>2 DEF Behind, Texts
<1>4. text = Upto(text, index) \o Behind(text, index)
  <2>1. SubSeq(text, 1, index) \o SubSeq(text, index + 1, Len(text)) = SubSeq(text, 1, Len(text))
    <3>1. 1 \in 1..Len(text) + 1 /\ index \in 1 - 1..Len(text) /\ Len(text) \in index..Len(text)
      BY <1>1
    <3> QED
      BY <3>1, ConcatAdjacentSubSeq DEF Texts
  <2>2. SubSeq(text, 1, Len(text)) = text
    BY SubSeqFull DEF Texts
  <2> QED
    BY <2>1, <2>2 DEF Upto, Behind
<1> QED
  BY <1>2, <1>3, <1>4

(* A text is taken apart where it was put together.                             *)
LEMMA PartsOfConcat ==
  ASSUME NEW text \in Texts, NEW rest \in Texts
  PROVE  /\ text \o rest \in Texts /\ Len(text \o rest) = Len(text) + Len(rest) /\ Len(text) \in 0..Len(text \o rest)
         /\ Upto(text \o rest, Len(text)) = text /\ Behind(text \o rest, Len(text)) = rest
<1> DEFINE whole == text \o rest
<1>1. /\ whole \in Texts /\ Len(whole) = Len(text) + Len(rest) /\ Len(text) \in Nat /\ Len(rest) \in Nat
      /\ \A i \in 1..Len(text) + Len(rest) : whole[i] = IF i <= Len(text) THEN text[i] ELSE rest[i - Len(text)]
  BY ConcatProperties, LenProperties DEF Texts
<1> HIDE DEF whole
<1>2. Len(text) \in 0..Len(whole)
  BY <1>1
<1> DEFINE n == Len(text)
<1>5. /\ \A i \in 1..n : Upto(whole, n)[i] = whole[i]
      /\ \A i \in 1..Len(whole) - n : Behind(whole, n)[i] = whole[n + i]
  <2> HIDE DEF n
  <2> QED
    BY <1>1, <1>2, Parts DEF n
<1>3. Upto(whole, Len(text)) = text
  <2>1. \A i \in 1..Len(text) : Upto(whole, Len(text))[i] = text[i]
    BY <1>1, <1>5
  <2>2. Upto(whole, Len(text)) \in Texts /\ Len(Upto(whole, Len(text))) = Len(text)
    BY <1>1, <1>2, Parts
  <2> QED
    BY <2>1, <2>2, SeqEqual DEF Texts
<1>4. Behind(whole, Len(text)) = rest
  <2>1. Behind(whole, Len(text)) \in Texts /\ Len(Behind(whole, Len(text))) = Len(rest)
    BY <1>1, <1>2, Parts
  <2>2. \A i \in 1..Len(rest) : Behind(whole, Len(text))[i] = rest[i]
    <3> SUFFICES ASSUME NEW i \in 1..Len(rest) PROVE Behind(whole, Len(text))[i] = rest[i]
      OBVIOUS
    <3>1. Behind(whole, Len(text))[i] = whole[Len(text) + i]
      BY <1>1, <1>5
    <3>2. Len(text) + i \in 1..Len(text) + Len(rest) /\ ~(Len(text) + i <= Len(text)) /\ (Len(text) + i) - Len(text) = i
      BY <1>1
    <3> QED
      BY <1>1, <3>1, <3>2
  <2> QED
    BY <2>1, <2>2, SeqEqual DEF Texts
<1> QED
  BY <1>1, <1>2, <1>3, <1>4 DEF whole
-----------------------------------------------------------------------------
(* No wide character lies before an index on its line.                          *)
Narrow(text, index) == \A j \in 1..index : text[j] = Wide => \E k \in j..index : text[k] = NewLine

LEMMA BytesOfParts ==
  ASSUME NEW text \in Texts, NEW index \in 0..Len(text)
  PROVE  /\ Bytes(text) = Bytes(Upto(text, index)) \o Bytes(Behind(text, index))
         /\ Bytes(Upto(text, index)) \in Texts /\ Bytes(Behind(text, index)) \in Texts
         /\ Len(Bytes(Upto(text, index))) \in 0..Len(Bytes(text))
<1>1. Upto(text, index) \in Texts /\ Behind(text, index) \in Texts /\ text = Upto(text, index) \o Behind(text, index)
  BY Parts
<1>2. Bytes(Upto(text, index)) \in Texts /\ Bytes(Behind(text, index)) \in Texts
  BY <1>1, BytesAreAText
<1>3. Bytes(text) = Bytes(Upto(text, index)) \o Bytes(Behind(text, index))
  BY <1>1, BytesConcat
<1> QED
  BY <1>2, <1>3, PartsOfConcat

(* The server finds, in bytes, the index that the editor meant.                  *)
LEMMA ServerReadsTheIndex ==
  ASSUME NEW text \in Texts, NEW index \in 0..Len(text), Narrow(text, index)
  PROVE  PosToIndex(IndexToPos(index, text), Bytes(text)) = Len(Bytes(Upto(text, index)))
<1>1. Len(text) \in Nat /\ index \in Nat /\ index <= Len(text)
  BY NewLinesOfAText
<1>2. /\ Bytes(text) \in Texts /\ Len(Bytes(text)) \in Nat
      /\ Len(Bytes(Upto(text, index))) \in 0..Len(Bytes(text))
  BY BytesAreAText, BytesOfParts
<1>3. CASE Before(text, index) = {}
  <2>1. IndexToPos(index, text) = Position(0, index)
    BY <1>3, PositionOfAnIndex
  <2>2. LineStart(Bytes(text), 0) = 0
    BY <1>2, FirstLineStart
  <2>3. \A i \in 1..index : text[i] # Wide
    <3> SUFFICES ASSUME NEW i \in 1..index, text[i] = Wide PROVE FALSE
      OBVIOUS
    <3>1. PICK k \in i..index : text[k] = NewLine
      BY DEF Narrow
    <3>2. k \in NewLines(text)
      BY <1>1, <3>1, LenProperties DEF NewLines, Texts
    <3> QED
      BY <1>1, <1>3, <3>1, <3>2 DEF Before
  <2>4. Len(Bytes(Upto(text, index))) = index
    <3>1. Upto(text, index) \in Texts /\ Len(Upto(text, index)) = index /\ \A i \in 1..index : Upto(text, index)[i] # Wide
      BY <2>3, Parts
    <3>2. Bytes(Upto(text, index)) = Upto(text, index)
      BY <3>1, BytesOfNarrow
    <3> QED
      BY <3>1, <3>2
  <2> QED
    BY <1>1, <1>2, <2>1, <2>2, <2>4 DEF PosToIndex, Position, Smaller
<1>4. CASE Before(text, index) # {}
  <2>1. PICK end \in Before(text, index) :
          /\ \A i \in Before(text, index) : i <= end
          /\ IndexToPos(index, text) = Position(Cardinality(Before(text, index)), index - end)
    BY <1>4, PositionOfAnIndex
  <2>2. end \in NewLines(text) /\ end \in 1..Len(text) /\ end <= index /\ text[end] = NewLine
    BY NewLinesOfAText DEF Before, NewLines
  <2> DEFINE line == Upto(text, end)
             rest == Behind(text, end)
             column == Upto(rest, index - end)
  <2>3. /\ line \in Texts /\ rest \in Texts /\ text = line \o rest
        /\ Len(line) = end /\ Len(rest) = Len(text) - end
        /\ \A i \in 1..end : line[i] = text[i]
        /\ \A i \in 1..Len(text) - end : rest[i] = text[end + i]
    <3>1. end \in 0..Len(text)
      BY <1>1, <2>2
    <3> QED
      BY <3>1, Parts
  <2> HIDE DEF line, rest
  <2>4. index - end \in 0..Len(rest) /\ index - end \in Nat
    BY <1>1, <2>2, <2>3
  <2>5. /\ column \in Texts /\ Len(column) = index - end /\ rest = column \o Behind(rest, index - end)
        /\ Behind(rest, index - end) \in Texts
        /\ \A i \in 1..index - end : column[i] = rest[i]
    BY <2>3, <2>4, Parts
  <2> HIDE DEF column
  <2>6. \A i \in 1..Len(column) : column[i] # Wide
    <3> SUFFICES ASSUME NEW i \in 1..index - end, column[i] = Wide PROVE FALSE
      BY <2>5
    <3>1. end + i \in 1..index /\ text[end + i] = Wide
      BY <1>1, <2>2, <2>3, <2>4, <2>5
    <3>2. PICK k \in end + i..index : text[k] = NewLine
      BY <3>1 DEF Narrow
    <3>3. k \in NewLines(text) /\ k \in Nat /\ k <= index /\ ~(k <= end)
      BY <1>1, <2>2, <3>2, LenProperties DEF NewLines, Texts
    <3>4. k \in Before(text, index)
      BY <3>3 DEF Before
    <3> QED
      BY <2>1, <3>3, <3>4
  <2>7. Bytes(column) = column
    BY <2>5, <2>6, BytesOfNarrow
  (* The bytes of the lines before end where the line begins. *)
  <2>8. Before(text, index) = NewLines(line)
    <3>1. Before(line \o rest, Len(line)) = NewLines(line)
      BY <2>3, BeforeInAPrefix
    <3>2. \A i \in NewLines(text) : i \in Nat
      BY NewLinesOfAText
    <3>3. \A i \in NewLines(text) : i <= index <=> i <= end
      BY <1>1, <2>1, <2>2, <3>2 DEF Before
    <3>4. Before(text, index) = Before(text, end)
      BY <3>3 DEF Before
    <3> QED
      BY <2>3, <3>1, <3>4
  <2> DEFINE lineBytes == Bytes(line)
             restBytes == Bytes(rest)
  <2>9. /\ lineBytes \in Texts /\ restBytes \in Texts /\ Bytes(text) = lineBytes \o restBytes
        /\ Len(lineBytes) \in Nat
    BY <2>3, BytesAreAText, BytesConcat
  <2>10. Len(lineBytes) \in NewLines(lineBytes)
    <3> DEFINE before == Upto(line, end - 1)
    <3>1. /\ before \in Texts /\ Len(before) = end - 1 /\ end - 1 \in Nat
          /\ \A i \in 1..end - 1 : before[i] = line[i]
      <4>1. end - 1 \in 0..Len(line) /\ end - 1 \in Nat
        BY <2>2, <2>3
      <4> QED
        BY <2>3, <4>1, Parts
    <3> HIDE DEF before
    <3>2. line = Append(before, NewLine)
      <4>1. /\ Append(before, NewLine) \in Texts /\ Len(Append(before, NewLine)) = end
            /\ \A i \in 1..end - 1 : Append(before, NewLine)[i] = line[i]
            /\ Append(before, NewLine)[end] = line[end]
        <5>1. /\ Append(before, NewLine) \in Texts /\ Len(Append(before, NewLine)) = Len(before) + 1
              /\ \A i \in 1..Len(before) : Append(before, NewLine)[i] = before[i]
              /\ Append(before, NewLine)[Len(before) + 1] = NewLine
          BY <3>1, KnownCharacters, AppendProperties, ZenonT(60) DEF Texts
        <5>2. Len(before) + 1 = end /\ line[end] = NewLine
          BY <2>2, <2>3, <3>1
        <5> QED
          BY <3>1, <5>1, <5>2
      <4>2. \A i \in 1..end : Append(before, NewLine)[i] = line[i]
        BY <2>2, <4>1
      <4> QED
        BY <2>3, <4>1, <4>2, SeqEqual DEF Texts
    <3>3. Bytes(before) \in Texts /\ NewLine \in Characters
      BY <3>1, BytesAreAText, KnownCharacters
    <3>4. lineBytes = Append(Bytes(before), NewLine)
      <4>1. lineBytes = Bytes(before) \o <<NewLine>>
        BY <3>1, <3>2, <3>3, BytesAppend, EncodedCharacter, WideAssumption
      <4> QED
        BY <3>3, <4>1, AppendIsConcat DEF Texts
    <3>5. Len(lineBytes) = Len(Bytes(before)) + 1 /\ lineBytes[Len(Bytes(before)) + 1] = NewLine /\ Len(Bytes(before)) \in Nat
      BY <3>3, <3>4, AppendProperties, LenProperties DEF Texts
    <3> HIDE DEF lineBytes
    <3> QED
      BY <2>9, <3>5, LenProperties DEF NewLines, Texts
  <2>11. /\ Before(Bytes(text), Len(lineBytes)) = NewLines(lineBytes)
         /\ Len(lineBytes) \in NewLines(Bytes(text))
    BY <2>9, <2>10, BeforeInAPrefix
  <2>12. Cardinality(NewLines(lineBytes)) = Cardinality(Before(text, index))
    BY <2>3, <2>8, BytesHaveTheSameLines
  <2>13. LineStart(Bytes(text), Cardinality(Before(text, index))) = Len(lineBytes)
    BY <1>2, <2>11, <2>12, LineStartsBehindItsNewLine
  (* And the column is the same. *)
  <2>14. Len(Bytes(Upto(text, index))) = Len(lineBytes) + (index - end)
    <3> DEFINE prefix == line \o column
               behind == Behind(rest, index - end)
    <3> HIDE DEF behind, lineBytes
    <3>1. prefix \in Texts /\ Len(prefix) = index
      <4>1. prefix \in Texts /\ Len(prefix) = Len(line) + Len(column)
        BY <2>3, <2>5, ConcatProperties DEF Texts
      <4>2. Len(line) = end /\ Len(column) = index - end /\ end \in Nat /\ index \in Nat
        BY <1>1, <2>2, <2>3, <2>5
      <4> QED
        BY <4>1, <4>2
    <3>2. text = prefix \o behind /\ behind \in Texts
      <4>1. behind \in Texts /\ rest = column \o behind
        BY <2>5 DEF behind
      <4>2. (line \o column) \o behind = line \o (column \o behind)
        BY <2>3, <2>5, <4>1, ConcatAssociative, SMTT(30) DEF Texts
      <4> QED
        BY <2>3, <4>1, <4>2
    <3>3. Bytes(prefix) = lineBytes \o column
      <4>1. Bytes(line \o column) = Bytes(line) \o Bytes(column)
        BY <2>3, <2>5, BytesConcat
      <4> QED
        BY <2>7, <4>1 DEF lineBytes
    <3>4. Len(lineBytes \o column) = Len(lineBytes) + (index - end)
      BY <2>5, <2>9, ConcatProperties DEF Texts
    <3> HIDE DEF prefix, behind
    <3>5. Upto(text, index) = prefix
      BY <3>1, <3>2, PartsOfConcat
    <3> QED
      BY <3>3, <3>4, <3>5
  <2> HIDE DEF lineBytes
  <2> QED
    BY <1>2, <2>1, <2>4, <2>9, <2>13, <2>14 DEF PosToIndex, Position, Smaller
<1> QED
  BY <1>3, <1>4

(* The editor and the server replace the same part.                             *)
LEMMA OneChange ==
  ASSUME NEW text \in Texts, NEW from \in 0..Len(text), NEW to \in 0..Len(text), NEW new \in Texts,
         Narrow(text, from), Narrow(text, to)
  PROVE  Splice(Bytes(text), PosToIndex(IndexToPos(from, text), Bytes(text)),
                PosToIndex(IndexToPos(to, text), Bytes(text)), Bytes(new)) = Bytes(Splice(text, from, to, new))
<1> DEFINE head == Upto(text, from)
           tail == Behind(text, to)
           bytes == Bytes(text)
<1>1. head \in Texts /\ tail \in Texts
  BY Parts
<1>2. PosToIndex(IndexToPos(from, text), bytes) = Len(Bytes(head)) /\ Upto(bytes, Len(Bytes(head))) = Bytes(head)
  <2>1. bytes = Bytes(head) \o Bytes(Behind(text, from)) /\ Bytes(head) \in Texts /\ Bytes(Behind(text, from)) \in Texts
    BY BytesOfParts
  <2>2. Upto(bytes, Len(Bytes(head))) = Bytes(head)
    BY <2>1, PartsOfConcat
  <2> QED
    BY <2>2, ServerReadsTheIndex
<1>3. PosToIndex(IndexToPos(to, text), bytes) = Len(Bytes(Upto(text, to))) /\ Behind(bytes, Len(Bytes(Upto(text, to)))) = Bytes(tail)
  <2>1. bytes = Bytes(Upto(text, to)) \o Bytes(tail) /\ Bytes(Upto(text, to)) \in Texts /\ Bytes(tail) \in Texts
    BY BytesOfParts
  <2>2. Behind(bytes, Len(Bytes(Upto(text, to)))) = Bytes(tail)
    BY <2>1, PartsOfConcat
  <2> QED
    BY <2>2, ServerReadsTheIndex
<1>4. Splice(bytes, PosToIndex(IndexToPos(from, text), bytes), PosToIndex(IndexToPos(to, text), bytes), Bytes(new))
        = Bytes(head) \o Bytes(new) \o Bytes(tail)
  BY <1>2, <1>3 DEF Splice, Upto, Behind
<1>5. Splice(text, from, to, new) = head \o new \o tail
  BY DEF Splice, Upto, Behind
<1> HIDE DEF head, tail
<1>6. Bytes(head \o new \o tail) = Bytes(head) \o Bytes(new) \o Bytes(tail)
  <2>1. head \o new \in Texts /\ Bytes(head \o new) = Bytes(head) \o Bytes(new)
    BY <1>1, BytesConcat
  <2>2. Bytes((head \o new) \o tail) = Bytes(head \o new) \o Bytes(tail)
    BY <1>1, <2>1, BytesConcat
  <2> QED
    BY <2>1, <2>2
<1> QED
  BY <1>4, <1>5, <1>6
-----------------------------------------------------------------------------
(* Every line but the first one begins behind a newline.                        *)
LEMMA EveryLineHasItsNewLine ==
  ASSUME NEW text \in Texts, NEW line \in Nat, 0 < line, line <= Cardinality(NewLines(text))
  PROVE  \E end \in NewLines(text) : Cardinality(Before(text, end)) = line
<1> DEFINE Has(t) == \A n \in Nat : 0 < n /\ n <= Cardinality(NewLines(t)) =>
                       \E end \in NewLines(t) : Cardinality(Before(t, end)) = n
           T == {t \in Texts : Has(t)}
<1>1. <<>> \in T
  <2>1. NewLines(<<>>) = {} /\ <<>> \in Texts
    BY EmptySeq DEF NewLines, Texts
  <2>2. Cardinality(NewLines(<<>>)) = 0
    BY <2>1, FS_EmptySet
  <2>3. \A n \in Nat : ~(0 < n /\ n <= Cardinality(NewLines(<<>>)))
    BY <2>2
  <2> QED
    BY <2>1, <2>3
<1>2. ASSUME NEW t \in Texts, NEW c \in Characters, t \in T PROVE Append(t, c) \in T
  <2> DEFINE longer == Append(t, c)
  <2>1. /\ longer \in Texts /\ Len(t) \in Nat /\ Len(longer) = Len(t) + 1 /\ longer[Len(t) + 1] = c
        /\ DOMAIN t = 1..Len(t) /\ DOMAIN longer = 1..Len(t) + 1
        /\ \A i \in 1..Len(t) : longer[i] = t[i]
    BY AppendProperties, LenProperties DEF Texts
  <2>2. /\ c = NewLine => Cardinality(NewLines(longer)) = Cardinality(NewLines(t)) + 1
        /\ c # NewLine => Cardinality(NewLines(longer)) = Cardinality(NewLines(t))
        /\ Cardinality(NewLines(t)) \in Nat
    BY NewLinesAppend, NewLinesOfAText
  <2> HIDE DEF longer
  <2>3. \A end \in NewLines(t) : end \in NewLines(longer) /\ Before(longer, end) = Before(t, end)
    BY <2>1 DEF NewLines, Before
  <2>4. c = NewLine => Len(t) + 1 \in NewLines(longer) /\ Before(longer, Len(t) + 1) = NewLines(longer)
    BY <2>1 DEF NewLines, Before
  <2> SUFFICES ASSUME NEW n \in Nat, 0 < n, n <= Cardinality(NewLines(longer))
               PROVE  \E end \in NewLines(longer) : Cardinality(Before(longer, end)) = n
    BY <2>1 DEF longer
  <2>5. CASE n <= Cardinality(NewLines(t))
    BY <1>2, <2>3, <2>5
  <2>6. CASE ~(n <= Cardinality(NewLines(t)))
    <3>1. c = NewLine /\ n = Cardinality(NewLines(longer))
      BY <2>2, <2>6
    <3> QED
      BY <2>4, <3>1
  <2> QED
    BY <2>5, <2>6
<1> HIDE DEF T
<1>3. text \in T
  BY <1>1, <1>2, TextInduction
<1> QED
  BY <1>3 DEF T

LEMMA LineStartOfALine ==
  ASSUME NEW text \in Texts, NEW line \in Nat
  PROVE  /\ LineStart(text, line) \in 0..Len(text)
         /\ line = 0 => LineStart(text, line) = 0
         /\ line > Cardinality(NewLines(text)) => LineStart(text, line) = Len(text)
         /\ 0 < line /\ line <= Cardinality(NewLines(text)) =>
              /\ LineStart(text, line) \in NewLines(text)
              /\ Cardinality(Before(text, LineStart(text, line))) = line
<1>1. Cardinality(NewLines(text)) \in Nat /\ NewLines(text) \subseteq 1..Len(text) /\ Len(text) \in Nat
  BY NewLinesOfAText
<1>2. CASE line = 0
  BY <1>1, <1>2, FirstLineStart
<1>3. CASE line > Cardinality(NewLines(text))
  <2>1. line # 0
    BY <1>1, <1>3
  <2>2. LineStart(text, line) = Len(text)
    BY <1>3, <2>1 DEF LineStart
  <2> QED
    BY <1>1, <1>3, <2>1, <2>2
<1>4. CASE 0 < line /\ line <= Cardinality(NewLines(text))
  <2>1. PICK end \in NewLines(text) : Cardinality(Before(text, end)) = line
    BY <1>4, EveryLineHasItsNewLine
  <2>2. LineStart(text, line) = end
    BY <2>1, LineStartsBehindItsNewLine
  <2>3. ~(line > Cardinality(NewLines(text))) /\ line # 0 /\ end \in 0..Len(text)
    BY <1>1, <1>4
  <2> QED
    BY <2>1, <2>2, <2>3
<1> QED
  BY <1>1, <1>2, <1>3, <1>4

LEMMA LinesAreInOrder ==
  ASSUME NEW text \in Texts, NEW line \in Nat, NEW later \in Nat, line <= later
  PROVE  LineStart(text, line) <= LineStart(text, later)
<1>1. Cardinality(NewLines(text)) \in Nat /\ NewLines(text) \subseteq 1..Len(text) /\ Len(text) \in Nat
  BY NewLinesOfAText
<1>2. LineStart(text, line) \in 0..Len(text) /\ LineStart(text, later) \in 0..Len(text)
  BY LineStartOfALine
<1>3. CASE line = 0 \/ later > Cardinality(NewLines(text))
  <2>1. line = 0 => LineStart(text, line) = 0
    BY LineStartOfALine
  <2>2. later > Cardinality(NewLines(text)) => LineStart(text, later) = Len(text)
    BY LineStartOfALine
  <2> QED
    BY <1>1, <1>2, <1>3, <2>1, <2>2
<1>4. CASE 0 < line /\ later <= Cardinality(NewLines(text))
  <2> DEFINE i == LineStart(text, line)
             j == LineStart(text, later)
  <2>1. /\ i \in NewLines(text) /\ Cardinality(Before(text, i)) = line
        /\ j \in NewLines(text) /\ Cardinality(Before(text, j)) = later
    BY <1>1, <1>4, LineStartOfALine
  <2> HIDE DEF i, j
  <2>2. ~(j < i)
    BY <2>1, LaterNewLinesCountMore
  <2>3. i \in Nat /\ j \in Nat
    BY <1>1, <2>1
  <2> QED
    BY <2>2, <2>3 DEF i, j
<1> QED
  BY <1>1, <1>3, <1>4

LEMMA PositionsAreOfNaturals ==
  ASSUME NEW text \in Texts, NEW index \in 0..Len(text)
  PROVE  IndexToPos(index, text) \in [line : Nat, character : Nat]
<1>1. index \in Nat
  BY NewLinesOfAText
<1>2. CASE Before(text, index) = {}
  BY <1>1, <1>2, PositionOfAnIndex DEF Position
<1>3. CASE Before(text, index) # {}
  <2>1. PICK end \in Before(text, index) : IndexToPos(index, text) = Position(Cardinality(Before(text, index)), index - end)
    BY <1>3, PositionOfAnIndex
  <2>2. index - end \in Nat /\ Cardinality(Before(text, index)) \in Nat
    <3>1. end \in 1..Len(text) /\ end <= index /\ Len(text) \in Nat
      BY NewLinesOfAText DEF Before
    <3> QED
      BY <1>1, <3>1, FinitelyManyBefore
  <2> QED
    BY <2>1, <2>2 DEF Position
<1> QED
  BY <1>2, <1>3

LEMMA IndicesAreInTheText ==
  ASSUME NEW text \in Texts, NEW pos \in [line : Nat, character : Nat]
  PROVE  PosToIndex(pos, text) \in 0..Len(text)
<1>1. LineStart(text, pos.line) \in 0..Len(text) /\ Len(text) \in Nat /\ pos.character \in Nat
  BY LineStartOfALine, NewLinesOfAText
<1> QED
  BY <1>1 DEF PosToIndex, Smaller

LEMMA SpliceIsAText ==
  ASSUME NEW text \in Texts, NEW from \in 0..Len(text), NEW to \in 0..Len(text), NEW new \in Texts
  PROVE  Splice(text, from, to, new) \in Texts
<1>1. Upto(text, from) \in Texts /\ Behind(text, to) \in Texts
  BY Parts
<1>2. Upto(text, from) \o new \o Behind(text, to) \in Texts
  BY <1>1, ConcatProperties DEF Texts
<1> QED
  BY <1>2 DEF Splice, Upto, Behind
-----------------------------------------------------------------------------
(* Texts that agree before an index have the same positions up to it.            *)
Agree(text, other, index) ==
  /\ index \in 0..Len(text) /\ index \in 0..Len(other)
  /\ \A i \in 1..index : text[i] = other[i]

LEMMA SamePositions ==
  ASSUME NEW text \in Texts, NEW other \in Texts, NEW further, Agree(text, other, further), NEW index \in 0..further
  PROVE  IndexToPos(index, text) = IndexToPos(index, other) /\ (Narrow(text, index) <=> Narrow(other, index))
<1>1. /\ Len(text) \in Nat /\ Len(other) \in Nat /\ further \in Nat /\ index \in Nat
      /\ index <= further /\ further <= Len(text) /\ further <= Len(other)
      /\ DOMAIN text = 1..Len(text) /\ DOMAIN other = 1..Len(other)
  BY LenProperties DEF Agree, Texts
<1>2. \A i \in 1..index : text[i] = other[i]
  BY <1>1 DEF Agree
<1>3. \A i : i \in NewLines(text) /\ i <= index <=> i \in NewLines(other) /\ i <= index
  BY <1>1, <1>2 DEF NewLines
<1>4. {i \in NewLines(text) : i <= index} = {i \in NewLines(other) : i <= index}
  BY <1>3
<1>5. IndexToPos(index, text) = IndexToPos(index, other)
  BY <1>4 DEF IndexToPos
<1>6. Narrow(text, index) <=> Narrow(other, index)
  <2>1. \A j \in 1..index : \A k \in j..index : k \in 1..index
    BY <1>1
  <2> QED
    BY <1>2, <2>1 DEF Narrow
<1> QED
  BY <1>5, <1>6

LEMMA SpliceAgrees ==
  ASSUME NEW text \in Texts, NEW from \in 0..Len(text), NEW to \in 0..Len(text), NEW new \in Texts
  PROVE  Agree(Splice(text, from, to, new), text, from)
<1> DEFINE head == Upto(text, from)
           rest == new \o Behind(text, to)
<1>1. /\ head \in Texts /\ Len(head) = from /\ Behind(text, to) \in Texts
      /\ \A i \in 1..from : head[i] = text[i]
  BY Parts
<1>2. rest \in Texts /\ Splice(text, from, to, new) = head \o rest
  <2> DEFINE tail == Behind(text, to)
  <2>1. Splice(text, from, to, new) = (head \o new) \o tail
    BY DEF Splice, Upto, Behind
  <2>2. tail \in Texts /\ head \in Texts
    BY <1>1
  <2> HIDE DEF head, tail
  <2>3. new \o tail \in Texts
    BY <2>2, ConcatProperties DEF Texts
  <2>4. (head \o new) \o tail = head \o (new \o tail)
    BY <2>2, ConcatAssociative DEF Texts
  <2> QED
    BY <2>1, <2>3, <2>4 DEF tail
<1> HIDE DEF head, rest
<1>3. /\ Len(head \o rest) = Len(head) + Len(rest) /\ Len(rest) \in Nat /\ Len(head) \in Nat
      /\ \A i \in 1..Len(head) + Len(rest) : (head \o rest)[i] = IF i <= Len(head) THEN head[i] ELSE rest[i - Len(head)]
  BY <1>1, <1>2, ConcatProperties, LenProperties DEF Texts
<1>4. \A i \in 1..from : (head \o rest)[i] = text[i]
  BY <1>1, <1>3
<1> QED
  BY <1>1, <1>2, <1>3, <1>4 DEF Agree

(* The editor replaces the last part first, each within its text.                *)
Replaceable(part, text) == part.from \in 0..Len(text) /\ part.to \in part.from..Len(text) /\ part.text \in Texts
LastFirst(parts, text) ==
  /\ DOMAIN parts = 1..Len(parts) /\ Len(parts) \in Nat
  /\ \A i \in 1..Len(parts) : Replaceable(parts[i], text)
  /\ \A i \in 1..Len(parts) : i + 1 \in 1..Len(parts) => parts[i + 1].to <= parts[i].from

(* What Edited and applyIncrementalChanges compute: the text after n changes.     *)
IsEdited(after, content, parts, last) ==
  after = [n \in 0..last |-> IF n = 0 THEN content ELSE Replace(parts[n], after[n - 1])]
IsApplied(after, content, changes, last) ==
  after = [n \in 0..last |-> IF n = 0 THEN content ELSE Apply(changes[n], after[n - 1])]

LEMMA EditedExists ==
  ASSUME NEW content, NEW parts, NEW last \in Nat
  PROVE  \E after : IsEdited(after, content, parts, last)
<1> DEFINE T == {n \in Nat : \E after : IsEdited(after, content, parts, n)}
<1>1. 0 \in T
  <2> DEFINE none == [n \in 0..0 |-> content]
  <2>1. IsEdited(none, content, parts, 0)
    BY DEF IsEdited
  <2> HIDE DEF none
  <2> QED
    BY <2>1
<1>2. ASSUME NEW n \in T PROVE n + 1 \in T
  <2>1. PICK after : IsEdited(after, content, parts, n)
    OBVIOUS
  <2> DEFINE more == [m \in 0..(n + 1) |-> IF m = n + 1 THEN Replace(parts[n + 1], after[n]) ELSE after[m]]
  <2>2. n \in Nat
    OBVIOUS
  <2>3. ASSUME NEW m \in 0..(n + 1)
        PROVE  more[m] = IF m = 0 THEN content ELSE Replace(parts[m], more[m - 1])
    <3>1. CASE m = n + 1
      <4>1. more[m] = Replace(parts[m], after[n]) /\ more[m - 1] = after[n] /\ m # 0
        BY <2>2, <3>1
      <4> QED
        BY <4>1
    <3>2. CASE m = 0
      <4>1. more[m] = after[0]
        BY <2>2, <3>2
      <4>2. after[0] = content
        BY <2>1, <2>2 DEF IsEdited
      <4> QED
        BY <3>2, <4>1, <4>2
    <3>3. CASE m \in 1..n
      <4>1. more[m] = after[m] /\ more[m - 1] = after[m - 1] /\ m # 0 /\ m \in 0..n
        BY <2>2, <3>3
      <4>2. after[m] = Replace(parts[m], after[m - 1])
        BY <2>1, <4>1 DEF IsEdited
      <4> QED
        BY <4>1, <4>2
    <3> QED
      BY <2>2, <3>1, <3>2, <3>3
  <2>4. more = [m \in 0..(n + 1) |-> more[m]]
    OBVIOUS
  <2> HIDE DEF more
  <2>5. IsEdited(more, content, parts, n + 1)
    BY <2>3, <2>4 DEF IsEdited
  <2> QED
    BY <2>2, <2>5
<1> HIDE DEF T
<1>3. T \subseteq Nat
  BY DEF T
<1>4. last \in T
  BY <1>1, <1>2, <1>3, SetInduction
<1> QED
  BY <1>4 DEF T

LEMMA EditedComputed ==
  ASSUME NEW content, NEW parts, Len(parts) \in Nat
  PROVE  \E after : IsEdited(after, content, parts, Len(parts)) /\ Edited(content, parts) = after[Len(parts)]
<1> DEFINE P(after) == after = [n \in 0..Len(parts) |-> IF n = 0 THEN content ELSE Replace(parts[n], after[n - 1])]
           computed == CHOOSE after : P(after)
<1>1. \E after : P(after)
  <2>1. \E after : IsEdited(after, content, parts, Len(parts))
    BY EditedExists
  <2> QED
    BY <2>1 DEF IsEdited
<1>2. P(computed)
  BY <1>1, Zenon
<1>3. Edited(content, parts) = computed[Len(parts)]
  BY DEF Edited
<1> HIDE DEF computed
<1>4. IsEdited(computed, content, parts, Len(parts))
  BY <1>2 DEF IsEdited
<1> QED
  BY <1>3, <1>4

LEMMA AppliedExists ==
  ASSUME NEW content, NEW changes, NEW last \in Nat
  PROVE  \E after : IsApplied(after, content, changes, last)
<1> DEFINE T == {n \in Nat : \E after : IsApplied(after, content, changes, n)}
<1>1. 0 \in T
  <2> DEFINE none == [n \in 0..0 |-> content]
  <2>1. IsApplied(none, content, changes, 0)
    BY DEF IsApplied
  <2> HIDE DEF none
  <2> QED
    BY <2>1
<1>2. ASSUME NEW n \in T PROVE n + 1 \in T
  <2>1. PICK after : IsApplied(after, content, changes, n)
    OBVIOUS
  <2> DEFINE more == [m \in 0..(n + 1) |-> IF m = n + 1 THEN Apply(changes[n + 1], after[n]) ELSE after[m]]
  <2>2. n \in Nat
    OBVIOUS
  <2>3. ASSUME NEW m \in 0..(n + 1)
        PROVE  more[m] = IF m = 0 THEN content ELSE Apply(changes[m], more[m - 1])
    <3>1. CASE m = n + 1
      <4>1. more[m] = Apply(changes[m], after[n]) /\ more[m - 1] = after[n] /\ m # 0
        BY <2>2, <3>1
      <4> QED
        BY <4>1
    <3>2. CASE m = 0
      <4>1. more[m] = after[0]
        BY <2>2, <3>2
      <4>2. after[0] = content
        BY <2>1, <2>2 DEF IsApplied
      <4> QED
        BY <3>2, <4>1, <4>2
    <3>3. CASE m \in 1..n
      <4>1. more[m] = after[m] /\ more[m - 1] = after[m - 1] /\ m # 0 /\ m \in 0..n
        BY <2>2, <3>3
      <4>2. after[m] = Apply(changes[m], after[m - 1])
        BY <2>1, <4>1 DEF IsApplied
      <4> QED
        BY <4>1, <4>2
    <3> QED
      BY <2>2, <3>1, <3>2, <3>3
  <2>4. more = [m \in 0..(n + 1) |-> more[m]]
    OBVIOUS
  <2> HIDE DEF more
  <2>5. IsApplied(more, content, changes, n + 1)
    BY <2>3, <2>4 DEF IsApplied
  <2> QED
    BY <2>2, <2>5
<1> HIDE DEF T
<1>3. T \subseteq Nat
  BY DEF T
<1>4. last \in T
  BY <1>1, <1>2, <1>3, SetInduction
<1> QED
  BY <1>4 DEF T

LEMMA AppliedComputed ==
  ASSUME NEW content, NEW changes, Len(changes) \in Nat
  PROVE  \E after : IsApplied(after, content, changes, Len(changes)) /\ applyIncrementalChanges(content, changes) = after[Len(changes)]
<1> DEFINE P(after) == after = [n \in 0..Len(changes) |-> IF n = 0 THEN content ELSE Apply(changes[n], after[n - 1])]
           computed == CHOOSE after : P(after)
<1>1. \E after : P(after)
  <2>1. \E after : IsApplied(after, content, changes, Len(changes))
    BY AppliedExists
  <2> QED
    BY <2>1 DEF IsApplied
<1>2. P(computed)
  BY <1>1, Zenon
<1>3. applyIncrementalChanges(content, changes) = computed[Len(changes)]
  BY DEF applyIncrementalChanges
<1> HIDE DEF computed
<1>4. IsApplied(computed, content, changes, Len(changes))
  BY <1>2 DEF IsApplied
<1> QED
  BY <1>3, <1>4

(* One change among several: the server has seen the ones before it, which lie    *)
(* further on in the text, so that the position the editor took from its text as    *)
(* it was is still the right one.                                            *)
LEMMA NextChange ==
  ASSUME client \in Texts, NEW text \in Texts, NEW part, Replaceable(part, client), Agree(text, client, part.to)
  PROVE  /\ Replace(part, text) \in Texts
         /\ Narrow(client, part.from) /\ Narrow(client, part.to) =>
              Apply(Sent(part), Bytes(text)) = Bytes(Replace(part, text))
         /\ Agree(Replace(part, text), client, part.from)
<1>1. /\ part.from \in 0..Len(text) /\ part.to \in 0..Len(text) /\ part.text \in Texts
      /\ part.from \in 0..part.to /\ part.to \in 0..part.to
      /\ part.from \in 0..Len(client) /\ Len(client) \in Nat /\ Len(text) \in Nat
  BY NewLinesOfAText DEF Replaceable, Agree
<1>2. /\ IndexToPos(part.from, client) = IndexToPos(part.from, text) /\ (Narrow(client, part.from) <=> Narrow(text, part.from))
      /\ IndexToPos(part.to, client) = IndexToPos(part.to, text) /\ (Narrow(client, part.to) <=> Narrow(text, part.to))
  BY <1>1, SamePositions
<1>3. ASSUME Narrow(client, part.from), Narrow(client, part.to)
      PROVE  Apply(Sent(part), Bytes(text)) = Bytes(Replace(part, text))
  <2>1. Apply(Sent(part), Bytes(text)) =
          Splice(Bytes(text), PosToIndex(IndexToPos(part.from, text), Bytes(text)),
                 PosToIndex(IndexToPos(part.to, text), Bytes(text)), Bytes(part.text))
    BY <1>2 DEF Apply, Sent, Change
  <2> QED
    BY <1>1, <1>2, <1>3, <2>1, OneChange DEF Replace
<1>4. Replace(part, text) \in Texts
  BY <1>1, SpliceIsAText DEF Replace
<1>5. Agree(Replace(part, text), client, part.from)
  <2>1. Agree(Replace(part, text), text, part.from)
    BY <1>1, SpliceAgrees DEF Replace
  <2>2. \A i \in 1..part.from : text[i] = client[i]
    BY <1>1 DEF Agree
  <2> QED
    BY <1>1, <2>1, <2>2 DEF Agree
<1> QED
  BY <1>3, <1>4, <1>5

(* Any number of changes.                                                    *)
LEMMA AllChanges ==
  ASSUME client \in Texts, NEW parts, LastFirst(parts, client)
  PROVE  /\ Edited(client, parts) \in Texts
         /\ (\A i \in 1..Len(parts) : ~WideBefore(parts[i].from) /\ ~WideBefore(parts[i].to)) =>
             applyIncrementalChanges(Bytes(client), [i \in DOMAIN parts |-> Sent(parts[i])]) = Bytes(Edited(client, parts))
<1> DEFINE changes == [i \in DOMAIN parts |-> Sent(parts[i])]
           last == Len(parts)
           Clear == \A i \in 1..last : Narrow(client, parts[i].from) /\ Narrow(client, parts[i].to)
<1>1. /\ last \in Nat /\ Len(client) \in Nat /\ DOMAIN changes = 1..last
      /\ \A i \in 1..last : changes[i] = Sent(parts[i]) /\ Replaceable(parts[i], client)
      /\ \A i \in 1..last : i + 1 \in 1..last => parts[i + 1].to <= parts[i].from
  BY NewLinesOfAText DEF LastFirst
<1>2. Len(changes) = last
  <2> HIDE DEF changes, last
  <2> QED
    BY <1>1
<1> HIDE DEF changes
<1>3. PICK edited : IsEdited(edited, client, parts, last) /\ Edited(client, parts) = edited[last]
  BY <1>1, EditedComputed
<1>4. PICK applied : IsApplied(applied, Bytes(client), changes, last)
                       /\ applyIncrementalChanges(Bytes(client), changes) = applied[last]
  BY <1>1, <1>2, AppliedComputed
<1> HIDE DEF last
<1> DEFINE Good(n) ==
             /\ edited[n] \in Texts /\ (Clear => applied[n] = Bytes(edited[n]))
             /\ n + 1 \in 1..last => Agree(edited[n], client, parts[n + 1].to)
           T == {n \in Nat : n <= last => Good(n)}
<1>5. 0 \in T
  <2>1. edited[0] = client /\ applied[0] = Bytes(client)
    BY <1>1, <1>3, <1>4 DEF IsEdited, IsApplied
  <2>2. 0 + 1 \in 1..last => Agree(client, client, parts[0 + 1].to)
    BY <1>1 DEF Agree, Replaceable
  <2> QED
    BY <2>1, <2>2
<1>6. ASSUME NEW n \in T PROVE n + 1 \in T
  <2> SUFFICES ASSUME n + 1 <= last PROVE Good(n + 1)
    OBVIOUS
  <2>1. /\ n \in Nat /\ n + 1 \in 1..last /\ n + 1 \in 0..last /\ n + 1 # 0 /\ (n + 1) - 1 = n /\ n <= last
    BY <1>1
  <2>2. edited[n] \in Texts /\ (Clear => applied[n] = Bytes(edited[n])) /\ Agree(edited[n], client, parts[n + 1].to)
    BY <2>1
  <2>3. edited[n + 1] = Replace(parts[n + 1], edited[n])
    BY <1>3, <2>1 DEF IsEdited
  <2>4. applied[n + 1] = Apply(Sent(parts[n + 1]), applied[n])
    BY <1>1, <1>4, <2>1 DEF IsApplied
  <2>5. /\ Replaceable(parts[n + 1], client)
        /\ Clear => Narrow(client, parts[n + 1].from) /\ Narrow(client, parts[n + 1].to)
    BY <1>1, <2>1
  <2>6. /\ edited[n + 1] \in Texts /\ (Clear => applied[n + 1] = Bytes(edited[n + 1]))
        /\ Agree(edited[n + 1], client, parts[n + 1].from)
    BY <2>2, <2>3, <2>4, <2>5, NextChange
  <2>7. (n + 1) + 1 \in 1..last => Agree(edited[n + 1], client, parts[(n + 1) + 1].to)
    <3> SUFFICES ASSUME (n + 1) + 1 \in 1..last PROVE Agree(edited[n + 1], client, parts[(n + 1) + 1].to)
      OBVIOUS
    <3> DEFINE to == parts[(n + 1) + 1].to
               from == parts[n + 1].from
    <3>1. to <= from /\ to \in Nat
      <4>1. to \in parts[(n + 1) + 1].from..Len(client) /\ parts[(n + 1) + 1].from \in 0..Len(client)
        BY <1>1 DEF Replaceable
      <4> QED
        BY <1>1, <2>1, <4>1
    <3> HIDE DEF to, from
    <3>2. Agree(edited[n + 1], client, to)
      BY <2>6, <3>1 DEF Agree, from
    <3> QED
      BY <3>2 DEF to
  <2> QED
    BY <2>6, <2>7
<1> HIDE DEF T
<1>7. T \subseteq Nat
  BY DEF T
<1>8. last \in T
  BY <1>1, <1>5, <1>6, <1>7, SetInduction
<1>9. Edited(client, parts) \in Texts /\ (Clear => applyIncrementalChanges(Bytes(client), changes) = Bytes(Edited(client, parts)))
  BY <1>1, <1>3, <1>4, <1>8 DEF T
<1>10. (\A i \in 1..last : ~WideBefore(parts[i].from) /\ ~WideBefore(parts[i].to)) => Clear
  BY DEF WideBefore, Narrow
<1> QED
  BY <1>9, <1>10 DEF changes, last

(* Whatever the positions, what the server makes of the changes is a text.        *)
Positions == [line : Nat, character : Nat]
LEMMA ChangesKeepAText ==
  ASSUME NEW content \in Texts, NEW changes, Len(changes) \in Nat,
         \A i \in 1..Len(changes) : /\ changes[i].start \in Positions /\ changes[i].end \in Positions
                                    /\ changes[i].text \in Texts
  PROVE  applyIncrementalChanges(content, changes) \in Texts
<1> DEFINE last == Len(changes)
<1>1. PICK applied : IsApplied(applied, content, changes, last) /\ applyIncrementalChanges(content, changes) = applied[last]
  BY AppliedComputed
<1> DEFINE T == {n \in Nat : n <= last => applied[n] \in Texts}
<1>2. 0 \in T
  BY <1>1 DEF IsApplied
<1>3. ASSUME NEW n \in T PROVE n + 1 \in T
  <2> SUFFICES ASSUME n + 1 <= last PROVE applied[n + 1] \in Texts
    OBVIOUS
  <2>1. n \in Nat /\ n + 1 \in 1..last /\ n + 1 \in 0..last /\ n + 1 # 0 /\ (n + 1) - 1 = n /\ n <= last
    OBVIOUS
  <2> DEFINE change == changes[n + 1]
             text == applied[n]
  <2>2. applied[n + 1] = Apply(change, text)
    BY <1>1, <2>1 DEF IsApplied
  <2>3. text \in Texts /\ change.start \in Positions /\ change.end \in Positions /\ change.text \in Texts
    BY <2>1
  <2> HIDE DEF change, text
  <2>4. /\ PosToIndex(change.start, text) \in 0..Len(text) /\ PosToIndex(change.end, text) \in 0..Len(text)
        /\ Bytes(change.text) \in Texts
    BY <2>3, IndicesAreInTheText, BytesAreAText DEF Positions
  <2> QED
    BY <2>2, <2>3, <2>4, SpliceIsAText DEF Apply
<1> HIDE DEF T
<1>4. T \subseteq Nat
  BY DEF T
<1>5. last \in T
  BY <1>2, <1>3, <1>4, SetInduction
<1> QED
  BY <1>1, <1>5 DEF T
-----------------------------------------------------------------------------
(* What the editor makes of a position.                                       *)
LEMMA LinesEndInTheText ==
  ASSUME NEW text \in Texts, NEW line \in Nat
  PROVE  /\ LineEnd(text, line) \in 0..Len(text) /\ LineStart(text, line) \in 0..Len(text)
         /\ LineStart(text, line) <= LineEnd(text, line)
<1>1. /\ LineStart(text, line) \in 0..Len(text) /\ Len(text) \in Nat
      /\ Cardinality(NewLines(text)) \in Nat /\ NewLines(text) \subseteq 1..Len(text)
  BY LineStartOfALine, NewLinesOfAText
<1>2. CASE line + 1 >= Lines(text)
  BY <1>1, <1>2 DEF LineEnd
<1>3. CASE ~(line + 1 >= Lines(text))
  <2> DEFINE start == LineStart(text, line)
             next == LineStart(text, line + 1)
  <2>1. line + 1 \in Nat /\ 0 < line + 1 /\ line + 1 <= Cardinality(NewLines(text)) /\ line <= Cardinality(NewLines(text))
    BY <1>1, <1>3 DEF Lines
  <2>2. next \in NewLines(text) /\ Cardinality(Before(text, next)) = line + 1
    BY <2>1, LineStartOfALine
  <2>3. line # 0 => start \in NewLines(text) /\ Cardinality(Before(text, start)) = line
    BY <2>1, LineStartOfALine
  <2>4. line = 0 => start = 0
    BY LineStartOfALine
  <2>5. start <= next
    BY <2>1, LinesAreInOrder
  <2>6. start # next
    BY <1>1, <2>2, <2>3, <2>4
  <2>7. LineEnd(text, line) = next - 1
    BY <1>3 DEF LineEnd
  <2> HIDE DEF start, next
  <2>8. next \in 1..Len(text) /\ start \in 0..Len(text)
    BY <1>1, <2>2 DEF start
  <2> QED
    BY <1>1, <2>5, <2>6, <2>7, <2>8 DEF start
<1> QED
  BY <1>2, <1>3

LEMMA ClientIndices ==
  ASSUME NEW text \in Texts, NEW line \in Nat, NEW character \in Nat
  PROVE  /\ ClientIndex(Position(line, character), text) \in 0..Len(text)
         /\ ClientIndex(Position(line, 0), text) = LineStart(text, line)
         /\ \A more \in Nat : ClientIndex(Position(line, character), text) <= ClientIndex(Position(line, character + more), text)
<1> DEFINE start == LineStart(text, line)
           end == LineEnd(text, line)
<1>1. start \in 0..Len(text) /\ end \in 0..Len(text) /\ start <= end /\ Len(text) \in Nat
  BY LinesEndInTheText, NewLinesOfAText
<1>2. \A c : ClientIndex(Position(line, c), text) = IF start + c < end THEN start + c ELSE end
  BY DEF ClientIndex, Position, Smaller
<1> HIDE DEF start, end
<1> QED
  BY <1>1, <1>2 DEF start

(* Indices are in the order of their lines.                                    *)
LEMMA LinesOfIndices ==
  ASSUME NEW text \in Texts, NEW index \in 0..Len(text), NEW further \in 0..Len(text), index <= further
  PROVE  IndexToPos(index, text).line <= IndexToPos(further, text).line
<1>1. \A i \in 0..Len(text) : IndexToPos(i, text).line = Cardinality(Before(text, i))
  <2> SUFFICES ASSUME NEW i \in 0..Len(text) PROVE IndexToPos(i, text).line = Cardinality(Before(text, i))
    OBVIOUS
  <2>1. CASE Before(text, i) = {}
    BY <2>1, PositionOfAnIndex, FS_EmptySet DEF Position
  <2>2. CASE Before(text, i) # {}
    BY <2>2, PositionOfAnIndex DEF Position
  <2> QED
    BY <2>1, <2>2
<1>2. Before(text, index) \subseteq Before(text, further)
  <2>1. \A i \in NewLines(text) : i \in Nat
    BY NewLinesOfAText
  <2>2. index \in Nat /\ further \in Nat
    BY NewLinesOfAText
  <2>3. \A i \in NewLines(text) : i <= index => i <= further
    BY <2>1, <2>2
  <2> QED
    BY <2>3 DEF Before
<1>3. IsFiniteSet(Before(text, further))
  BY FinitelyManyBefore
<1> QED
  BY <1>1, <1>2, <1>3, FS_Subset

LEMMA LeastNatural ==
  ASSUME NEW T, T \subseteq Nat, T # {}
  PROVE  Min(T) \in T /\ \A i \in T : Min(T) <= i
<1> DEFINE R == OpToRel(<, Nat)
<1>1. IsWellFoundedOn(R, Nat)
  BY NatLessThanWellFounded
<1>2. \A i, j \in T : j < i => <<j, i>> \in R
  BY DEF OpToRel
<1>3. ASSUME NEW i \in T, NEW j \in T PROVE i =< j \/ j < i
  <2>1. i \in Nat /\ j \in Nat
    OBVIOUS
  <2> QED
    BY <2>1
<1> HIDE DEF R
<1>4. \E i \in T : \A j \in T : <<j, i>> \notin R
  BY <1>1, WFMin
<1>5. \E i \in T : \A j \in T : i =< j
  BY <1>2, <1>3, <1>4
<1> QED
  BY <1>5 DEF Min
-----------------------------------------------------------------------------
(* Diagnostics that begin no later than they end.                               *)
Diagnosable == Problems \union {"end without start", "start in a range", "start without end"}
Ranges == {d \in [problem : Diagnosable, start : Positions, end : Positions] : d.start.line <= d.end.line}

LEMMA IndicesMakeARange ==
  ASSUME NEW text \in Texts, NEW index \in 0..Len(text), NEW further \in 0..Len(text), index <= further,
         NEW problem \in Diagnosable
  PROVE  Diag(problem, IndexToPos(index, text), IndexToPos(further, text)) \in Ranges
BY LinesOfIndices, PositionsAreOfNaturals DEF Diag, Ranges, Positions

LEMMA OnLineIsARange ==
  ASSUME NEW text \in Texts, NEW line \in Nat, NEW problem \in Diagnosable
  PROVE  OnLine(text, problem, line) \in Ranges
<1> DEFINE end == LineEnd(text, line)
           start == LineStart(text, line)
           marks == {i \in start + 1..end : IsComment(text, i)}
<1>1. end \in 0..Len(text) /\ start \in 0..Len(text) /\ Len(text) \in Nat
  BY LinesEndInTheText, NewLinesOfAText
<1>2. Len(CommentOf(text, line)) \in 0..end
  <2>1. CASE marks = {}
    <3>1. CommentOf(text, line) = <<>>
      BY <2>1 DEF CommentOf
    <3> QED
      BY <1>1, <3>1, EmptySeq
  <2>2. CASE marks # {}
    <3>1. CommentOf(text, line) = SubSeq(text, Min(marks), end)
      BY <2>2 DEF CommentOf
    <3>2. Min(marks) \in marks
      <4>1. \A i \in marks : i \in Nat
        BY <1>1
      <4> HIDE DEF marks
      <4> QED
        BY <2>2, <4>1, LeastNatural
    <3> DEFINE first == Min(marks)
    <3>3. first \in 1..end /\ first \in Int /\ end \in Int
      BY <1>1, <3>2
    <3> HIDE DEF first, end
    <3>4. \A i \in first..end : text[i] \in Characters
      BY <1>1, <3>3, LenProperties DEF Texts
    <3>5. Len(SubSeq(text, first, end)) = IF first <= end THEN end - first + 1 ELSE 0
      BY <3>3, <3>4, SubSeqProperties
    <3> QED
      BY <1>1, <3>1, <3>3, <3>5 DEF first
  <2> QED
    BY <2>1, <2>2
<1> HIDE DEF end
<1>3. end - Len(CommentOf(text, line)) \in 0..Len(text) /\ end - Len(CommentOf(text, line)) <= end
  BY <1>1, <1>2
<1> QED
  BY <1>1, <1>3, IndicesMakeARange DEF OnLine, end

LEMMA FoundAreRanges ==
  ASSUME NEW text \in Texts
  PROVE  Found(text) \subseteq Ranges
<1> SUFFICES ASSUME NEW d \in Found(text) PROVE d \in Ranges
  OBVIOUS
<1> DEFINE EndsAt(i) == {j \in i..Len(text) : text[j] = EndOf[text[i]] /\ ~InComment(text, j)}
           Each(i) == {Diag(text[i], IndexToPos(i - 1, text), IndexToPos(j, text)) : j \in EndsAt(i)}
           problems == {i \in DOMAIN text : text[i] \in Problems /\ ~InComment(text, i)}
<1>1. Found(text) = UNION {Each(i) : i \in problems}
  BY DEF Found
<1>2. PICK i \in problems : d \in Each(i)
  <2> HIDE DEF Each, problems
  <2> QED
    BY <1>1
<1>3. PICK j \in EndsAt(i) : d = Diag(text[i], IndexToPos(i - 1, text), IndexToPos(j, text))
  BY <1>2
<1>4. DOMAIN text = 1..Len(text) /\ Len(text) \in Nat
  BY LenProperties DEF Texts
<1>5. i \in 1..Len(text) /\ text[i] \in Diagnosable
  <2>1. i \in DOMAIN text /\ text[i] \in Problems
    BY <1>2
  <2> QED
    BY <1>4, <2>1 DEF Diagnosable
<1>6. j \in i..Len(text)
  BY <1>3
<1>7. i - 1 \in 0..Len(text) /\ j \in 0..Len(text) /\ i - 1 <= j
  BY <1>4, <1>5, <1>6
<1> QED
  BY <1>3, <1>5, <1>7, IndicesMakeARange
-----------------------------------------------------------------------------
(* What ParseSuppressionComments knows before a line.                            *)
Infos ==
  [wholeFile : BOOLEAN, lines : SUBSET Nat, ranges : SUBSET (Nat \X Nat), open : BOOLEAN, start : Nat,
   errors : SUBSET Ranges]
IsBefore(before, text, last) ==
  before = [line \in 0..last |->
             IF line = 0 THEN NoComments ELSE Comment(before[line - 1], Directive(text, line - 1), text, line - 1)]

LEMMA CommentKeepsInfos ==
  ASSUME NEW info \in Infos, NEW directive, NEW text \in Texts, NEW line \in Nat
  PROVE  Comment(info, directive, text, line) \in Infos
<1>1. info.lines \union {line} \in SUBSET Nat /\ info.lines \union {line + 1} \in SUBSET Nat
  BY DEF Infos
<1>2. info.errors \union {OnLine(text, "start in a range", line)} \in SUBSET Ranges
  <2> DEFINE problem == "start in a range"
  <2>1. problem \in Diagnosable
    BY DEF Diagnosable
  <2> HIDE DEF problem
  <2>2. OnLine(text, problem, line) \in Ranges
    BY <2>1, OnLineIsARange
  <2> QED
    BY <2>2 DEF Infos, problem
<1>3. info.errors \union {OnLine(text, "end without start", line)} \in SUBSET Ranges
  <2> DEFINE problem == "end without start"
  <2>1. problem \in Diagnosable
    BY DEF Diagnosable
  <2> HIDE DEF problem
  <2>2. OnLine(text, problem, line) \in Ranges
    BY <2>1, OnLineIsARange
  <2> QED
    BY <2>2 DEF Infos, problem
<1>4. info.ranges \union {<<info.start, line>>} \in SUBSET (Nat \X Nat)
  BY DEF Infos
<1> HIDE DEF Ranges
<1>5. CASE directive = "ignore-file"
  BY <1>5 DEF Comment, Infos
<1>6. CASE directive = "ignore"
  BY <1>1, <1>6 DEF Comment, Infos
<1>7. CASE directive = "ignore-next-line"
  BY <1>1, <1>7 DEF Comment, Infos
<1>8. CASE directive = "ignore-start"
  BY <1>2, <1>8 DEF Comment, Infos
<1>9. CASE directive = "ignore-end"
  BY <1>3, <1>4, <1>9 DEF Comment, Infos
<1>10. CASE directive \notin {"ignore-file", "ignore", "ignore-next-line", "ignore-start", "ignore-end"}
  BY <1>10 DEF Comment
<1> QED
  BY <1>5, <1>6, <1>7, <1>8, <1>9, <1>10

LEMMA BeforeExists ==
  ASSUME NEW text, NEW last \in Nat
  PROVE  \E before : IsBefore(before, text, last)
<1> DEFINE NextInfo(known, line) == Comment(known, Directive(text, line - 1), text, line - 1)
           T == {n \in Nat : \E before : IsBefore(before, text, n)}
<1>1. 0 \in T
  <2> DEFINE none == [line \in 0..0 |-> NoComments]
  <2>1. IsBefore(none, text, 0)
    BY DEF IsBefore
  <2> HIDE DEF none
  <2> QED
    BY <2>1
<1>2. ASSUME NEW n \in T PROVE n + 1 \in T
  <2>1. PICK before : IsBefore(before, text, n)
    OBVIOUS
  <2> DEFINE more == [line \in 0..(n + 1) |-> IF line = n + 1 THEN NextInfo(before[n], n + 1) ELSE before[line]]
  <2>2. n \in Nat
    OBVIOUS
  <2>3. \A line \in 0..n : before[line] = IF line = 0 THEN NoComments ELSE NextInfo(before[line - 1], line)
    BY <2>1 DEF IsBefore
  <2> HIDE DEF NextInfo
  <2>4. ASSUME NEW line \in 0..(n + 1)
        PROVE  more[line] = IF line = 0 THEN NoComments ELSE NextInfo(more[line - 1], line)
    <3>1. CASE line = n + 1
      <4>1. more[line] = NextInfo(before[n], line) /\ more[line - 1] = before[n] /\ line # 0
        BY <2>2, <3>1
      <4> QED
        BY <4>1
    <3>2. CASE line = 0
      BY <2>2, <2>3, <3>2
    <3>3. CASE line \in 1..n
      <4>1. more[line] = before[line] /\ more[line - 1] = before[line - 1] /\ line # 0 /\ line \in 0..n
        BY <2>2, <3>3
      <4> QED
        BY <2>3, <4>1
    <3> QED
      BY <2>2, <3>1, <3>2, <3>3
  <2>5. more = [line \in 0..(n + 1) |-> more[line]]
    OBVIOUS
  <2> HIDE DEF more
  <2>6. IsBefore(more, text, n + 1)
    BY <2>4, <2>5 DEF IsBefore, NextInfo
  <2> QED
    BY <2>2, <2>6
<1> HIDE DEF T
<1>3. T \subseteq Nat
  BY DEF T
<1>4. last \in T
  BY <1>1, <1>2, <1>3, SetInduction
<1> QED
  BY <1>4 DEF T

LEMMA SuppressionsComputed ==
  ASSUME NEW text, NEW last \in Nat
  PROVE  \E before : IsBefore(before, text, last) /\ SuppressionsBefore(text, last) = before[last]
<1> DEFINE P(before) == before = [line \in 0..last |->
             IF line = 0 THEN NoComments ELSE Comment(before[line - 1], Directive(text, line - 1), text, line - 1)]
           computed == CHOOSE before : P(before)
<1>1. \E before : P(before)
  <2>1. \E before : IsBefore(before, text, last)
    BY BeforeExists
  <2> QED
    BY <2>1 DEF IsBefore
<1>2. P(computed)
  BY <1>1, Zenon
<1>3. SuppressionsBefore(text, last) = computed[last]
  BY DEF SuppressionsBefore
<1> HIDE DEF computed
<1>4. IsBefore(computed, text, last)
  BY <1>2 DEF IsBefore
<1> QED
  BY <1>3, <1>4

LEMMA SuppressionsAreInfos ==
  ASSUME NEW text \in Texts, NEW last \in Nat
  PROVE  SuppressionsBefore(text, last) \in Infos
<1>1. PICK before : IsBefore(before, text, last) /\ SuppressionsBefore(text, last) = before[last]
  BY SuppressionsComputed
<1> DEFINE T == {n \in Nat : n <= last => before[n] \in Infos}
<1>2. 0 \in T
  <2>1. NoComments \in Infos
    BY DEF NoComments, Infos
  <2> QED
    BY <1>1, <2>1 DEF IsBefore
<1>3. ASSUME NEW n \in T PROVE n + 1 \in T
  <2> SUFFICES ASSUME n + 1 <= last PROVE before[n + 1] \in Infos
    OBVIOUS
  <2>1. n \in Nat /\ n + 1 \in 0..last /\ n + 1 # 0 /\ (n + 1) - 1 = n /\ n <= last
    OBVIOUS
  <2>2. before[n + 1] = Comment(before[n], Directive(text, n), text, n)
    BY <1>1, <2>1 DEF IsBefore
  <2> QED
    BY <2>1, <2>2, CommentKeepsInfos
<1> HIDE DEF T
<1>4. T \subseteq Nat
  BY DEF T
<1>5. last \in T
  BY <1>2, <1>3, <1>4, SetInduction
<1> QED
  BY <1>1, <1>5 DEF T

(* What is published is a range of the text, with an indent that is a text.        *)
LEMMA DiagnosticsAreRanges ==
  ASSUME NEW text \in Texts
  PROVE  DiagnosticYAML(text) \subseteq Ranges
<1> DEFINE info == SuppressionsBefore(text, Lines(text))
           unclosed == Diag("start without end", Position(info.start, 0), Position(info.start, 100))
<1>1. Lines(text) \in Nat
  BY NewLinesOfAText DEF Lines
<1>2. info \in Infos
  BY <1>1, SuppressionsAreInfos
<1> HIDE DEF info
<1>3. unclosed \in Ranges
  <2> DEFINE problem == "start without end"
  <2>1. problem \in Diagnosable
    BY DEF Diagnosable
  <2> HIDE DEF problem
  <2>2. info.start \in Nat
    BY <1>2 DEF Infos
  <2>3. Diag(problem, Position(info.start, 0), Position(info.start, 100)) \in Ranges
    BY <2>1, <2>2 DEF Diag, Position, Ranges, Positions
  <2> QED
    BY <2>3 DEF problem
<1>4. ParseSuppressionComments(text).errors \subseteq Ranges
  <2>1. info.errors \subseteq Ranges
    BY <1>2 DEF Infos
  <2>2. ~info.open => ParseSuppressionComments(text) = info
    BY DEF ParseSuppressionComments, info
  <2>3. info.open => ParseSuppressionComments(text) = [info EXCEPT !.errors = @ \union {unclosed}]
    BY DEF ParseSuppressionComments, info
  <2> HIDE DEF unclosed
  <2>4. info.open => ParseSuppressionComments(text).errors = info.errors \union {unclosed}
    BY <1>2, <2>3 DEF Infos
  <2> QED
    BY <1>3, <2>1, <2>2, <2>4
<1> QED
  BY <1>4, FoundAreRanges DEF DiagnosticYAML

LEMMA PartIsAText ==
  ASSUME NEW text \in Texts, NEW from \in 1..Len(text) + 1, NEW to \in 0..Len(text)
  PROVE  SubSeq(text, from, to) \in Texts
<1>1. Len(text) \in Nat /\ from \in Int /\ to \in Int /\ \A i \in 1..Len(text) : text[i] \in Characters
  BY LenProperties DEF Texts
<1>2. \A i \in from..to : text[i] \in Characters
  BY <1>1
<1> QED
  BY <1>1, <1>2, SubSeqProperties DEF Texts

(* The indent of a line.                                                       *)
Indents == Seq({Indent})
Beginnings == Indents \union {<<Script>>}

LEMMA IndentsAreIndents ==
  ASSUME NEW text \in Texts, NEW line \in Nat
  PROVE  /\ IndentOf(text, line) \in Beginnings
         /\ ~ScriptLine(text, line) => IndentOf(text, line) \in Indents
<1> DEFINE content == SubSeq(text, LineStart(text, line) + 1, LineEnd(text, line))
           code == {i \in DOMAIN content : content[i] # Indent}
<1>1. content \in Texts
  <2>1. LineStart(text, line) + 1 \in 1..Len(text) + 1 /\ LineEnd(text, line) \in 0..Len(text)
    <3>1. LineStart(text, line) \in 0..Len(text) /\ LineEnd(text, line) \in 0..Len(text) /\ Len(text) \in Nat
      BY LinesEndInTheText, NewLinesOfAText
    <3> QED
      BY <3>1
  <2> QED
    BY <2>1, PartIsAText
<1>2. /\ ScriptLine(text, line) => IndentOf(text, line) = <<Script>>
      /\ ~ScriptLine(text, line) /\ code = {} => IndentOf(text, line) = content
      /\ ~ScriptLine(text, line) /\ code # {} => IndentOf(text, line) = SubSeq(content, 1, Min(code) - 1)
  BY DEF IndentOf
<1> HIDE DEF content
<1>3. DOMAIN content = 1..Len(content) /\ Len(content) \in Nat /\ content \in [1..Len(content) -> Characters]
  BY <1>1, LenProperties DEF Texts
<1>4. ASSUME code = {} PROVE content \in Indents
  <2>1. \A i \in 1..Len(content) : content[i] \in {Indent}
    BY <1>3, <1>4
  <2>2. content \in [1..Len(content) -> {Indent}]
    BY <1>3, <2>1
  <2> QED
    BY <1>3, <2>2, SeqDef DEF Indents
<1>5. ASSUME code # {} PROVE SubSeq(content, 1, Min(code) - 1) \in Indents
  <2>1. code \subseteq Nat /\ \A i \in code : i \in 1..Len(content)
    BY <1>3
  <2>2. \A i \in 1..Len(content) : i \notin code => content[i] = Indent
    BY <1>3
  <2> HIDE DEF code
  <2>3. Min(code) \in code /\ \A i \in code : Min(code) <= i
    BY <1>5, <2>1, LeastNatural
  <2> DEFINE least == Min(code)
  <2>4. least \in code /\ \A i \in code : least <= i
    BY <2>3
  <2> HIDE DEF least
  <2>5. least - 1 \in Int /\ \A i \in 1..least - 1 : i \in 1..Len(content) /\ i \notin code
    <3>1. least \in 1..Len(content)
      BY <2>1, <2>4
    <3>2. \A i \in 1..least - 1 : i \in 1..Len(content) /\ ~(least <= i)
      BY <1>3, <3>1
    <3> QED
      BY <2>4, <3>1, <3>2
  <2>6. \A i \in 1..least - 1 : content[i] \in {Indent}
    BY <2>2, <2>5
  <2>7. SubSeq(content, 1, least - 1) \in Indents
    BY <1>1, <2>5, <2>6, SubSeqProperties DEF Indents, Texts
  <2> QED
    BY <2>7 DEF least
<1> QED
  BY <1>2, <1>4, <1>5 DEF Beginnings

LEMMA IndentsAreTexts == Indents \subseteq Texts /\ Beginnings \subseteq Texts
<1>1. Indents \subseteq Texts
  BY KnownCharacters, SeqMonotonic DEF Indents, Texts
<1>2. <<Script>> \in Texts
  <2>1. Script \in Characters
    BY KnownCharacters
  <2> QED
    BY <2>1 DEF Texts
<1> QED
  BY <1>1, <1>2 DEF Beginnings
-----------------------------------------------------------------------------
(* The inductive invariant: both texts are texts, the server's is the editor's in  *)
(* bytes unless it has misread a column, and what is published are ranges with an   *)
(* indent.                                                                  *)
PublishedInv == \A p \in published : p.diagnostic \in Ranges /\ p.indent \in Texts
TextInv == client \in Texts /\ server \in Texts /\ TextAgrees /\ PublishedInv

LEMMA TextInvInit == SuppressionInit => TextInv
<1> SUFFICES ASSUME SuppressionInit PROVE TextInv
  OBVIOUS
<1>1. client \in Documents /\ server = Bytes(client) /\ published = {}
  BY DEF SuppressionInit, TextInit
<1>2. client \in Texts
  BY <1>1, DocumentsAssumption, KnownCharacters, SeqMonotonic DEF Texts
<1> QED
  BY <1>1, <1>2, BytesAreAText DEF TextInv, TextAgrees, PublishedInv

(* A change of one part of the text, or of several from the last to the first.     *)
LEMMA DidChangeKeepsTheTexts ==
  ASSUME TextInv, ~misread, NEW parts, LastFirst(parts, client), DidChange(parts)
  PROVE  client' \in Texts /\ server' \in Texts /\ TextAgrees'
<1> DEFINE changes == [i \in DOMAIN parts |-> Sent(parts[i])]
<1>1. client \in Texts /\ server = Bytes(client) /\ server \in Texts
  BY DEF TextInv, TextAgrees
<1>2. /\ client' = Edited(client, parts) /\ server' = applyIncrementalChanges(server, changes)
      /\ misread' = \E i \in DOMAIN parts : WideBefore(parts[i].from) \/ WideBefore(parts[i].to)
  BY DEF DidChange
<1>3. client' \in Texts
  BY <1>1, <1>2, AllChanges
<1>4. server' \in Texts
  <2>1. DOMAIN changes = 1..Len(parts) /\ Len(parts) \in Nat /\ \A i \in 1..Len(parts) : changes[i] = Sent(parts[i])
    BY DEF LastFirst
  <2>2. \A i \in 1..Len(parts) : /\ changes[i].start \in Positions /\ changes[i].end \in Positions
                                 /\ changes[i].text \in Texts
    <3> SUFFICES ASSUME NEW i \in 1..Len(parts)
                 PROVE  /\ Sent(parts[i]).start \in Positions /\ Sent(parts[i]).end \in Positions
                        /\ Sent(parts[i]).text \in Texts
      BY <2>1
    <3>1. parts[i].from \in 0..Len(client) /\ parts[i].to \in 0..Len(client) /\ parts[i].text \in Texts
      BY <1>1, NewLinesOfAText DEF LastFirst, Replaceable
    <3>2. IndexToPos(parts[i].from, client) \in Positions /\ IndexToPos(parts[i].to, client) \in Positions
      BY <1>1, <3>1, PositionsAreOfNaturals DEF Positions
    <3> QED
      BY <3>1, <3>2 DEF Sent, Change
  <2> HIDE DEF changes
  <2>3. Len(changes) = Len(parts)
    BY <2>1
  <2> QED
    BY <1>1, <1>2, <2>1, <2>2, <2>3, ChangesKeepAText
<1>5. TextAgrees'
  <2> SUFFICES ASSUME ~misread' PROVE server' = Bytes(client')
    BY DEF TextAgrees
  <2>1. \A i \in 1..Len(parts) : ~WideBefore(parts[i].from) /\ ~WideBefore(parts[i].to)
    BY <1>2 DEF LastFirst
  <2>2. applyIncrementalChanges(Bytes(client), changes) = Bytes(Edited(client, parts))
    BY <1>1, <2>1, AllChanges
  <2> QED
    BY <1>1, <1>2, <2>2
<1> QED
  BY <1>3, <1>4, <1>5

LEMMA OnePartIsLastFirst ==
  ASSUME NEW from, NEW to, NEW new, NEW text, Replaceable(Part(from, to, new), text)
  PROVE  LastFirst(<<Part(from, to, new)>>, text)
BY DEF LastFirst

LEMMA UserTypesKeepsTextInv ==
  ASSUME TextInv, NEW from \in 0..Len(client), NEW to, to = from \/ to = from + 1, NEW text \in Texts,
         UserTypes(from, to, text)
  PROVE  TextInv'
<1>1. client \in Texts /\ Len(client) \in Nat
  BY NewLinesOfAText DEF TextInv
<1>2. ~misread /\ to <= Len(client) /\ DidChange(<<Part(from, to, text)>>) /\ published' = published
  BY DEF UserTypes, Type
<1>3. Replaceable(Part(from, to, text), client)
  BY <1>1, <1>2 DEF Replaceable, Part
<1>4. client' \in Texts /\ server' \in Texts /\ TextAgrees'
  BY <1>2, <1>3, OnePartIsLastFirst, DidChangeKeepsTheTexts
<1> QED
  BY <1>2, <1>4 DEF TextInv, PublishedInv

(* The part of the text that an edit of an action is carried out on.               *)
PartOf(edit) == Part(ClientIndex(edit.start, client), ClientIndex(edit.end, client), edit.text)

LEMMA OneEditIsLastFirst ==
  ASSUME NEW edit, Replaceable(PartOf(edit), client)
  PROVE  LastFirst([i \in DOMAIN <<edit>> |-> PartOf(<<edit>>[i])], client)
<1> DEFINE parts == [i \in DOMAIN <<edit>> |-> PartOf(<<edit>>[i])]
<1>1. DOMAIN parts = 1..1 /\ parts[1] = PartOf(edit)
  OBVIOUS
<1> HIDE DEF parts
<1>2. Len(parts) = 1
  BY <1>1
<1> QED
  BY <1>1, <1>2 DEF LastFirst, parts

LEMMA TwoEditsAreLastFirst ==
  ASSUME NEW edit, NEW other, Replaceable(PartOf(edit), client), Replaceable(PartOf(other), client),
         PartOf(other).to <= PartOf(edit).from
  PROVE  LastFirst([i \in DOMAIN <<edit, other>> |-> PartOf(<<edit, other>>[i])], client)
<1> DEFINE parts == [i \in DOMAIN <<edit, other>> |-> PartOf(<<edit, other>>[i])]
<1>1. DOMAIN parts = 1..2 /\ parts[1] = PartOf(edit) /\ parts[2] = PartOf(other)
  OBVIOUS
<1> HIDE DEF parts
<1>2. Len(parts) = 2
  BY <1>1
<1> QED
  BY <1>1, <1>2 DEF LastFirst, parts

LEMMA InsertIsReplaceable ==
  ASSUME client \in Texts, NEW line \in Nat, NEW text \in Texts
  PROVE  /\ Replaceable(PartOf(Insert(line, text)), client)
         /\ PartOf(Insert(line, text)).from = LineStart(client, line)
         /\ PartOf(Insert(line, text)).to = LineStart(client, line)
<1>1. PartOf(Insert(line, text)) = Part(LineStart(client, line), LineStart(client, line), text)
  BY ClientIndices DEF PartOf, Insert, Change
<1>2. LineStart(client, line) \in 0..Len(client) /\ Len(client) \in Nat
  BY LineStartOfALine, NewLinesOfAText
<1> QED
  BY <1>1, <1>2 DEF Replaceable, Part

LEMMA CommentsAreTexts ==
  ASSUME NEW indent \in Texts, NEW comment \in Comments
  PROVE  <<comment>> \in Texts /\ <<comment, NewLine>> \in Texts /\ indent \o <<comment, NewLine>> \in Texts
<1>1. comment \in Characters /\ NewLine \in Characters
  BY KnownCharacters
<1>2. <<comment>> \in Texts /\ <<comment, NewLine>> \in Texts
  BY <1>1 DEF Texts
<1> QED
  BY <1>2, ConcatProperties DEF Texts

(* The edits of an action are parts of the text from the last to the first,        *)
(* wherever the text has gone since its diagnostic.                             *)
LEMMA ActionsEditLastFirst ==
  ASSUME TextInv, NEW p \in published, NEW kind \in Kinds
  PROVE  LastFirst([i \in DOMAIN EditsOf(p, kind) |-> PartOf(EditsOf(p, kind)[i])], client)
<1> DEFINE first == p.diagnostic.start
           last == p.diagnostic.end
<1>1. /\ client \in Texts /\ Len(client) \in Nat /\ p.indent \in Texts
      /\ first.line \in Nat /\ last.line \in Nat /\ last.character \in Nat /\ first.line <= last.line
  BY NewLinesOfAText DEF TextInv, PublishedInv, Ranges, Positions
<1>2. \A comment \in Comments : /\ <<comment>> \in Texts /\ <<comment, NewLine>> \in Texts
                                /\ p.indent \o <<comment, NewLine>> \in Texts
  BY <1>1, CommentsAreTexts
<1>3. CASE kind = "next line"
  <2> DEFINE edit == Insert(first.line, p.indent \o <<"ignore-next-line", NewLine>>)
  <2>1. EditsOf(p, kind) = <<edit>>
    BY <1>3 DEF EditsOf
  <2>2. Replaceable(PartOf(edit), client)
    <3>1. p.indent \o <<"ignore-next-line", NewLine>> \in Texts
      BY <1>2 DEF Comments
    <3> HIDE DEF first
    <3> QED
      BY <1>1, <3>1, InsertIsReplaceable
  <2> HIDE DEF edit
  <2> QED
    BY <2>1, <2>2, OneEditIsLastFirst
<1>4. CASE kind = "file"
  <2> DEFINE edit == Insert(0, <<"ignore-file", NewLine>>)
  <2>1. EditsOf(p, kind) = <<edit>>
    BY <1>4 DEF EditsOf
  <2>2. Replaceable(PartOf(edit), client)
    <3>1. <<"ignore-file", NewLine>> \in Texts
      BY <1>2 DEF Comments
    <3> QED
      BY <1>1, <3>1, InsertIsReplaceable
  <2> HIDE DEF edit
  <2> QED
    BY <2>1, <2>2, OneEditIsLastFirst
<1>5. CASE kind = "inline"
  <2> DEFINE column == last.character + 1
             edit == Change(Position(first.line, column), Position(first.line, column + Overwritten), <<"ignore">>)
  <2>1. EditsOf(p, kind) = <<edit>>
    BY <1>5 DEF EditsOf
  <2>2. Replaceable(PartOf(edit), client)
    <3>1. <<"ignore">> \in Texts
      BY <1>2 DEF Comments
    <3>2. column \in Nat /\ column + Overwritten \in Nat
      <4>1. last.character \in Nat /\ Overwritten \in Nat
        BY <1>1, OverwrittenAssumption
      <4> HIDE DEF first, last
      <4> QED
        BY <4>1
    <3> DEFINE from == ClientIndex(Position(first.line, column), client)
               to == ClientIndex(Position(first.line, column + Overwritten), client)
               text == <<"ignore">>
    <3> HIDE DEF first, column
    <3>3. from \in 0..Len(client) /\ to \in 0..Len(client) /\ from <= to
      BY <1>1, <3>2, OverwrittenAssumption, ClientIndices
    <3>4. PartOf(edit) = Part(from, to, text)
      BY DEF PartOf, Change
    <3> HIDE DEF from, to, text, edit
    <3>5. Replaceable(Part(from, to, text), client)
      BY <1>1, <3>1, <3>3 DEF Replaceable, Part, text
    <3> QED
      BY <3>4, <3>5
  <2> HIDE DEF edit
  <2> QED
    BY <2>1, <2>2, OneEditIsLastFirst
<1>6. CASE kind = "range"
  <2> DEFINE edit == Insert(last.line + 1, p.indent \o <<"ignore-end", NewLine>>)
             other == Insert(first.line, p.indent \o <<"ignore-start", NewLine>>)
  <2>1. EditsOf(p, kind) = <<edit, other>>
    BY <1>6 DEF EditsOf
  <2>2. p.indent \o <<"ignore-end", NewLine>> \in Texts /\ p.indent \o <<"ignore-start", NewLine>> \in Texts
    BY <1>2 DEF Comments
  <2>3. last.line + 1 \in Nat /\ first.line <= last.line + 1
    BY <1>1
  <2> HIDE DEF first, last
  <2>4. Replaceable(PartOf(edit), client) /\ PartOf(edit).from = LineStart(client, last.line + 1)
    BY <1>1, <2>2, <2>3, InsertIsReplaceable
  <2>5. Replaceable(PartOf(other), client) /\ PartOf(other).to = LineStart(client, first.line)
    BY <1>1, <2>2, InsertIsReplaceable
  <2>6. LineStart(client, first.line) <= LineStart(client, last.line + 1)
    BY <1>1, <2>3, LinesAreInOrder
  <2> HIDE DEF edit, other
  <2> QED
    BY <2>1, <2>4, <2>5, <2>6, TwoEditsAreLastFirst
<1> QED
  BY <1>3, <1>4, <1>5, <1>6 DEF Kinds

LEMMA TakeActionKeepsTextInv ==
  ASSUME TextInv, NEW p \in published, NEW kind \in Kinds, TakeAction(p, kind)
  PROVE  TextInv'
<1> DEFINE parts == [i \in DOMAIN EditsOf(p, kind) |-> PartOf(EditsOf(p, kind)[i])]
<1>1. ~misread /\ published' = published /\ DidChange(parts)
  BY DEF TakeAction, PartOf
<1>2. LastFirst(parts, client)
  BY ActionsEditLastFirst
<1> HIDE DEF parts
<1>3. client' \in Texts /\ server' \in Texts /\ TextAgrees'
  BY <1>1, <1>2, DidChangeKeepsTheTexts
<1> QED
  BY <1>1, <1>3 DEF TextInv, PublishedInv

LEMMA PublishKeepsTextInv ==
  ASSUME TextInv, Publish
  PROVE  TextInv'
<1>1. /\ client' = client /\ server' = server /\ misread' = misread
      /\ published' = {WithActions(d, server) : d \in DiagnosticYAML(server)}
  BY DEF Publish, textVars
<1>2. PublishedInv'
  <2> SUFFICES ASSUME NEW d \in DiagnosticYAML(server)
               PROVE  WithActions(d, server).diagnostic \in Ranges /\ WithActions(d, server).indent \in Texts
    BY <1>1 DEF PublishedInv
  <2>1. server \in Texts /\ d \in Ranges
    BY DiagnosticsAreRanges DEF TextInv
  <2>2. d.start.line \in Nat
    BY <2>1 DEF Ranges, Positions
  <2>3. IndentOf(server, d.start.line) \in Texts
    BY <2>1, <2>2, IndentsAreIndents, IndentsAreTexts
  <2> QED
    BY <2>1, <2>3 DEF WithActions
<1> QED
  BY <1>1, <1>2 DEF TextInv, TextAgrees

(* Every step keeps the invariant.                                            *)
LEMMA TextInvStep == TextInv /\ [SuppressionNext]_suppressionVars => TextInv'
<1> SUFFICES ASSUME TextInv, [SuppressionNext]_suppressionVars PROVE TextInv'
  OBVIOUS
<1>1. ASSUME Publish PROVE TextInv'
  BY <1>1, PublishKeepsTextInv
<1>2. ASSUME NEW from \in 0..Len(client), NEW text \in {<<>>} \union {<<c>> : c \in Typed},
             UserTypes(from, IF text = <<>> THEN from + 1 ELSE from, text)
      PROVE  TextInv'
  <2>1. text \in Texts
    <3>1. \A c \in Characters : <<c>> \in Texts
      BY DEF Texts
    <3>2. <<>> \in Texts
      BY EmptySeq DEF Texts
    <3> QED
      BY <3>1, <3>2, KnownCharacters
  <2> DEFINE to == IF text = <<>> THEN from + 1 ELSE from
  <2>2. to = from \/ to = from + 1
    OBVIOUS
  <2>3. UserTypes(from, to, text)
    BY <1>2
  <2> HIDE DEF to
  <2> QED
    BY <2>1, <2>2, <2>3, UserTypesKeepsTextInv
<1>3. ASSUME NEW p \in published, NEW kind \in Kinds, TakeAction(p, kind) PROVE TextInv'
  BY <1>3, TakeActionKeepsTextInv
<1>4. ASSUME UNCHANGED suppressionVars PROVE TextInv'
  BY <1>4 DEF suppressionVars, textVars, TextInv, TextAgrees, PublishedInv
<1> QED
  BY <1>1, <1>2, <1>3, <1>4 DEF SuppressionNext

LEMMA TextInvAlways == SuppressionSpec => []TextInv
BY TextInvInit, TextInvStep, PTL DEF SuppressionSpec

(* The cached text is the editor's in bytes, after any number of edits, typed or    *)
(* of actions that came with diagnostics old or new, as long as no change lay       *)
(* behind a wide character of its line (applyIncrementalChanges).                  *)
THEOREM TextsAgree == SuppressionSpec => []TextAgrees
<1>1. TextInv => TextAgrees
  BY DEF TextInv
<1> QED
  BY <1>1, TextInvAlways, PTL

(* Every offset of the cached text, whether or not the two agree, is the one that   *)
(* PosToIndex finds for the position IndexToPos gives it.                         *)
THEOREM OffsetsRoundTrip == SuppressionSpec => []PositionsRoundTrip
<1>1. TextInv => PositionsRoundTrip
  BY RoundTrip DEF TextInv, PositionsRoundTrip
<1> QED
  BY <1>1, TextInvAlways, PTL
-----------------------------------------------------------------------------
(* The line an offset is on: the new lines up to it.                              *)
LineAt(text, index) == Cardinality(Before(text, index))

LEMMA LineOfAnIndex ==
  ASSUME NEW text \in Texts, NEW index \in 0..Len(text)
  PROVE  IndexToPos(index, text).line = LineAt(text, index)
<1>1. CASE Before(text, index) = {}
  BY <1>1, PositionOfAnIndex, FS_EmptySet DEF LineAt, Position
<1>2. CASE Before(text, index) # {}
  BY <1>2, PositionOfAnIndex DEF LineAt, Position
<1> QED
  BY <1>1, <1>2

LEMMA NextLineAt ==
  ASSUME NEW text \in Texts
  PROVE  /\ LineAt(text, 0) = 0
         /\ \A index : LineAt(text, index) \in Nat
         /\ LineAt(text, Len(text)) = Cardinality(NewLines(text))
         /\ \A index \in 0..Len(text) : index + 1 \in 1..Len(text) =>
              LineAt(text, index + 1) = IF text[index + 1] = NewLine THEN LineAt(text, index) + 1 ELSE LineAt(text, index)
<1>1. NewLines(text) \subseteq 1..Len(text) /\ Len(text) \in Nat
  BY NewLinesOfAText
<1>2. Before(text, 0) = {} /\ Before(text, Len(text)) = NewLines(text)
  BY <1>1 DEF Before
<1>3. ASSUME NEW index \in 0..Len(text), index + 1 \in 1..Len(text)
      PROVE  LineAt(text, index + 1) = IF text[index + 1] = NewLine THEN LineAt(text, index) + 1 ELSE LineAt(text, index)
  <2>0. IsFiniteSet(Before(text, index))
    BY FinitelyManyBefore
  <2>1. IsFiniteSet(Before(text, index)) /\ index + 1 \notin Before(text, index)
    BY <1>1, <2>0 DEF Before
  <2>2. DOMAIN text = 1..Len(text)
    BY LenProperties DEF Texts
  <2>3. CASE text[index + 1] = NewLine
    <3>1. Before(text, index + 1) = Before(text, index) \union {index + 1}
      BY <1>1, <1>3, <2>2, <2>3 DEF Before, NewLines
    <3> QED
      BY <2>1, <2>3, <3>1, FS_AddElement DEF LineAt
  <2>4. CASE text[index + 1] # NewLine
    <3>1. Before(text, index + 1) = Before(text, index)
      BY <1>1, <2>4 DEF Before, NewLines
    <3> QED
      BY <2>4, <3>1 DEF LineAt
  <2> QED
    BY <2>3, <2>4
<1> QED
  BY <1>2, <1>3, FinitelyManyBefore, FS_EmptySet DEF LineAt

LEMMA LinesGrow ==
  ASSUME NEW text \in Texts, NEW index \in 0..Len(text), NEW further \in 0..Len(text), index <= further
  PROVE  LineAt(text, index) <= LineAt(text, further)
<1>0. NewLines(text) \subseteq 1..Len(text) /\ Len(text) \in Nat
  BY NewLinesOfAText
<1>1. Before(text, index) \subseteq Before(text, further)
  BY <1>0 DEF Before
<1>2. IsFiniteSet(Before(text, further))
  BY FinitelyManyBefore
<1> QED
  BY <1>1, <1>2, FS_Subset DEF LineAt

(* A line begins at the front of the text or behind a new line, and ends at the      *)
(* end of the text or before one.                                              *)
IsStart(text, index) == index = 0 \/ text[index] = NewLine
IsEnd(text, index) == index = Len(text) \/ text[index + 1] = NewLine

LEMMA StartsOfLines ==
  ASSUME NEW text \in Texts
  PROVE  /\ \A index \in 0..Len(text) : IsStart(text, index) => LineStart(text, LineAt(text, index)) = index
         /\ \A line \in 0..Lines(text) - 1 :
              /\ LineStart(text, line) \in 0..Len(text)
              /\ IsStart(text, LineStart(text, line)) /\ LineAt(text, LineStart(text, line)) = line
<1>1. NewLines(text) \subseteq 1..Len(text) /\ Len(text) \in Nat /\ Cardinality(NewLines(text)) \in Nat
  BY NewLinesOfAText
<1>2. ASSUME NEW index \in 0..Len(text), IsStart(text, index)
      PROVE  LineStart(text, LineAt(text, index)) = index
  <2>1. CASE index = 0
    BY <2>1, NextLineAt, FirstLineStart
  <2>2. CASE index # 0
    <3>1. index \in NewLines(text)
      BY <1>1, <1>2, <2>2, LenProperties DEF IsStart, NewLines, Texts
    <3> QED
      BY <3>1, LineStartsBehindItsNewLine DEF LineAt
  <2> QED
    BY <2>1, <2>2
<1>3. ASSUME NEW line \in 0..Lines(text) - 1
      PROVE  /\ LineStart(text, line) \in 0..Len(text)
             /\ IsStart(text, LineStart(text, line)) /\ LineAt(text, LineStart(text, line)) = line
  <2>1. line \in Nat /\ line <= Cardinality(NewLines(text))
    BY <1>1 DEF Lines
  <2>2. CASE line = 0
    BY <2>1, <2>2, LineStartOfALine, NextLineAt DEF IsStart
  <2>3. CASE line # 0
    BY <2>1, <2>3, LineStartOfALine DEF IsStart, LineAt, NewLines
  <2> QED
    BY <2>2, <2>3
<1> QED
  BY <1>2, <1>3

LEMMA EndsOfLines ==
  ASSUME NEW text \in Texts
  PROVE  /\ \A index \in 0..Len(text) : IsEnd(text, index) => LineEnd(text, LineAt(text, index)) = index
         /\ \A line \in 0..Lines(text) - 1 :
              /\ LineEnd(text, line) \in 0..Len(text)
              /\ IsEnd(text, LineEnd(text, line)) /\ LineAt(text, LineEnd(text, line)) = line
<1>1. /\ NewLines(text) \subseteq 1..Len(text) /\ Len(text) \in Nat /\ Cardinality(NewLines(text)) \in Nat
      /\ LineAt(text, Len(text)) = Cardinality(NewLines(text))
  BY NewLinesOfAText, NextLineAt
<1>2. ASSUME NEW index \in 0..Len(text), IsEnd(text, index)
      PROVE  LineEnd(text, LineAt(text, index)) = index
  <2>1. CASE index = Len(text)
    BY <1>1, <2>1 DEF LineEnd, Lines
  <2>2. CASE index # Len(text)
    <3>1. index + 1 \in 1..Len(text) /\ index + 1 \in 0..Len(text) /\ text[index + 1] = NewLine
      BY <1>1, <1>2, <2>2 DEF IsEnd
    <3>2. LineAt(text, index + 1) = LineAt(text, index) + 1 /\ LineAt(text, index) \in Nat
      BY <3>1, NextLineAt
    <3>3. LineStart(text, LineAt(text, index) + 1) = index + 1
      BY <3>1, <3>2, StartsOfLines DEF IsStart
    <3>4. LineAt(text, index + 1) <= Cardinality(NewLines(text))
      BY <1>1, <3>1, LinesGrow
    <3> QED
      BY <1>1, <3>2, <3>3, <3>4 DEF LineEnd, Lines
  <2> QED
    BY <2>1, <2>2
<1>3. ASSUME NEW line \in 0..Lines(text) - 1
      PROVE  /\ LineEnd(text, line) \in 0..Len(text)
             /\ IsEnd(text, LineEnd(text, line)) /\ LineAt(text, LineEnd(text, line)) = line
  <2>1. line \in Nat /\ line <= Cardinality(NewLines(text))
    BY <1>1 DEF Lines
  <2>2. CASE line + 1 >= Lines(text)
    BY <1>1, <2>1, <2>2 DEF LineEnd, Lines, IsEnd
  <2>3. CASE ~(line + 1 >= Lines(text))
    <3> DEFINE next == LineStart(text, line + 1)
    <3>1. line + 1 \in 0..Lines(text) - 1 /\ line + 1 \in Nat /\ 0 < line + 1 /\ line + 1 <= Cardinality(NewLines(text))
      BY <1>1, <2>1, <2>3 DEF Lines
    <3>2. next \in NewLines(text) /\ LineAt(text, next) = line + 1
      BY <3>1, LineStartOfALine DEF LineAt
    <3>3. LineEnd(text, line) = next - 1
      BY <2>3 DEF LineEnd
    <3> HIDE DEF next
    <3>4. next \in 1..Len(text) /\ next - 1 \in 0..Len(text) /\ (next - 1) + 1 = next /\ text[next] = NewLine
      BY <1>1, <3>2 DEF NewLines
    <3>5. LineAt(text, next) = LineAt(text, next - 1) + 1 /\ LineAt(text, next - 1) \in Nat
      BY <3>4, NextLineAt
    <3> QED
      BY <2>1, <3>2, <3>3, <3>4, <3>5 DEF IsEnd
  <2> QED
    BY <2>2, <2>3
<1> QED
  BY <1>2, <1>3

(* What is on a line: the offsets from its start to its end.                        *)
LEMMA OnTheLine ==
  ASSUME NEW text \in Texts, NEW line \in 0..Lines(text) - 1
  PROVE  /\ LineStart(text, line) <= LineEnd(text, line)
         /\ \A index \in 0..Len(text) :
              LineAt(text, index) = line <=> LineStart(text, line) <= index /\ index <= LineEnd(text, line)
         /\ \A index \in LineStart(text, line) + 1 .. LineEnd(text, line) : text[index] # NewLine
<1> DEFINE start == LineStart(text, line)
           end == LineEnd(text, line)
<1>0. Len(text) \in Nat /\ Cardinality(NewLines(text)) \in Nat
  BY NewLinesOfAText
<1>1. line \in Nat /\ start \in 0..Len(text) /\ end \in 0..Len(text) /\ start <= end
  BY <1>0, LinesEndInTheText DEF Lines
<1>2. IsStart(text, start) /\ LineAt(text, start) = line /\ IsEnd(text, end) /\ LineAt(text, end) = line
  BY StartsOfLines, EndsOfLines
<1> HIDE DEF start, end
<1>3. ASSUME NEW index \in 0..Len(text), start <= index, index <= end PROVE LineAt(text, index) = line
  <2>1. line <= LineAt(text, index) /\ LineAt(text, index) <= line /\ LineAt(text, index) \in Nat
    BY <1>1, <1>2, <1>3, LinesGrow, NextLineAt
  <2> QED
    BY <1>1, <2>1
<1>4. ASSUME NEW index \in 0..Len(text), index < start PROVE LineAt(text, index) # line
  <2>1. start - 1 \in 0..Len(text) /\ (start - 1) + 1 = start /\ start \in 1..Len(text) /\ index <= start - 1 /\ text[start] = NewLine
    BY <1>0, <1>1, <1>2, <1>4 DEF IsStart
  <2>2. LineAt(text, start) = LineAt(text, start - 1) + 1 /\ LineAt(text, start - 1) \in Nat /\ LineAt(text, index) \in Nat
    BY <2>1, NextLineAt
  <2>3. LineAt(text, index) <= LineAt(text, start - 1)
    BY <2>1, LinesGrow
  <2> QED
    BY <1>2, <2>2, <2>3
<1>5. ASSUME NEW index \in 0..Len(text), end < index PROVE LineAt(text, index) # line
  <2>1. end + 1 \in 1..Len(text) /\ end + 1 \in 0..Len(text) /\ end + 1 <= index /\ text[end + 1] = NewLine
    BY <1>0, <1>1, <1>2, <1>5 DEF IsEnd
  <2>2. LineAt(text, end + 1) = LineAt(text, end) + 1 /\ LineAt(text, index) \in Nat
    BY <1>1, <2>1, NextLineAt
  <2>3. LineAt(text, end + 1) <= LineAt(text, index)
    BY <2>1, LinesGrow
  <2> QED
    BY <1>1, <1>2, <2>2, <2>3
<1>6. ASSUME NEW index \in start + 1 .. end PROVE text[index] # NewLine
  <2>1. index \in 1..Len(text) /\ index \in 0..Len(text) /\ index - 1 \in 0..Len(text) /\ (index - 1) + 1 = index
        /\ start <= index - 1 /\ index - 1 <= end /\ start <= index /\ index <= end
    BY <1>0, <1>1
  <2>2. LineAt(text, index) = line /\ LineAt(text, index - 1) = line
    BY <1>3, <2>1
  <2>3. text[index] = NewLine => LineAt(text, index) = LineAt(text, index - 1) + 1
    BY <2>1, NextLineAt
  <2>4. LineAt(text, index) \in Nat /\ LineAt(text, index - 1) \in Nat
    BY NextLineAt
  <2> QED
    BY <2>2, <2>3, <2>4
<1>7. ASSUME NEW index \in 0..Len(text) PROVE LineAt(text, index) = line <=> start <= index /\ index <= end
  <2>1. index < start \/ end < index \/ (start <= index /\ index <= end)
    BY <1>0, <1>1
  <2>2. ~(index < start /\ start <= index) /\ ~(end < index /\ index <= end)
    BY <1>0, <1>1
  <2> QED
    BY <2>1, <2>2, <1>3, <1>4, <1>5
<1> QED
  BY <1>1, <1>6, <1>7 DEF start, end

(* A comment is decided by what is on its line.                                  *)
Marks(text, line) == {i \in LineStart(text, line) + 1 .. LineEnd(text, line) : IsComment(text, i)}

LEMMA CommentsOfLines ==
  ASSUME NEW text \in Texts, NEW line \in 0..Lines(text) - 1
  PROVE  /\ CommentOf(text, line) = <<>> <=> Marks(text, line) = {}
         /\ Directive(text, line) =
              LET end == LineEnd(text, line)
              IN  IF Marks(text, line) # {} /\ (Marks(text, line) = {end} \/ text[end] = "ignore") THEN text[end] ELSE "none"
<1> DEFINE start == LineStart(text, line)
           end == LineEnd(text, line)
           marks == Marks(text, line)
           comment == CommentOf(text, line)
<1>1. Len(text) \in Nat /\ start \in 0..Len(text) /\ end \in 0..Len(text)
  BY NewLinesOfAText, StartsOfLines, EndsOfLines
<1>2. marks \subseteq start + 1 .. end
  BY DEF Marks
<1>3. comment = IF marks = {} THEN <<>> ELSE SubSeq(text, Min(marks), end)
  BY DEF CommentOf, Marks
<1>4. Directive(text, line) = IF comment # <<>> /\ (Len(comment) = 1 \/ Last(comment) = "ignore") THEN Last(comment) ELSE "none"
  BY DEF Directive
<1> HIDE DEF start, end, marks, comment
<1>5. CASE marks = {}
  BY <1>3, <1>4, <1>5 DEF marks, comment
<1>6. CASE marks # {}
  <2>1. Min(marks) \in marks /\ \A i \in marks : Min(marks) <= i
    <3>1. marks \subseteq Nat
      BY <1>1, <1>2
    <3> QED
      BY <1>6, <3>1, LeastNatural
  <2> DEFINE first == Min(marks)
  <2>2. first \in start + 1 .. end /\ first \in 1..Len(text) /\ first <= end /\ \A i \in marks : first <= i
    <3>1. first \in start + 1 .. end
      BY <1>2, <2>1
    <3>2. \A i \in marks : first <= i
      BY <2>1
    <3> HIDE DEF first
    <3> QED
      BY <1>1, <3>1, <3>2
  <2> HIDE DEF first
  <2>3. \A i \in first..end : text[i] \in Characters
    BY <1>1, <2>2, LenProperties DEF Texts
  <2>4. first \in Int /\ end \in Int
    BY <1>1, <2>2
  <2>5. /\ Len(SubSeq(text, first, end)) = end - first + 1
        /\ \A i \in 1..end - first + 1 : SubSeq(text, first, end)[i] = text[first + i - 1]
    BY <2>2, <2>3, <2>4, SubSeqProperties
  <2>6. Len(comment) = end - first + 1 /\ comment[Len(comment)] = text[end]
    <3>1. end - first + 1 \in 1..end - first + 1 /\ first + (end - first + 1) - 1 = end
      BY <1>1, <2>2
    <3> QED
      BY <1>3, <1>6, <2>5, <3>1 DEF first
  <2>7. comment # <<>>
    BY <1>1, <2>2, <2>6
  <2>8. Len(comment) = 1 <=> marks = {end}
    <3>1. first \in marks
      BY <2>1 DEF first
    <3>2. ASSUME first = end PROVE marks = {end}
      <4>1. \A i \in marks : i = end
        BY <1>1, <1>2, <2>2, <3>2
      <4> QED
        BY <3>1, <3>2, <4>1
    <3>3. ASSUME marks = {end} PROVE first = end
      BY <3>1, <3>3
    <3> QED
      BY <1>1, <2>2, <2>6, <3>2, <3>3
  <2> QED
    BY <1>4, <1>6, <2>6, <2>7, <2>8 DEF marks, comment, end, Last
<1> QED
  BY <1>5, <1>6

(* The first character of a line decides whether it is of a script.                 *)
LEMMA ScriptsOnTheLine ==
  ASSUME NEW text \in Texts, NEW line \in 0..Lines(text) - 1
  PROVE  /\ \A i \in LineStart(text, line) + 1 .. LineEnd(text, line) :
              InScript(text, i) <=> text[LineStart(text, line) + 1] = Script
         /\ ScriptLine(text, line) <=>
              LineStart(text, line) # LineEnd(text, line) /\ text[LineStart(text, line) + 1] = Script
<1> DEFINE start == LineStart(text, line)
           end == LineEnd(text, line)
<1>1. /\ Len(text) \in Nat /\ start \in 0..Len(text) /\ end \in 0..Len(text) /\ start <= end
      /\ start = 0 \/ text[start] = NewLine
      /\ \A i \in start + 1 .. end : text[i] # NewLine
  BY NewLinesOfAText, StartsOfLines, EndsOfLines, OnTheLine DEF IsStart
<1>2. ScriptLine(text, line) <=> InScript(text, end)
  BY DEF ScriptLine
<1> HIDE DEF start, end
<1>3. ASSUME NEW i \in start + 1 .. end PROVE InScript(text, i) <=> text[start + 1] = Script
  <2>1. /\ start + 1 \in 1..i /\ start + 1 = 1 <=> start = 0
        /\ (start + 1) - 1 = start /\ \A k \in start + 1 .. i : text[k] # NewLine
    BY <1>1
  <2>2. ASSUME text[start + 1] = Script PROVE InScript(text, i)
    BY <1>1, <2>1, <2>2 DEF InScript
  <2>3. ASSUME InScript(text, i) PROVE text[start + 1] = Script
    <3>1. PICK j \in 1..i : /\ text[j] = Script /\ (j = 1 \/ text[j - 1] = NewLine)
                            /\ \A k \in j..i : text[k] # NewLine
      BY <2>3 DEF InScript
    <3>2. ~(j <= start)
      <4> SUFFICES ASSUME j <= start PROVE FALSE
        OBVIOUS
      <4>1. start \in j..i /\ start # 0
        BY <1>1, <3>1
      <4> QED
        BY <1>1, <3>1, <4>1
    <3>3. ~(j > start + 1)
      <4> SUFFICES ASSUME j > start + 1 PROVE FALSE
        OBVIOUS
      <4>1. j - 1 \in start + 1 .. end /\ j # 1
        BY <1>1, <3>1
      <4> QED
        BY <1>1, <3>1, <4>1
    <3>4. j = start + 1
      BY <1>1, <3>2, <3>3
    <3> QED
      BY <3>1, <3>4
  <2> QED
    BY <2>2, <2>3
<1>4. CASE start # end
  <2>1. end \in start + 1 .. end
    BY <1>1, <1>4
  <2> QED
    BY <1>2, <1>3, <1>4, <2>1 DEF start, end
<1>5. CASE start = end
  <2>1. ~InScript(text, end)
    <3> SUFFICES ASSUME NEW j \in 1..end, \A k \in j..end : text[k] # NewLine PROVE FALSE
      BY DEF InScript
    <3>1. end \in j..end /\ start # 0
      BY <1>1, <1>5
    <3> QED
      BY <1>1, <1>5, <3>1
  <2> QED
    BY <1>2, <1>3, <1>5, <2>1 DEF start, end
<1> QED
  BY <1>4, <1>5

(* Whether a character is a comment, in terms of its line.                         *)
LEMMA MarksOnTheLine ==
  ASSUME NEW text \in Texts, NEW line \in 0..Lines(text) - 1,
         NEW i \in LineStart(text, line) + 1 .. LineEnd(text, line)
  PROVE  IsComment(text, i) <=>
           /\ text[i] \in Comments /\ text[LineStart(text, line) + 1] # Script
           /\ text[i] = "ignore" \/ i = LineStart(text, line) + 1 \/ text[i - 1] = Indent
<1>1. Len(text) \in Nat /\ LineStart(text, line) \in 0..Len(text) /\ LineEnd(text, line) \in 0..Len(text)
  BY NewLinesOfAText, StartsOfLines, EndsOfLines
<1>0. InScript(text, i) <=> text[LineStart(text, line) + 1] = Script
  BY ScriptsOnTheLine
<1>2. CASE i = LineStart(text, line) + 1
  <2>1. i = 1 \/ text[i - 1] = NewLine
    BY <1>1, <1>2, StartsOfLines DEF IsStart
  <2> QED
    BY <1>0, <1>2, <2>1 DEF IsComment
<1>3. CASE i # LineStart(text, line) + 1
  <2>1. i # 1 /\ i - 1 \in LineStart(text, line) + 1 .. LineEnd(text, line)
    BY <1>1, <1>3
  <2>2. text[i - 1] # NewLine
    BY <2>1, OnTheLine
  <2> QED
    BY <1>0, <1>3, <2>1, <2>2 DEF IsComment
<1> QED
  BY <1>2, <1>3

(* Nothing but comments, indented or not.                                         *)
CommentOnly(text, line) ==
  \A i \in LineStart(text, line) + 1 .. LineEnd(text, line) : text[i] \in Comments \union {Indent}

SameLine(text, line, other, again) ==
  /\ Directive(other, again) = Directive(text, line)
  /\ CommentOnly(other, again) <=> CommentOnly(text, line)

LEMMA SameContentSameLine ==
  ASSUME NEW text \in Texts, NEW line \in 0..Lines(text) - 1, NEW other \in Texts, NEW again \in 0..Lines(other) - 1,
         NEW shift \in Int, LineStart(other, again) = LineStart(text, line) + shift,
         LineEnd(other, again) = LineEnd(text, line) + shift,
         \A i \in LineStart(text, line) + 1 .. LineEnd(text, line) : other[i + shift] = text[i]
  PROVE  SameLine(text, line, other, again)
<1> DEFINE start == LineStart(text, line)
           end == LineEnd(text, line)
<1>1. Len(text) \in Nat /\ start \in 0..Len(text) /\ end \in 0..Len(text) /\ start <= end
  BY NewLinesOfAText, StartsOfLines, EndsOfLines, OnTheLine
<1>2. LineStart(other, again) = start + shift /\ LineEnd(other, again) = end + shift
      /\ \A i \in start + 1 .. end : other[i + shift] = text[i]
  OBVIOUS
<1>3. /\ Marks(text, line) = {i \in start + 1 .. end : IsComment(text, i)}
      /\ Marks(other, again) = {i \in start + shift + 1 .. end + shift : IsComment(other, i)}
      /\ CommentOnly(text, line) <=> \A i \in start + 1 .. end : text[i] \in Comments \union {Indent}
      /\ CommentOnly(other, again) <=> \A i \in start + shift + 1 .. end + shift : other[i] \in Comments \union {Indent}
  BY <1>2 DEF Marks, CommentOnly
<1>4. \A i \in start + 1 .. end : IsComment(text, i) <=>
           /\ text[i] \in Comments /\ text[start + 1] # Script
           /\ text[i] = "ignore" \/ i = start + 1 \/ text[i - 1] = Indent
  BY MarksOnTheLine
<1>5. \A i \in start + shift + 1 .. end + shift : IsComment(other, i) <=>
           /\ other[i] \in Comments /\ other[start + shift + 1] # Script
           /\ other[i] = "ignore" \/ i = start + shift + 1 \/ other[i - 1] = Indent
  BY <1>2, MarksOnTheLine
<1>6. /\ Directive(text, line) =
           IF Marks(text, line) # {} /\ (Marks(text, line) = {end} \/ text[end] = "ignore") THEN text[end] ELSE "none"
      /\ Directive(other, again) =
           IF Marks(other, again) # {} /\ (Marks(other, again) = {end + shift} \/ other[end + shift] = "ignore")
           THEN other[end + shift] ELSE "none"
  BY <1>2, CommentsOfLines
<1> HIDE DEF start, end
<1>7. \A i \in start + 1 .. end : /\ i + shift \in start + shift + 1 .. end + shift
                                  /\ IsComment(other, i + shift) <=> IsComment(text, i)
  <2> SUFFICES ASSUME NEW i \in start + 1 .. end
               PROVE  i + shift \in start + shift + 1 .. end + shift /\ (IsComment(other, i + shift) <=> IsComment(text, i))
    OBVIOUS
  <2>1. i + shift \in start + shift + 1 .. end + shift
    BY <1>1
  <2>2. other[i + shift] = text[i]
    BY <1>2
  <2>3. i + shift = start + shift + 1 <=> i = start + 1
    BY <1>1
  <2>4. i # start + 1 => other[(i + shift) - 1] = text[i - 1]
    <3> SUFFICES ASSUME i # start + 1 PROVE other[(i + shift) - 1] = text[i - 1]
      OBVIOUS
    <3>1. i - 1 \in start + 1 .. end /\ (i + shift) - 1 = (i - 1) + shift
      BY <1>1
    <3> QED
      BY <1>2, <3>1
  <2>5. other[start + shift + 1] = text[start + 1]
    <3>1. start + 1 \in start + 1 .. end /\ (start + 1) + shift = start + shift + 1
      BY <1>1
    <3> QED
      BY <1>2, <3>1
  <2> QED
    BY <1>4, <1>5, <2>1, <2>2, <2>3, <2>4, <2>5
<1>8. \A j \in start + shift + 1 .. end + shift : j - shift \in start + 1 .. end /\ (j - shift) + shift = j
  BY <1>1
<1>9. CommentOnly(other, again) <=> CommentOnly(text, line)
  <2>1. ASSUME CommentOnly(text, line) PROVE CommentOnly(other, again)
    BY <1>2, <1>3, <1>8, <2>1
  <2>2. ASSUME CommentOnly(other, again) PROVE CommentOnly(text, line)
    BY <1>2, <1>3, <1>7, <2>2
  <2> QED
    BY <2>1, <2>2
<1>10. \A i \in start + 1 .. end : i + shift \in Marks(other, again) <=> i \in Marks(text, line)
  BY <1>3, <1>7
<1>11. /\ \A i \in Marks(text, line) : i \in start + 1 .. end
       /\ \A j \in Marks(other, again) : j - shift \in start + 1 .. end /\ (j - shift) + shift = j
  BY <1>3, <1>8
<1>12. Marks(other, again) = {} <=> Marks(text, line) = {}
  BY <1>10, <1>11
<1>13. Marks(other, again) = {end + shift} <=> Marks(text, line) = {end}
  <2>1. ASSUME Marks(text, line) = {end} PROVE Marks(other, again) = {end + shift}
    <3>1. end + shift \in Marks(other, again)
      BY <1>10, <1>11, <2>1
    <3>2. \A j \in Marks(other, again) : j = end + shift
      BY <1>10, <1>11, <2>1
    <3> QED
      BY <3>1, <3>2
  <2>2. ASSUME Marks(other, again) = {end + shift} PROVE Marks(text, line) = {end}
    <3>1. end \in Marks(text, line)
      <4>1. (end + shift) - shift = end
        BY <1>1
      <4> QED
        BY <1>10, <1>11, <2>2, <4>1
    <3>2. \A i \in Marks(text, line) : i = end
      <4> SUFFICES ASSUME NEW i \in Marks(text, line) PROVE i = end
        OBVIOUS
      <4>1. i + shift = end + shift /\ i \in start + 1 .. end
        BY <1>10, <1>11, <2>2
      <4> QED
        BY <1>1, <4>1
    <3> QED
      BY <3>1, <3>2
  <2> QED
    BY <2>1, <2>2
<1>14. Marks(text, line) # {} => other[end + shift] = text[end]
  <2> SUFFICES ASSUME Marks(text, line) # {} PROVE other[end + shift] = text[end]
    OBVIOUS
  <2>1. end \in start + 1 .. end
    BY <1>1, <1>11
  <2> QED
    BY <1>2, <2>1
<1> QED
  BY <1>6, <1>9, <1>12, <1>13, <1>14 DEF SameLine
-----------------------------------------------------------------------------
(* What text put at the start of a line, or at its end, makes of a text's lines.          *)
LEMMA ConcatContent ==
  ASSUME NEW text \in Texts, NEW rest \in Texts
  PROVE  /\ text \o rest \in Texts /\ Len(text \o rest) = Len(text) + Len(rest)
         /\ \A i \in 1..Len(text) : (text \o rest)[i] = text[i]
         /\ \A i \in 1..Len(rest) : (text \o rest)[Len(text) + i] = rest[i]
<1> DEFINE whole == text \o rest
<1>1. /\ whole \in Texts /\ Len(whole) = Len(text) + Len(rest) /\ Len(text) \in Nat /\ Len(rest) \in Nat
      /\ \A i \in 1..Len(text) + Len(rest) : whole[i] = IF i <= Len(text) THEN text[i] ELSE rest[i - Len(text)]
  BY ConcatProperties, LenProperties DEF Texts
<1> HIDE DEF whole
<1>2. \A i \in 1..Len(text) : whole[i] = text[i]
  BY <1>1
<1>3. \A i \in 1..Len(rest) : whole[Len(text) + i] = rest[i]
  <2> SUFFICES ASSUME NEW i \in 1..Len(rest) PROVE whole[Len(text) + i] = rest[i]
    OBVIOUS
  <2>1. Len(text) + i \in 1..Len(text) + Len(rest) /\ ~(Len(text) + i <= Len(text)) /\ (Len(text) + i) - Len(text) = i
    BY <1>1
  <2> QED
    BY <1>1, <2>1
<1> QED
  BY <1>1, <1>2, <1>3 DEF whole

(* A text with another put into it.                                             *)
Put(text, at, new) == Splice(text, at, at, new)

LEMMA PutContent ==
  ASSUME NEW text \in Texts, NEW at \in 0..Len(text), NEW new \in Texts
  PROVE  /\ Put(text, at, new) \in Texts /\ Len(Put(text, at, new)) = Len(text) + Len(new)
         /\ \A i \in 1..at : Put(text, at, new)[i] = text[i]
         /\ \A i \in 1..Len(new) : Put(text, at, new)[at + i] = new[i]
         /\ \A i \in at + 1 .. Len(text) : Put(text, at, new)[i + Len(new)] = text[i]
<1> DEFINE front == Upto(text, at)
           back == Behind(text, at)
<1>1. /\ front \in Texts /\ back \in Texts /\ Len(front) = at /\ Len(back) = Len(text) - at
      /\ \A i \in 1..at : front[i] = text[i]
      /\ \A i \in 1..Len(text) - at : back[i] = text[at + i]
      /\ Len(text) \in Nat /\ Len(new) \in Nat
  BY Parts, NewLinesOfAText
<1>2. Put(text, at, new) = front \o new \o back
  BY DEF Put, Splice, Upto, Behind
<1> HIDE DEF front, back
<1> DEFINE both == front \o new
           size == Len(new)
<1>3. /\ both \in Texts /\ Len(both) = at + size
      /\ \A i \in 1..at : both[i] = front[i]
      /\ \A i \in 1..size : both[at + i] = new[i]
  BY <1>1, ConcatContent
<1>4. Put(text, at, new) = both \o back
  BY <1>2
<1> HIDE DEF both
<1>5. /\ both \o back \in Texts /\ Len(both \o back) = at + size + (Len(text) - at)
      /\ \A i \in 1..at + size : (both \o back)[i] = both[i]
      /\ \A i \in 1..Len(text) - at : (both \o back)[(at + size) + i] = back[i]
  <2>1. /\ both \o back \in Texts /\ Len(both \o back) = Len(both) + Len(back)
        /\ \A i \in 1..Len(both) : (both \o back)[i] = both[i]
        /\ \A i \in 1..Len(back) : (both \o back)[Len(both) + i] = back[i]
    BY <1>1, <1>3, ConcatContent
  <2> QED
    BY <1>1, <1>3, <2>1
<1> DEFINE put == Put(text, at, new)
<1>6. /\ put \in Texts /\ Len(put) = at + size + (Len(text) - at)
      /\ \A i \in 1..at + size : put[i] = both[i]
      /\ \A i \in 1..Len(text) - at : put[(at + size) + i] = back[i]
  BY <1>4, <1>5
<1> HIDE DEF put, size
<1>7. size \in Nat
  BY <1>1 DEF size
<1>8. Len(put) = Len(text) + size
  BY <1>1, <1>6, <1>7
<1>9. \A i \in 1..at : put[i] = text[i]
  BY <1>1, <1>3, <1>6, <1>7
<1>10. \A i \in 1..size : put[at + i] = new[i]
  BY <1>1, <1>3, <1>6, <1>7
<1>11. \A i \in at + 1 .. Len(text) : put[i + size] = text[i]
  <2> SUFFICES ASSUME NEW i \in at + 1 .. Len(text) PROVE put[i + size] = text[i]
    OBVIOUS
  <2>1. i - at \in 1..Len(text) - at /\ (at + size) + (i - at) = i + size /\ at + (i - at) = i
    BY <1>1, <1>7
  <2> QED
    BY <1>1, <1>6, <2>1
<1> QED
  BY <1>6, <1>8, <1>9, <1>10, <1>11 DEF put, size

LEMMA PutLines ==
  ASSUME NEW text \in Texts, NEW at \in 0..Len(text), NEW new \in Texts
  PROVE  /\ \A i \in 0..at : LineAt(Put(text, at, new), i) = LineAt(text, i)
         /\ \A i \in 0..Len(new) : LineAt(Put(text, at, new), at + i) = LineAt(text, at) + LineAt(new, i)
         /\ \A i \in at..Len(text) :
              LineAt(Put(text, at, new), i + Len(new)) = LineAt(text, i) + Cardinality(NewLines(new))
         /\ Lines(Put(text, at, new)) = Lines(text) + Cardinality(NewLines(new))
<1> DEFINE put == Put(text, at, new)
           size == Len(new)
           more == Cardinality(NewLines(new))
<1>1. /\ put \in Texts /\ Len(put) = Len(text) + size
      /\ \A i \in 1..at : put[i] = text[i]
      /\ \A i \in 1..size : put[at + i] = new[i]
      /\ \A i \in at + 1 .. Len(text) : put[i + size] = text[i]
  BY PutContent
<1>2. Len(text) \in Nat /\ size \in Nat /\ more \in Nat
  BY NewLinesOfAText
<1>3. /\ LineAt(put, 0) = 0 /\ LineAt(text, 0) = 0 /\ LineAt(new, 0) = 0
      /\ \A index : LineAt(put, index) \in Nat /\ LineAt(text, index) \in Nat /\ LineAt(new, index) \in Nat
      /\ LineAt(put, Len(put)) = Cardinality(NewLines(put)) /\ LineAt(text, Len(text)) = Cardinality(NewLines(text))
      /\ LineAt(new, size) = more
  BY <1>1, NextLineAt
<1>4. /\ \A index \in 0..Len(put) : index + 1 \in 1..Len(put) =>
           LineAt(put, index + 1) = IF put[index + 1] = NewLine THEN LineAt(put, index) + 1 ELSE LineAt(put, index)
      /\ \A index \in 0..Len(text) : index + 1 \in 1..Len(text) =>
           LineAt(text, index + 1) = IF text[index + 1] = NewLine THEN LineAt(text, index) + 1 ELSE LineAt(text, index)
      /\ \A index \in 0..size : index + 1 \in 1..size =>
           LineAt(new, index + 1) = IF new[index + 1] = NewLine THEN LineAt(new, index) + 1 ELSE LineAt(new, index)
  BY <1>1, NextLineAt
<1> HIDE DEF put, size, more
<1>5. \A i \in 0..at : LineAt(put, i) = LineAt(text, i)
  <2> DEFINE T == {i \in Nat : i <= at => LineAt(put, i) = LineAt(text, i)}
  <2>1. 0 \in T
    BY <1>3
  <2>2. ASSUME NEW i \in T PROVE i + 1 \in T
    <3> SUFFICES ASSUME i + 1 <= at PROVE LineAt(put, i + 1) = LineAt(text, i + 1)
      OBVIOUS
    <3>1. /\ i \in 0..Len(put) /\ i + 1 \in 1..Len(put) /\ i \in 0..Len(text) /\ i + 1 \in 1..Len(text) /\ i + 1 \in 1..at
          /\ i <= at
      BY <1>1, <1>2
    <3>2. LineAt(put, i) = LineAt(text, i)
      BY <3>1
    <3> QED
      BY <1>1, <1>4, <3>1, <3>2
  <2> HIDE DEF T
  <2>3. \A i \in Nat : i \in T
    <3>1. T \subseteq Nat
      BY DEF T
    <3> QED
      BY <2>1, <2>2, <3>1, SetInduction
  <2> QED
    BY <2>3 DEF T
<1>6. \A i \in 0..size : LineAt(put, at + i) = LineAt(text, at) + LineAt(new, i)
  <2> DEFINE T == {i \in Nat : i <= size => LineAt(put, at + i) = LineAt(text, at) + LineAt(new, i)}
  <2>1. 0 \in T
    BY <1>2, <1>3, <1>5
  <2>2. ASSUME NEW i \in T PROVE i + 1 \in T
    <3> SUFFICES ASSUME i + 1 <= size PROVE LineAt(put, at + (i + 1)) = LineAt(text, at) + LineAt(new, i + 1)
      OBVIOUS
    <3>1. /\ at + i \in 0..Len(put) /\ (at + i) + 1 \in 1..Len(put) /\ at + (i + 1) = (at + i) + 1
          /\ i \in 0..size /\ i + 1 \in 1..size /\ i <= size
      BY <1>1, <1>2
    <3>2. LineAt(put, at + i) = LineAt(text, at) + LineAt(new, i) /\ put[(at + i) + 1] = new[i + 1]
      BY <1>1, <3>1
    <3>3. LineAt(put, at + (i + 1)) = IF new[i + 1] = NewLine THEN LineAt(put, at + i) + 1 ELSE LineAt(put, at + i)
      BY <1>4, <3>1, <3>2
    <3>4. LineAt(new, i + 1) = IF new[i + 1] = NewLine THEN LineAt(new, i) + 1 ELSE LineAt(new, i)
      BY <1>4, <3>1
    <3>5. LineAt(text, at) \in Nat /\ LineAt(new, i) \in Nat
      BY <1>3
    <3> QED
      BY <3>2, <3>3, <3>4, <3>5
  <2> HIDE DEF T
  <2>3. \A i \in Nat : i \in T
    <3>1. T \subseteq Nat
      BY DEF T
    <3> QED
      BY <2>1, <2>2, <3>1, SetInduction
  <2> QED
    BY <2>3 DEF T
<1>7. \A i \in at..Len(text) : LineAt(put, i + size) = LineAt(text, i) + more
  <2> DEFINE T == {j \in Nat : at + j <= Len(text) => LineAt(put, (at + j) + size) = LineAt(text, at + j) + more}
  <2>1. 0 \in T
    <3>1. LineAt(put, at + size) = LineAt(text, at) + LineAt(new, size) /\ (at + 0) + size = at + size /\ at + 0 = at
      BY <1>2, <1>6
    <3> QED
      BY <1>3, <3>1
  <2>2. ASSUME NEW j \in T PROVE j + 1 \in T
    <3> DEFINE i == at + j
    <3> SUFFICES ASSUME at + (j + 1) <= Len(text)
                 PROVE  LineAt(put, (at + (j + 1)) + size) = LineAt(text, at + (j + 1)) + more
      OBVIOUS
    <3>1. /\ i + size \in 0..Len(put) /\ (i + size) + 1 \in 1..Len(put) /\ (i + 1) + size = (i + size) + 1
          /\ i \in 0..Len(text) /\ i + 1 \in 1..Len(text) /\ i + 1 \in at + 1 .. Len(text) /\ i <= Len(text)
          /\ at + (j + 1) = i + 1
      BY <1>1, <1>2
    <3>2. LineAt(put, i + size) = LineAt(text, i) + more
      BY <3>1
    <3> HIDE DEF i
    <3>3. put[(i + size) + 1] = text[i + 1]
      BY <1>1, <3>1
    <3>4. LineAt(put, (i + size) + 1) = IF text[i + 1] = NewLine THEN LineAt(put, i + size) + 1 ELSE LineAt(put, i + size)
      BY <1>4, <3>1, <3>3
    <3>5. LineAt(text, i + 1) = IF text[i + 1] = NewLine THEN LineAt(text, i) + 1 ELSE LineAt(text, i)
      BY <1>4, <3>1
    <3>6. LineAt(put, (i + size) + 1) = LineAt(text, i + 1) + more
      <4>1. LineAt(text, i) \in Nat
        BY <1>3
      <4> QED
        BY <1>2, <3>2, <3>4, <3>5, <4>1
    <3> QED
      BY <3>1, <3>6
  <2> HIDE DEF T
  <2>3. \A j \in Nat : j \in T
    <3>1. T \subseteq Nat
      BY DEF T
    <3> QED
      BY <2>1, <2>2, <3>1, SetInduction
  <2> SUFFICES ASSUME NEW i \in at..Len(text) PROVE LineAt(put, i + size) = LineAt(text, i) + more
    OBVIOUS
  <2>4. i - at \in Nat /\ at + (i - at) = i /\ i <= Len(text)
    BY <1>2
  <2>5. i - at \in T
    BY <2>3, <2>4
  <2> QED
    BY <2>4, <2>5 DEF T
<1>8. Cardinality(NewLines(put)) = Cardinality(NewLines(text)) + more
  BY <1>1, <1>2, <1>3, <1>7
<1>9. Lines(put) = Lines(text) + more
  <2>1. Cardinality(NewLines(text)) \in Nat
    BY NewLinesOfAText
  <2> QED
    BY <1>2, <1>8, <2>1 DEF Lines
<1> QED
  BY <1>5, <1>6, <1>7, <1>9 DEF put, size, more

(* The lines in front of what was put in stay as they are, those behind it move.      *)
LEMMA LinesInFront ==
  ASSUME NEW text \in Texts, NEW at \in 0..Len(text), NEW new \in Texts, NEW line \in 0..Lines(text) - 1,
         LineEnd(text, line) < at
  PROVE  line \in 0..Lines(Put(text, at, new)) - 1 /\ SameLine(text, line, Put(text, at, new), line)
<1> DEFINE put == Put(text, at, new)
           start == LineStart(text, line)
           end == LineEnd(text, line)
<1>1. /\ Len(text) \in Nat /\ Len(new) \in Nat /\ Cardinality(NewLines(new)) \in Nat /\ Cardinality(NewLines(text)) \in Nat
      /\ start \in 0..Len(text) /\ end \in 0..Len(text) /\ start <= end
      /\ IsStart(text, start) /\ LineAt(text, start) = line /\ IsEnd(text, end) /\ LineAt(text, end) = line
  BY NewLinesOfAText, StartsOfLines, EndsOfLines, OnTheLine
<1>2. /\ put \in Texts /\ Len(put) = Len(text) + Len(new) /\ \A i \in 1..at : put[i] = text[i]
      /\ \A i \in 0..at : LineAt(put, i) = LineAt(text, i)
      /\ Lines(put) = Lines(text) + Cardinality(NewLines(new))
  BY PutContent, PutLines
<1>3. line \in 0..Lines(put) - 1
  BY <1>1, <1>2 DEF Lines
<1> HIDE DEF put, start, end
<1>4. start \in 0..at /\ end \in 0..at /\ end + 1 \in 1..at /\ start \in 0..Len(put) /\ end \in 0..Len(put) /\ end # Len(text)
      /\ end # Len(put)
  BY <1>1, <1>2 DEF end
<1>5. LineStart(put, line) = start
  <2>1. IsStart(put, start)
    BY <1>1, <1>2, <1>4 DEF IsStart
  <2> QED
    BY <1>1, <1>2, <1>4, <2>1, StartsOfLines
<1>6. LineEnd(put, line) = end
  <2>1. IsEnd(put, end)
    BY <1>1, <1>2, <1>4 DEF IsEnd
  <2> QED
    BY <1>1, <1>2, <1>4, <2>1, EndsOfLines
<1>7. \A i \in start + 1 .. end : put[i + 0] = text[i]
  BY <1>1, <1>2, <1>4
<1>8. LineStart(put, line) = start + 0 /\ LineEnd(put, line) = end + 0
  BY <1>1, <1>5, <1>6
<1> QED
  BY <1>2, <1>3, <1>7, <1>8, SameContentSameLine DEF put, start, end

LEMMA LinesBehind ==
  ASSUME NEW text \in Texts, NEW at \in 0..Len(text), NEW new \in Texts, NEW line \in 0..Lines(text) - 1,
         at <= LineStart(text, line),
         at = LineStart(text, line) => Len(new) # 0 /\ new[Len(new)] = NewLine
  PROVE  /\ line + Cardinality(NewLines(new)) \in 0..Lines(Put(text, at, new)) - 1
         /\ SameLine(text, line, Put(text, at, new), line + Cardinality(NewLines(new)))
<1> DEFINE put == Put(text, at, new)
           size == Len(new)
           more == Cardinality(NewLines(new))
           start == LineStart(text, line)
           end == LineEnd(text, line)
<1>1. /\ Len(text) \in Nat /\ size \in Nat /\ more \in Nat /\ Cardinality(NewLines(text)) \in Nat
      /\ start \in 0..Len(text) /\ end \in 0..Len(text) /\ start <= end
      /\ IsStart(text, start) /\ LineAt(text, start) = line /\ IsEnd(text, end) /\ LineAt(text, end) = line
  BY NewLinesOfAText, StartsOfLines, EndsOfLines, OnTheLine
<1>2. /\ put \in Texts /\ Len(put) = Len(text) + size
      /\ \A i \in 1..size : put[at + i] = new[i]
      /\ \A i \in at + 1 .. Len(text) : put[i + size] = text[i]
      /\ \A i \in at..Len(text) : LineAt(put, i + size) = LineAt(text, i) + more
      /\ Lines(put) = Lines(text) + more
  BY PutContent, PutLines
<1>3. line + more \in 0..Lines(put) - 1
  BY <1>1, <1>2 DEF Lines
<1>4. at <= start /\ (at = start => size # 0 /\ new[size] = NewLine)
  OBVIOUS
<1> HIDE DEF put, size, more, start, end
<1>5. /\ start \in at..Len(text) /\ end \in at..Len(text) /\ start + size \in 0..Len(put) /\ end + size \in 0..Len(put)
      /\ end # Len(text) => end + 1 \in at + 1 .. Len(text) /\ (end + 1) + size = (end + size) + 1
  BY <1>1, <1>2, <1>4
<1>6. LineAt(put, start + size) = line + more /\ LineAt(put, end + size) = line + more
  BY <1>1, <1>2, <1>5
<1>7. LineStart(put, line + more) = start + size
  <2>1. IsStart(put, start + size)
    <3>1. CASE at = start
      <4>1. size \in 1..size
        BY <1>1, <1>4, <3>1
      <4> QED
        BY <1>2, <1>4, <3>1, <4>1 DEF IsStart
    <3>2. CASE at # start
      <4>1. start \in at + 1 .. Len(text) /\ text[start] = NewLine
        BY <1>1, <1>4, <3>2 DEF IsStart
      <4> QED
        BY <1>2, <4>1 DEF IsStart
    <3> QED
      BY <3>1, <3>2
  <2> QED
    BY <1>2, <1>5, <1>6, <2>1, StartsOfLines
<1>8. LineEnd(put, line + more) = end + size
  <2>1. IsEnd(put, end + size)
    <3>1. CASE end = Len(text)
      BY <1>2, <3>1 DEF IsEnd
    <3>2. CASE end # Len(text)
      BY <1>1, <1>2, <1>5, <3>2 DEF IsEnd
    <3> QED
      BY <3>1, <3>2
  <2> QED
    BY <1>2, <1>5, <1>6, <2>1, EndsOfLines
<1>9. \A i \in start + 1 .. end : put[i + size] = text[i]
  BY <1>1, <1>2, <1>4
<1>10. size \in Int /\ line + more \in 0..Lines(put) - 1
  BY <1>1, <1>3
<1>11. SameLine(text, line, put, line + more)
  BY <1>2, <1>7, <1>8, <1>9, <1>10, SameContentSameLine DEF start, end
<1> QED
  BY <1>10, <1>11 DEF put, more

(* Problems stay where they are, or move with their lines.                          *)
LEMMA ProblemsMove ==
  ASSUME NEW text \in Texts, NEW at \in 0..Len(text), NEW new \in Texts, \A i \in 1..Len(new) : new[i] \notin Problems,
         NEW i \in 1..Len(Put(text, at, new)), Put(text, at, new)[i] \in Problems
  PROVE  \E j \in 1..Len(text) :
           /\ text[j] = Put(text, at, new)[i]
           /\ \/ j <= at /\ LineAt(Put(text, at, new), i - 1) = LineAt(text, j - 1)
              \/ j > at /\ LineAt(Put(text, at, new), i - 1) = LineAt(text, j - 1) + Cardinality(NewLines(new))
<1> DEFINE put == Put(text, at, new)
           size == Len(new)
           more == Cardinality(NewLines(new))
<1>1. /\ Len(put) = Len(text) + size /\ Len(text) \in Nat /\ size \in Nat
      /\ \A k \in 1..at : put[k] = text[k]
      /\ \A k \in 1..size : put[at + k] = new[k]
      /\ \A k \in at + 1 .. Len(text) : put[k + size] = text[k]
      /\ \A k \in 0..at : LineAt(put, k) = LineAt(text, k)
      /\ \A k \in at..Len(text) : LineAt(put, k + size) = LineAt(text, k) + more
      /\ \A k \in 1..size : new[k] \notin Problems
      /\ i \in 1..Len(put) /\ put[i] \in Problems
  BY PutContent, PutLines, NewLinesOfAText, ZenonT(60)
<1> HIDE DEF put, size, more
<1>2. CASE i <= at
  <2>1. i \in 1..at /\ i - 1 \in 0..at /\ i \in 1..Len(text)
    BY <1>1, <1>2
  <2> QED
    BY <1>1, <1>2, <2>1 DEF put
<1>3. CASE at < i /\ i <= at + size
  <2>1. i - at \in 1..size /\ at + (i - at) = i
    BY <1>1, <1>3
  <2> QED
    BY <1>1, <2>1
<1>4. CASE at + size < i
  <2> DEFINE j == i - size
  <2>1. j \in at + 1 .. Len(text) /\ j \in 1..Len(text) /\ j > at /\ j + size = i /\ j - 1 \in at..Len(text) /\ (j - 1) + size = i - 1
    BY <1>1, <1>4, SMTT(30)
  <2> HIDE DEF j
  <2>2. text[j] = put[i] /\ LineAt(put, i - 1) = LineAt(text, j - 1) + more
    BY <1>1, <2>1
  <2> QED
    BY <2>1, <2>2 DEF put, more
<1> QED
  BY <1>1, <1>2, <1>3, <1>4

(* The lines in front of an offset and behind it.                                  *)
LEMMA LinesAround ==
  ASSUME NEW text \in Texts, NEW at \in 0..Len(text), NEW line \in 0..Lines(text) - 1
  PROVE  /\ line < LineAt(text, at) => LineEnd(text, line) < at
         /\ line > LineAt(text, at) => at < LineStart(text, line)
<1>1. /\ line \in Nat /\ LineAt(text, at) \in Nat /\ Len(text) \in Nat
      /\ LineStart(text, line) \in 0..Len(text) /\ LineEnd(text, line) \in 0..Len(text)
      /\ LineAt(text, LineStart(text, line)) = line /\ LineAt(text, LineEnd(text, line)) = line
  BY StartsOfLines, EndsOfLines, NextLineAt, NewLinesOfAText DEF Lines
<1>2. ASSUME at <= LineEnd(text, line) PROVE LineAt(text, at) <= line
  BY <1>1, <1>2, LinesGrow
<1>3. ASSUME LineStart(text, line) <= at PROVE line <= LineAt(text, at)
  BY <1>1, <1>3, LinesGrow
<1> QED
  BY <1>1, <1>2, <1>3

LEMMA ACommentLine ==
  ASSUME NEW indent \in Indents, NEW comment \in Comments
  PROVE  LET new == indent \o <<comment, NewLine>>
             size == Len(indent)
         IN  /\ new \in Texts /\ size \in Nat /\ Len(new) = size + 2
             /\ \A i \in 1..size : new[i] = Indent
             /\ new[size + 1] = comment /\ new[size + 2] = NewLine
             /\ \A i \in 0..size + 1 : LineAt(new, i) = 0
             /\ Cardinality(NewLines(new)) = 1
             /\ \A i \in 1..size + 2 : new[i] \notin Problems
<1> DEFINE new == indent \o <<comment, NewLine>>
           size == Len(indent)
           two == <<comment, NewLine>>
<1>1. indent \in Texts /\ size \in Nat /\ \A i \in 1..size : indent[i] = Indent
  <2>1. indent \in Texts
    BY IndentsAreTexts
  <2> QED
    BY <2>1, LenProperties DEF Indents
<1>2. two \in Texts /\ Len(two) = 2 /\ two[1] = comment /\ two[2] = NewLine
  BY <1>1, CommentsAreTexts
<1> HIDE DEF two
<1>3. /\ indent \o two \in Texts /\ Len(indent \o two) = size + 2
      /\ \A i \in 1..size : (indent \o two)[i] = indent[i]
      /\ \A i \in 1..2 : (indent \o two)[size + i] = two[i]
  <2>1. /\ indent \o two \in Texts /\ Len(indent \o two) = Len(indent) + Len(two)
        /\ \A i \in 1..Len(indent) : (indent \o two)[i] = indent[i]
        /\ \A i \in 1..Len(two) : (indent \o two)[Len(indent) + i] = two[i]
    BY <1>1, <1>2, ConcatContent
  <2> QED
    BY <1>2, <2>1
<1>4. new = indent \o two
  BY DEF two
<1> HIDE DEF new, size
<1>5. /\ new \in Texts /\ Len(new) = size + 2 /\ \A i \in 1..size : new[i] = Indent
      /\ new[size + 1] = comment /\ new[size + 2] = NewLine
  BY <1>1, <1>2, <1>3, <1>4
<1>6. Indent # NewLine /\ comment # NewLine
  BY DEF Indent, NewLine, Comments
<1>7. /\ LineAt(new, 0) = 0 /\ LineAt(new, size + 2) = Cardinality(NewLines(new))
      /\ \A i \in 0..size + 2 : i + 1 \in 1..size + 2 =>
           LineAt(new, i + 1) = IF new[i + 1] = NewLine THEN LineAt(new, i) + 1 ELSE LineAt(new, i)
  BY <1>5, NextLineAt
<1>8. \A i \in 0..size + 1 : LineAt(new, i) = 0
  <2> DEFINE T == {i \in Nat : i <= size + 1 => LineAt(new, i) = 0}
  <2>1. 0 \in T
    BY <1>7
  <2>2. ASSUME NEW i \in T PROVE i + 1 \in T
    <3> SUFFICES ASSUME i + 1 <= size + 1 PROVE LineAt(new, i + 1) = 0
      OBVIOUS
    <3>1. i \in 0..size + 2 /\ i + 1 \in 1..size + 2 /\ i <= size + 1 /\ (i + 1 \in 1..size \/ i + 1 = size + 1)
      BY <1>1
    <3>2. new[i + 1] # NewLine
      BY <1>5, <1>6, <3>1
    <3> QED
      BY <1>7, <3>1, <3>2
  <2> HIDE DEF T
  <2>3. \A i \in Nat : i \in T
    <3>1. T \subseteq Nat
      BY DEF T
    <3> QED
      BY <2>1, <2>2, <3>1, SetInduction
  <2> QED
    BY <2>3 DEF T
<1>9. Cardinality(NewLines(new)) = 1
  <2>1. size + 1 \in 0..size + 2 /\ (size + 1) + 1 \in 1..size + 2 /\ (size + 1) + 1 = size + 2 /\ size + 1 \in 0..size + 1
    BY <1>1
  <2>2. LineAt(new, size + 1) = 0
    BY <1>8, <2>1
  <2> QED
    BY <1>5, <1>7, <2>1, <2>2
<1>10. \A i \in 1..size + 2 : new[i] \notin Problems
  <2>1. Indent \notin Problems /\ NewLine \notin Problems /\ comment \notin Problems
    BY ProblemsAssumption
  <2>2. \A i \in 1..size + 2 : i \in 1..size \/ i = size + 1 \/ i = size + 2
    BY <1>1
  <2> QED
    BY <1>5, <2>1, <2>2
<1> QED
  BY <1>1, <1>5, <1>8, <1>9, <1>10 DEF new, size

(* A comment line of its own, put in front of a line.                              *)
LEMMA InsertedLine ==
  ASSUME NEW text \in Texts, NEW line \in 0..Lines(text) - 1, NEW indent \in Indents, NEW comment \in Comments,
         NEW put, put = Put(text, LineStart(text, line), indent \o <<comment, NewLine>>)
  PROVE  /\ put \in Texts /\ Lines(put) = Lines(text) + 1
         /\ \A k \in 0..Lines(text) - 1 : k < line => SameLine(text, k, put, k)
         /\ \A k \in 0..Lines(text) - 1 : line <= k => SameLine(text, k, put, k + 1)
         /\ Directive(put, line) = comment /\ CommentOnly(put, line)
         /\ \A i \in 1..Len(put) : put[i] \in Problems =>
              \E j \in 1..Len(text) :
                /\ text[j] = put[i]
                /\ LineAt(put, i - 1) = IF LineAt(text, j - 1) < line THEN LineAt(text, j - 1) ELSE LineAt(text, j - 1) + 1
<1> DEFINE new == indent \o <<comment, NewLine>>
           size == Len(indent)
           at == LineStart(text, line)
<1>1. /\ new \in Texts /\ size \in Nat /\ Len(new) = size + 2
      /\ \A i \in 1..size : new[i] = Indent
      /\ new[size + 1] = comment /\ new[size + 2] = NewLine
      /\ \A i \in 0..size + 1 : LineAt(new, i) = 0
      /\ Cardinality(NewLines(new)) = 1
      /\ \A i \in 1..size + 2 : new[i] \notin Problems
  BY ACommentLine
<1>2. put = Put(text, at, new)
  OBVIOUS
<1>3. /\ Len(text) \in Nat /\ Lines(text) \in Nat /\ at \in 0..Len(text) /\ line \in Nat
      /\ IsStart(text, at) /\ LineAt(text, at) = line
  BY NewLinesOfAText, StartsOfLines DEF Lines
<1> HIDE DEF new, size, at
<1>4. /\ put \in Texts /\ Len(put) = Len(text) + size + 2 /\ Lines(put) = Lines(text) + 1
      /\ \A i \in 1..at : put[i] = text[i]
      /\ \A i \in 1..size + 2 : put[at + i] = new[i]
      /\ \A i \in 0..size + 2 : LineAt(put, at + i) = line + LineAt(new, i)
  <2>1. /\ Put(text, at, new) \in Texts /\ Len(Put(text, at, new)) = Len(text) + Len(new)
        /\ \A i \in 1..at : Put(text, at, new)[i] = text[i]
        /\ \A i \in 1..Len(new) : Put(text, at, new)[at + i] = new[i]
    BY <1>1, <1>3, PutContent
  <2>2. /\ Lines(Put(text, at, new)) = Lines(text) + Cardinality(NewLines(new))
        /\ \A i \in 0..Len(new) : LineAt(Put(text, at, new), at + i) = LineAt(text, at) + LineAt(new, i)
    BY <1>1, <1>3, PutLines
  <2>3. put \in Texts /\ Len(put) = Len(text) + size + 2 /\ Lines(put) = Lines(text) + 1
    BY <1>1, <1>2, <1>3, <2>1, <2>2
  <2>4. /\ \A i \in 1..at : put[i] = text[i]
        /\ \A i \in 1..size + 2 : put[at + i] = new[i]
    BY <1>1, <1>2, <2>1
  <2>5. \A i \in 0..size + 2 : LineAt(put, at + i) = line + LineAt(new, i)
    BY <1>1, <1>2, <1>3, <2>2
  <2> QED
    BY <2>3, <2>4, <2>5
<1>5. ASSUME NEW k \in 0..Lines(text) - 1, k < line PROVE SameLine(text, k, put, k)
  <2>1. LineEnd(text, k) < at
    BY <1>3, <1>5, LinesAround
  <2> QED
    BY <1>1, <1>2, <1>3, <2>1, LinesInFront
<1>6. ASSUME NEW k \in 0..Lines(text) - 1, line <= k PROVE SameLine(text, k, put, k + 1)
  <2>1. at <= LineStart(text, k)
    <3>1. CASE k = line
      BY <1>3, <3>1 DEF at
    <3>2. CASE k # line
      <4>1. k > line
        BY <1>3, <1>6, <3>2
      <4> QED
        BY <1>3, <4>1, LinesAround, StartsOfLines
    <3> QED
      BY <3>1, <3>2
  <2>2. Len(new) # 0 /\ new[Len(new)] = NewLine
    BY <1>1
  <2>3. SameLine(text, k, Put(text, at, new), k + Cardinality(NewLines(new)))
    BY <1>1, <1>3, <2>1, <2>2, LinesBehind
  <2> QED
    BY <1>1, <1>2, <2>3
<1>7. Directive(put, line) = comment /\ CommentOnly(put, line)
  <2>1. /\ at \in 0..Len(put) /\ at + (size + 1) \in 0..Len(put) /\ (at + (size + 1)) + 1 = at + (size + 2)
        /\ 0 \in 0..size + 2 /\ size + 1 \in 0..size + 2 /\ size + 1 \in 0..size + 1 /\ 0 \in 0..size + 1 /\ at + 0 = at
        /\ size + 2 \in 1..size + 2 /\ size + 1 \in 1..size + 2
    BY <1>1, <1>3, <1>4
  <2>2. LineAt(put, at) = line /\ LineAt(put, at + (size + 1)) = line
    <3>1. LineAt(put, at + 0) = line + LineAt(new, 0) /\ LineAt(put, at + (size + 1)) = line + LineAt(new, size + 1)
      BY <1>4, <2>1
    <3>2. LineAt(new, 0) = 0 /\ LineAt(new, size + 1) = 0
      BY <1>1, <2>1
    <3> QED
      BY <1>3, <2>1, <3>1, <3>2
  <2>3. IsStart(put, at) /\ IsEnd(put, at + (size + 1))
    <3>1. at # 0 => at \in 1..at
      BY <1>3
    <3> QED
      BY <1>1, <1>3, <1>4, <2>1, <3>1 DEF IsStart, IsEnd
  <2>4. LineStart(put, line) = at /\ LineEnd(put, line) = at + (size + 1)
    BY <1>4, <2>1, <2>2, <2>3, StartsOfLines, EndsOfLines
  <2>5. line \in 0..Lines(put) - 1
    BY <1>3, <1>4
  <2>6. \A i \in at + 1 .. at + (size + 1) :
          /\ put[i] = IF i = at + (size + 1) THEN comment ELSE Indent
          /\ i # at + 1 /\ i = at + (size + 1) => put[i - 1] = Indent
    <3> SUFFICES ASSUME NEW i \in at + 1 .. at + (size + 1)
                 PROVE  /\ put[i] = IF i = at + (size + 1) THEN comment ELSE Indent
                        /\ i # at + 1 /\ i = at + (size + 1) => put[i - 1] = Indent
      OBVIOUS
    <3>1. i - at \in 1..size + 2 /\ at + (i - at) = i
      BY <1>1, <1>3
    <3>2. CASE i = at + (size + 1)
      <4>1. i - at = size + 1
        BY <1>1, <1>3, <3>2
      <4>2. put[i] = comment
        BY <1>1, <1>4, <3>1, <4>1
      <4>3. i # at + 1 => size \in 1..size /\ size \in 1..size + 2 /\ i - 1 = at + size
        BY <1>1, <1>3, <3>2
      <4>4. i # at + 1 => put[i - 1] = Indent
        BY <1>1, <1>4, <4>3
      <4> QED
        BY <3>2, <4>2, <4>4
    <3>3. CASE i # at + (size + 1)
      <4>1. i - at \in 1..size
        BY <1>1, <1>3, <3>3
      <4> QED
        BY <1>1, <1>4, <3>1, <3>3, <4>1
    <3> QED
      BY <3>2, <3>3
  <2>7. CommentOnly(put, line)
    BY <2>4, <2>6 DEF CommentOnly
  <2> DEFINE end == at + (size + 1)
  <2>8. end \in at + 1 .. end /\ end \in Int
    BY <1>1, <1>3
  <2>9. \A i \in at + 1 .. end : IsComment(put, i) <=> i = end
    <3> SUFFICES ASSUME NEW i \in at + 1 .. end PROVE IsComment(put, i) <=> i = end
      OBVIOUS
    <3>1. IsComment(put, i) <=> /\ put[i] \in Comments /\ put[at + 1] # Script
                                /\ put[i] = "ignore" \/ i = at + 1 \/ put[i - 1] = Indent
      BY <1>4, <2>4, <2>5, MarksOnTheLine
    <3>2. Indent \notin Comments /\ Script \notin Comments /\ Indent # Script
      BY DEF Indent, Script, Comments
    <3>3. put[at + 1] # Script
      <4>1. at + 1 \in at + 1 .. at + (size + 1)
        BY <1>1, <1>3
      <4> QED
        BY <2>6, <3>2, <4>1
    <3> QED
      BY <2>6, <3>1, <3>2, <3>3
  <2>10. Marks(put, line) = {end} /\ put[end] = comment
    BY <2>4, <2>6, <2>8, <2>9 DEF Marks
  <2>11. Directive(put, line) = comment
    BY <1>4, <2>4, <2>5, <2>10, CommentsOfLines
  <2> QED
    BY <2>7, <2>11
<1>8. ASSUME NEW i \in 1..Len(put), put[i] \in Problems
      PROVE  \E j \in 1..Len(text) :
                /\ text[j] = put[i]
                /\ LineAt(put, i - 1) = IF LineAt(text, j - 1) < line THEN LineAt(text, j - 1) ELSE LineAt(text, j - 1) + 1
  <2>1. PICK j \in 1..Len(text) :
           /\ text[j] = put[i]
           /\ \/ j <= at /\ LineAt(put, i - 1) = LineAt(text, j - 1)
              \/ j > at /\ LineAt(put, i - 1) = LineAt(text, j - 1) + 1
    <3>1. /\ \A k \in 1..Len(new) : new[k] \notin Problems
          /\ i \in 1..Len(Put(text, at, new)) /\ Put(text, at, new)[i] \in Problems
      BY <1>1, <1>2, <1>8
    <3>2. \E j \in 1..Len(text) :
           /\ text[j] = Put(text, at, new)[i]
           /\ \/ j <= at /\ LineAt(Put(text, at, new), i - 1) = LineAt(text, j - 1)
              \/ j > at /\ LineAt(Put(text, at, new), i - 1) = LineAt(text, j - 1) + Cardinality(NewLines(new))
      BY <1>1, <1>3, <3>1, ProblemsMove
    <3> QED
      BY <1>1, <1>2, <3>2
  <2>2. LineAt(text, j - 1) \in Nat /\ j - 1 \in 0..Len(text)
    BY <1>3, NextLineAt
  <2>3. ASSUME j <= at PROVE LineAt(text, j - 1) < line
    <3>1. j - 1 < at /\ j - 1 <= at
      BY <1>3, <2>3
    <3>2. LineAt(text, j - 1) <= line
      BY <1>3, <2>2, <3>1, LinesGrow
    <3>3. LineAt(text, j - 1) # line
      <4>1. ~(at <= j - 1)
        BY <1>3, <3>1
      <4> QED
        BY <2>2, <4>1, OnTheLine DEF at
    <3> QED
      BY <1>3, <2>2, <3>2, <3>3
  <2>4. ASSUME j > at PROVE ~(LineAt(text, j - 1) < line)
    <3>1. at <= j - 1
      BY <1>3, <2>4
    <3>2. line <= LineAt(text, j - 1)
      BY <1>3, <2>2, <3>1, LinesGrow
    <3> QED
      BY <1>3, <2>2, <3>2
  <2> QED
    BY <2>1, <2>3, <2>4
<1> QED
  BY <1>4, <1>5, <1>6, <1>7, <1>8

(* A comment at the end of a line.                                              *)
LEMMA InlineComment ==
  ASSUME NEW text \in Texts, NEW line \in 0..Lines(text) - 1, ~ScriptLine(text, line),
         NEW put, put = Put(text, LineEnd(text, line), <<"ignore">>)
  PROVE  /\ put \in Texts /\ Lines(put) = Lines(text)
         /\ \A k \in 0..Lines(text) - 1 : k # line => SameLine(text, k, put, k)
         /\ Directive(put, line) = "ignore" /\ (CommentOnly(put, line) <=> CommentOnly(text, line))
         /\ \A i \in 1..Len(put) : put[i] \in Problems =>
              \E j \in 1..Len(text) : text[j] = put[i] /\ LineAt(put, i - 1) = LineAt(text, j - 1)
<1> DEFINE new == <<"ignore">>
           at == LineEnd(text, line)
           start == LineStart(text, line)
<1>1. /\ new \in Texts /\ Len(new) = 1 /\ new[1] = "ignore"
      /\ LineAt(new, 0) = 0 /\ LineAt(new, 1) = 0
      /\ Cardinality(NewLines(new)) = 0
      /\ \A i \in 1..1 : new[i] \notin Problems
  <2>1. "ignore" \in Comments
    BY DEF Comments
  <2>2. new \in Texts
    <3>1. \A c \in Characters : <<c>> \in Texts
      BY DEF Texts
    <3> QED
      BY <2>1, <3>1, KnownCharacters
  <2>3. Len(new) = 1 /\ new[1] = "ignore"
    OBVIOUS
  <2> HIDE DEF new
  <2>4. "ignore" # NewLine /\ "ignore" \notin Problems
    BY <2>1, ProblemsAssumption DEF NewLine
  <2>5. 0 \in 0..Len(new) /\ 0 + 1 \in 1..Len(new) /\ 0 + 1 = 1
    BY <2>3
  <2>6. LineAt(new, 0) = 0 /\ LineAt(new, 1) = 0
    BY <2>2, <2>3, <2>4, <2>5, NextLineAt
  <2>7. LineAt(new, Len(new)) = Cardinality(NewLines(new))
    BY <2>2, NextLineAt
  <2> QED
    BY <2>2, <2>3, <2>4, <2>6, <2>7
<1>2. put = Put(text, at, new)
  OBVIOUS
<1>3. /\ Len(text) \in Nat /\ Lines(text) \in Nat /\ at \in 0..Len(text) /\ start \in 0..Len(text) /\ start <= at
      /\ line \in Nat /\ IsStart(text, start) /\ LineAt(text, start) = line /\ IsEnd(text, at) /\ LineAt(text, at) = line
  BY NewLinesOfAText, StartsOfLines, EndsOfLines, OnTheLine DEF Lines
<1> HIDE DEF new, at, start
<1>4. /\ put \in Texts /\ Len(put) = Len(text) + 1 /\ Lines(put) = Lines(text)
      /\ \A i \in 1..at : put[i] = text[i]
      /\ put[at + 1] = "ignore"
      /\ \A i \in at + 1 .. Len(text) : put[i + 1] = text[i]
      /\ \A i \in 0..at : LineAt(put, i) = LineAt(text, i)
      /\ LineAt(put, at + 1) = line
  <2>1. /\ Put(text, at, new) \in Texts /\ Len(Put(text, at, new)) = Len(text) + Len(new)
        /\ \A i \in 1..at : Put(text, at, new)[i] = text[i]
        /\ \A i \in 1..Len(new) : Put(text, at, new)[at + i] = new[i]
        /\ \A i \in at + 1 .. Len(text) : Put(text, at, new)[i + Len(new)] = text[i]
    BY <1>1, <1>3, PutContent
  <2>2. /\ Lines(Put(text, at, new)) = Lines(text) + Cardinality(NewLines(new))
        /\ \A i \in 0..at : LineAt(Put(text, at, new), i) = LineAt(text, i)
        /\ \A i \in 0..Len(new) : LineAt(Put(text, at, new), at + i) = LineAt(text, at) + LineAt(new, i)
    BY <1>1, <1>3, PutLines, ZenonT(60)
  <2>3. put \in Texts /\ Len(put) = Len(text) + 1 /\ Lines(put) = Lines(text)
    BY <1>1, <1>2, <1>3, <2>1, <2>2
  <2>4. \A i \in 1..at : put[i] = text[i]
    BY <1>2, <2>1
  <2>5. put[at + 1] = "ignore"
    BY <1>1, <1>2, <2>1
  <2>6. \A i \in at + 1 .. Len(text) : put[i + 1] = text[i]
    BY <1>1, <1>2, <2>1
  <2>7. \A i \in 0..at : LineAt(put, i) = LineAt(text, i)
    BY <1>2, <2>2
  <2>8. LineAt(put, at + 1) = line
    BY <1>1, <1>2, <1>3, <2>2
  <2> QED
    BY <2>3, <2>4, <2>5, <2>6, <2>7, <2>8
<1>5. ASSUME NEW k \in 0..Lines(text) - 1, k # line PROVE SameLine(text, k, put, k)
  <2>1. CASE k < line
    <3>1. LineEnd(text, k) < at
      BY <1>3, <2>1, LinesAround
    <3> QED
      BY <1>1, <1>2, <1>3, <3>1, LinesInFront
  <2>2. CASE k > line
    <3>1. at < LineStart(text, k)
      BY <1>3, <2>2, LinesAround
    <3>2. at <= LineStart(text, k) /\ at # LineStart(text, k)
      BY <1>3, <3>1, StartsOfLines
    <3>3. SameLine(text, k, Put(text, at, new), k + Cardinality(NewLines(new)))
      BY <1>1, <1>3, <3>2, LinesBehind
    <3>4. k + 0 = k
      BY <1>3
    <3> QED
      BY <1>1, <1>2, <3>3, <3>4
  <2> QED
    BY <1>3, <1>5, <2>1, <2>2
<1>6. Directive(put, line) = "ignore" /\ (CommentOnly(put, line) <=> CommentOnly(text, line))
  <2>1. start \in 0..Len(put) /\ start \in 0..at /\ at + 1 \in 0..Len(put)
    BY <1>3, <1>4
  <2>2. LineStart(put, line) = start
    <3>1. IsStart(put, start)
      BY <1>3, <1>4, <2>1 DEF IsStart
    <3>2. LineAt(put, start) = line
      BY <1>3, <1>4, <2>1
    <3> QED
      BY <1>4, <2>1, <3>1, <3>2, StartsOfLines
  <2>3. LineEnd(put, line) = at + 1
    <3>1. IsEnd(put, at + 1)
      <4>1. CASE at = Len(text)
        BY <1>4, <4>1 DEF IsEnd
      <4>2. CASE at # Len(text)
        <5>1. at + 1 \in at + 1 .. Len(text) /\ text[at + 1] = NewLine
          BY <1>3, <4>2 DEF IsEnd
        <5> QED
          BY <1>4, <5>1 DEF IsEnd
      <4> QED
        BY <4>1, <4>2
    <3> QED
      BY <1>4, <2>1, <3>1, EndsOfLines
  <2>4. line \in 0..Lines(put) - 1 /\ at + 1 \in start + 1 .. at + 1
    BY <1>3, <1>4
  <2>5. "ignore" \in Comments
    BY DEF Comments
  <2>6. Directive(put, line) = "ignore"
    <3>1. IsComment(put, at + 1)
      <4>1. IsComment(put, at + 1) <=>
              /\ put[at + 1] \in Comments /\ put[start + 1] # Script
              /\ put[at + 1] = "ignore" \/ at + 1 = start + 1 \/ put[(at + 1) - 1] = Indent
        BY <1>4, <2>2, <2>3, <2>4, MarksOnTheLine
      <4>2. CASE start = at
        BY <1>4, <2>5, <4>1, <4>2 DEF Script
      <4>3. CASE start # at
        <5>1. text[start + 1] # Script
          BY <4>3, ScriptsOnTheLine DEF start, at
        <5>2. start + 1 \in 1..at
          BY <1>3, <4>3
        <5> QED
          BY <1>4, <2>5, <4>1, <5>1, <5>2
      <4> QED
        BY <4>2, <4>3
    <3>2. at + 1 \in Marks(put, line)
      BY <2>2, <2>3, <2>4, <3>1 DEF Marks
    <3> QED
      BY <1>4, <2>3, <2>4, <3>2, CommentsOfLines
  <2>7. CommentOnly(put, line) <=> CommentOnly(text, line)
    <3>1. CommentOnly(put, line) <=> \A i \in start + 1 .. at + 1 : put[i] \in Comments \union {Indent}
      BY <2>2, <2>3 DEF CommentOnly
    <3>2. CommentOnly(text, line) <=> \A i \in start + 1 .. at : text[i] \in Comments \union {Indent}
      BY DEF CommentOnly, start, at
    <3>3. \A i \in start + 1 .. at : put[i] = text[i] /\ i \in start + 1 .. at + 1
      BY <1>3, <1>4
    <3>4. \A i \in start + 1 .. at + 1 : i \in start + 1 .. at \/ i = at + 1
      BY <1>3
    <3> QED
      BY <1>4, <2>5, <3>1, <3>2, <3>3, <3>4
  <2> QED
    BY <2>6, <2>7
<1>7. ASSUME NEW i \in 1..Len(put), put[i] \in Problems
      PROVE  \E j \in 1..Len(text) : text[j] = put[i] /\ LineAt(put, i - 1) = LineAt(text, j - 1)
  <2>1. /\ \A k \in 1..Len(new) : new[k] \notin Problems
        /\ i \in 1..Len(Put(text, at, new)) /\ Put(text, at, new)[i] \in Problems
    BY <1>1, <1>2, <1>7
  <2>2. PICK j \in 1..Len(text) :
           /\ text[j] = Put(text, at, new)[i]
           /\ \/ j <= at /\ LineAt(Put(text, at, new), i - 1) = LineAt(text, j - 1)
              \/ j > at /\ LineAt(Put(text, at, new), i - 1) = LineAt(text, j - 1) + Cardinality(NewLines(new))
    BY <1>1, <1>3, <2>1, ProblemsMove, SMTT(30)
  <2>3. LineAt(text, j - 1) \in Nat
    BY NextLineAt
  <2> QED
    BY <1>1, <1>2, <2>2, <2>3
<1> QED
  BY <1>4, <1>5, <1>6, <1>7

(* The end of a range, appended to the code of the last line.                       *)
LEMMA AppendedEnd ==
  ASSUME NEW text \in Texts, NEW indent \in Indents, indent # <<>>, NEW line, line = Lines(text) - 1,
         CommentOf(text, line) = <<>>, ~ScriptLine(text, line), NEW comment \in Comments,
         NEW put, put = Put(text, Len(text), indent \o <<comment, NewLine>>)
  PROVE  /\ put \in Texts /\ Lines(put) = Lines(text) + 1
         /\ \A k \in 0..Lines(text) - 1 : k # line => SameLine(text, k, put, k)
         /\ Directive(text, line) = "none" /\ Directive(put, line) = comment
         /\ \A i \in 1..Len(put) : put[i] \in Problems =>
              \E j \in 1..Len(text) : text[j] = put[i] /\ LineAt(put, i - 1) = LineAt(text, j - 1)
<1> DEFINE new == indent \o <<comment, NewLine>>
           size == Len(indent)
           at == Len(text)
           start == LineStart(text, line)
<1>1. /\ new \in Texts /\ size \in Nat /\ Len(new) = size + 2
      /\ \A i \in 1..size : new[i] = Indent
      /\ new[size + 1] = comment /\ new[size + 2] = NewLine
      /\ \A i \in 0..size + 1 : LineAt(new, i) = 0
      /\ Cardinality(NewLines(new)) = 1
      /\ \A i \in 1..size + 2 : new[i] \notin Problems
  BY ACommentLine
<1>2. put = Put(text, at, new) /\ size # 0
  <2>1. size # 0
    BY EmptySeq DEF Indents
  <2> QED
    BY <2>1
<1>0. Cardinality(NewLines(text)) \in Nat /\ line \in 0..Lines(text) - 1
  BY NewLinesOfAText DEF Lines
<1>3. /\ at \in Nat /\ Lines(text) \in Nat /\ at \in 0..Len(text) /\ start \in 0..at
      /\ line \in Nat /\ IsStart(text, start) /\ LineAt(text, start) = line /\ LineAt(text, at) = line
      /\ LineEnd(text, line) = at
  <2>1. LineAt(text, at) = line
    BY <1>0, NextLineAt DEF Lines
  <2>2. at \in Nat /\ at \in 0..Len(text)
    BY NewLinesOfAText
  <2>3. LineEnd(text, line) = at
    BY <2>1, <2>2, EndsOfLines DEF IsEnd
  <2> QED
    BY <1>0, <2>1, <2>2, <2>3, StartsOfLines DEF Lines
<1>4. Marks(text, line) = {} /\ Directive(text, line) = "none"
  BY <1>0, CommentsOfLines
<1> HIDE DEF new, size, start
<1>5. /\ put \in Texts /\ Len(put) = at + size + 2 /\ Lines(put) = Lines(text) + 1
      /\ \A i \in 1..at : put[i] = text[i]
      /\ \A i \in 1..size + 2 : put[at + i] = new[i]
      /\ \A i \in 0..at : LineAt(put, i) = LineAt(text, i)
      /\ LineAt(put, at + (size + 1)) = line
  <2>1. /\ Put(text, at, new) \in Texts /\ Len(Put(text, at, new)) = Len(text) + Len(new)
        /\ \A i \in 1..at : Put(text, at, new)[i] = text[i]
        /\ \A i \in 1..Len(new) : Put(text, at, new)[at + i] = new[i]
    BY <1>1, <1>3, PutContent
  <2>2. /\ Lines(Put(text, at, new)) = Lines(text) + Cardinality(NewLines(new))
        /\ \A i \in 0..at : LineAt(Put(text, at, new), i) = LineAt(text, i)
        /\ \A i \in 0..Len(new) : LineAt(Put(text, at, new), at + i) = LineAt(text, at) + LineAt(new, i)
    BY <1>1, <1>3, PutLines
  <2>3. put \in Texts /\ Len(put) = at + size + 2 /\ Lines(put) = Lines(text) + 1
    BY <1>1, <1>2, <1>3, <2>1, <2>2
  <2>4. \A i \in 1..at : put[i] = text[i]
    BY <1>2, <2>1
  <2>5. \A i \in 1..size + 2 : put[at + i] = new[i]
    BY <1>1, <1>2, <2>1
  <2>6. \A i \in 0..at : LineAt(put, i) = LineAt(text, i)
    BY <1>2, <2>2
  <2>7. LineAt(put, at + (size + 1)) = line
    <3>1. size + 1 \in 0..Len(new) /\ size + 1 \in 0..size + 1
      BY <1>1
    <3>2. LineAt(put, at + (size + 1)) = LineAt(text, at) + LineAt(new, size + 1)
      BY <1>2, <2>2, <3>1
    <3> QED
      BY <1>1, <1>3, <3>1, <3>2
  <2> QED
    BY <2>3, <2>4, <2>5, <2>6, <2>7
<1>6. ASSUME NEW k \in 0..Lines(text) - 1, k # line PROVE SameLine(text, k, put, k)
  <2>1. k < LineAt(text, at)
    BY <1>3, <1>6
  <2>2. LineEnd(text, k) < at
    BY <1>3, <2>1, LinesAround
  <2> QED
    BY <1>1, <1>2, <1>3, <2>2, LinesInFront
<1>7. Directive(put, line) = comment
  <2> DEFINE end == at + (size + 1)
  <2>1. /\ start \in 0..Len(put) /\ end \in 0..Len(put) /\ end \in Int /\ line \in 0..Lines(put) - 1
        /\ end \in start + 1 .. end /\ at < end /\ end + 1 = at + (size + 2) /\ size + 2 \in 1..size + 2
        /\ size + 1 \in 1..size + 2 /\ size \in 1..size /\ size \in 1..size + 2 /\ end - 1 = at + size
    BY <1>1, <1>2, <1>3, <1>5
  <2>2. LineStart(put, line) = start
    <3>0. start # 0 => start \in 1..at
      BY <1>3
    <3>1. IsStart(put, start)
      BY <1>3, <1>5, <3>0 DEF IsStart
    <3>2. LineAt(put, start) = line
      BY <1>3, <1>5, <2>1
    <3> QED
      BY <1>5, <2>1, <3>1, <3>2, StartsOfLines
  <2>3. LineEnd(put, line) = end
    <3>1. IsEnd(put, end)
      BY <1>1, <1>5, <2>1 DEF IsEnd
    <3> QED
      BY <1>5, <2>1, <3>1, EndsOfLines
  <2>4. put[end] = comment /\ put[end - 1] = Indent
    BY <1>1, <1>5, <2>1
  <2> HIDE DEF end
  <2>5. ASSUME NEW i \in start + 1 .. end PROVE IsComment(put, i) <=> i = end
    <3>1. IsComment(put, i) <=> /\ put[i] \in Comments /\ put[start + 1] # Script
                                /\ put[i] = "ignore" \/ i = start + 1 \/ put[i - 1] = Indent
      BY <1>5, <2>1, <2>2, <2>3, MarksOnTheLine
    <3>0. put[start + 1] # Script
      <4>1. CASE start = at
        <5>1. put[at + 1] = new[1] /\ new[1] = Indent
          <6>1. 1 \in 1..size + 2 /\ 1 \in 1..size
            BY <1>1, <1>2
          <6> QED
            BY <1>1, <1>5, <6>1
        <5> QED
          BY <4>1, <5>1 DEF Indent, Script
      <4>2. CASE start # at
        <5>1. text[start + 1] # Script
          BY <1>0, <1>3, <4>2, ScriptsOnTheLine DEF start
        <5>2. start + 1 \in 1..at
          BY <1>3, <4>2
        <5> QED
          BY <1>5, <5>1, <5>2
      <4> QED
        BY <4>1, <4>2
    <3>2. CASE i = end
      BY <2>4, <3>0, <3>1, <3>2
    <3>3. CASE at < i /\ i # end
      <4>1. i - at \in 1..size /\ i - at \in 1..size + 2 /\ at + (i - at) = i
        BY <1>1, <1>3, <2>1, <3>3 DEF end
      <4>2. put[i] = Indent
        BY <1>1, <1>5, <4>1
      <4> QED
        BY <3>1, <3>3, <4>2 DEF Indent, Comments
    <3>4. CASE i <= at
      <4>1. i \in start + 1 .. at /\ i \in 1..at /\ i # end
        BY <1>3, <2>1, <3>4
      <4>2. ~IsComment(text, i)
        BY <1>3, <1>4, <4>1 DEF Marks, start
      <4>3. IsComment(text, i) <=> /\ text[i] \in Comments /\ text[start + 1] # Script
                                   /\ text[i] = "ignore" \/ i = start + 1 \/ text[i - 1] = Indent
        BY <1>0, <1>3, <4>1, MarksOnTheLine DEF start
      <4>4. put[i] = text[i] /\ (i # start + 1 => put[i - 1] = text[i - 1])
        <5>1. i # start + 1 => i - 1 \in 1..at
          BY <1>3, <4>1
        <5> QED
          BY <1>5, <4>1, <5>1
      <4>5. text[start + 1] = put[start + 1]
        <5>1. start + 1 \in 1..at
          BY <1>3, <4>1
        <5> QED
          BY <1>5, <5>1
      <4> QED
        BY <3>0, <3>1, <4>1, <4>2, <4>3, <4>4, <4>5
    <3> QED
      BY <1>3, <3>2, <3>3, <3>4
  <2>6. Marks(put, line) = {end}
    BY <2>1, <2>2, <2>3, <2>5 DEF Marks
  <2> QED
    BY <1>5, <2>1, <2>3, <2>4, <2>6, CommentsOfLines
<1>8. ASSUME NEW i \in 1..Len(put), put[i] \in Problems
      PROVE  \E j \in 1..Len(text) : text[j] = put[i] /\ LineAt(put, i - 1) = LineAt(text, j - 1)
  <2>1. /\ \A k \in 1..Len(new) : new[k] \notin Problems
        /\ i \in 1..Len(Put(text, at, new)) /\ Put(text, at, new)[i] \in Problems
    BY <1>1, <1>2, <1>8
  <2>2. PICK j \in 1..Len(text) :
           /\ text[j] = Put(text, at, new)[i]
           /\ \/ j <= at /\ LineAt(Put(text, at, new), i - 1) = LineAt(text, j - 1)
              \/ j > at /\ LineAt(Put(text, at, new), i - 1) = LineAt(text, j - 1) + Cardinality(NewLines(new))
    <3>1. new \in Texts /\ at \in 0..Len(text)
      BY <1>1, <1>3
    <3> HIDE DEF new, at
    <3> QED
      BY <2>1, <3>1, ProblemsMove
  <2>3. ~(j > at)
    BY <1>3
  <2> QED
    BY <1>2, <2>2, <2>3
<1> QED
  BY <1>4, <1>5, <1>6, <1>7, <1>8
-----------------------------------------------------------------------------
(* What the comments in front of a line have said.                               *)
LEMMA CommentFits ==
  ASSUME NEW text \in Texts, NEW line \in 0..Lines(text) - 1
  PROVE  Len(CommentOf(text, line)) \in 0..LineEnd(text, line) - LineStart(text, line)
<1> DEFINE start == LineStart(text, line)
           end == LineEnd(text, line)
           marks == Marks(text, line)
<1>1. Len(text) \in Nat /\ start \in 0..Len(text) /\ end \in 0..Len(text) /\ start <= end /\ marks \subseteq start + 1 .. end
  BY NewLinesOfAText, StartsOfLines, EndsOfLines, OnTheLine DEF Marks
<1>2. CommentOf(text, line) = IF marks = {} THEN <<>> ELSE SubSeq(text, Min(marks), end)
  BY DEF CommentOf, Marks
<1> HIDE DEF start, end, marks
<1>3. CASE marks = {}
  <2>1. CommentOf(text, line) = <<>>
    BY <1>2, <1>3
  <2>2. Len(CommentOf(text, line)) = 0
    BY <2>1, EmptySeq
  <2> QED
    BY <1>1, <2>2 DEF start, end
<1>4. CASE marks # {}
  <2>1. Min(marks) \in marks
    <3>1. marks \subseteq Nat
      BY <1>1
    <3> QED
      BY <1>4, <3>1, LeastNatural
  <2> DEFINE first == Min(marks)
  <2>2. first \in start + 1 .. end
    BY <1>1, <2>1
  <2> HIDE DEF first
  <2>3. first \in 1..Len(text) /\ first \in Int /\ end \in Int /\ first <= end /\ \A i \in first..end : text[i] \in Characters
    <3>1. first \in 1..Len(text) /\ first \in Int /\ end \in Int /\ first <= end
      BY <1>1, <2>2
    <3> QED
      BY <1>1, <3>1, LenProperties DEF Texts
  <2>4. Len(SubSeq(text, first, end)) = end - first + 1
    BY <2>3, SubSeqProperties
  <2> QED
    BY <1>1, <1>2, <1>4, <2>2, <2>4 DEF start, end, first
<1> QED
  BY <1>3, <1>4

IsErrorAt(d, line) == d.problem \notin Problems /\ d.start.line = line /\ d.end.line = line

LEMMA OnLineIsOnTheLine ==
  ASSUME NEW text \in Texts, NEW line \in 0..Lines(text) - 1, NEW problem, problem \notin Problems
  PROVE  IsErrorAt(OnLine(text, problem, line), line)
<1> DEFINE start == LineStart(text, line)
           end == LineEnd(text, line)
           first == end - Len(CommentOf(text, line))
<1>1. /\ Len(text) \in Nat /\ start \in 0..Len(text) /\ end \in 0..Len(text) /\ start <= end
      /\ Len(CommentOf(text, line)) \in 0..end - start
  BY NewLinesOfAText, StartsOfLines, EndsOfLines, OnTheLine, CommentFits
<1>2. first \in 0..Len(text) /\ start <= first /\ first <= end
  BY <1>1
<1>3. OnLine(text, problem, line) = Diag(problem, IndexToPos(first, text), IndexToPos(end, text))
  BY DEF OnLine
<1> HIDE DEF first
<1>4. LineAt(text, first) = line /\ LineAt(text, end) = line
  BY <1>1, <1>2, OnTheLine
<1>5. IndexToPos(first, text).line = line /\ IndexToPos(end, text).line = line
  BY <1>1, <1>2, <1>4, LineOfAnIndex
<1> QED
  BY <1>3, <1>5 DEF Diag, IsErrorAt

(* One comment more.                                                          *)
IsCommented(after, info, directive, text, line) ==
  /\ after.wholeFile <=> info.wholeFile \/ directive = "ignore-file"
  /\ after.lines = info.lines \union (IF directive = "ignore" THEN {line} ELSE {})
                              \union (IF directive = "ignore-next-line" THEN {line + 1} ELSE {})
  /\ after.open <=> directive = "ignore-start" \/ (info.open /\ directive # "ignore-end")
  /\ after.start = IF directive = "ignore-start" /\ ~info.open THEN line ELSE info.start
  /\ after.ranges = info.ranges \union (IF directive = "ignore-end" /\ info.open THEN {<<info.start, line>>} ELSE {})
  /\ after.errors = info.errors
       \union (IF directive = "ignore-start" /\ info.open THEN {OnLine(text, "start in a range", line)} ELSE {})
       \union (IF directive = "ignore-end" /\ ~info.open THEN {OnLine(text, "end without start", line)} ELSE {})

LEMMA OneComment ==
  ASSUME NEW info \in Infos, NEW directive, NEW text, NEW line
  PROVE  IsCommented(Comment(info, directive, text, line), info, directive, text, line)
<1>1. info = [wholeFile |-> info.wholeFile, lines |-> info.lines, ranges |-> info.ranges, open |-> info.open,
              start |-> info.start, errors |-> info.errors] /\ info.open \in BOOLEAN /\ info.wholeFile \in BOOLEAN
  BY DEF Infos
<1>2. CASE directive = "ignore-file"
  BY <1>1, <1>2 DEF Comment, IsCommented
<1>3. CASE directive = "ignore"
  BY <1>1, <1>3 DEF Comment, IsCommented
<1>4. CASE directive = "ignore-next-line"
  BY <1>1, <1>4 DEF Comment, IsCommented
<1>5. CASE directive = "ignore-start"
  BY <1>1, <1>5 DEF Comment, IsCommented
<1>6. CASE directive = "ignore-end"
  BY <1>1, <1>6 DEF Comment, IsCommented
<1>7. CASE directive \notin {"ignore-file", "ignore", "ignore-next-line", "ignore-start", "ignore-end"}
  BY <1>1, <1>7 DEF Comment, IsCommented
<1> QED
  BY <1>2, <1>3, <1>4, <1>5, <1>6, <1>7

(* What the first lines of a text say, and what of it has been read.                 *)
NoEnd(text, from, to) == \A k \in from..to : Directive(text, k) # "ignore-end"
FileRead(text, n, info) == info.wholeFile <=> \E k \in 0..n - 1 : Directive(text, k) = "ignore-file"
LinesRead(text, n, info) ==
  \A line \in Nat : line \in info.lines <=>
    \/ line \in 0..n - 1 /\ Directive(text, line) = "ignore"
    \/ line - 1 \in 0..n - 1 /\ Directive(text, line - 1) = "ignore-next-line"
OpenRead(text, n, info) ==
  /\ info.open => /\ info.start \in 0..n - 1 /\ Directive(text, info.start) = "ignore-start"
                  /\ NoEnd(text, info.start + 1, n - 1)
  /\ \A s \in 0..n - 1 : Directive(text, s) = "ignore-start" /\ NoEnd(text, s + 1, n - 1) => info.open /\ info.start <= s
RangesRead(text, n, info) ==
  /\ \A r \in info.ranges : /\ r[1] \in 0..n - 1 /\ r[2] \in r[1] + 1 .. n - 1
                            /\ Directive(text, r[1]) = "ignore-start" /\ NoEnd(text, r[1] + 1, r[2] - 1)
                            /\ Directive(text, r[2]) = "ignore-end"
  /\ \A s \in 0..n - 1 : \A l \in s..n - 1 :
       Directive(text, s) = "ignore-start" /\ NoEnd(text, s + 1, l - 1) /\ ~NoEnd(text, l, n - 1) =>
         \E r \in info.ranges : r[1] <= s /\ l <= r[2]
ErrorsRead(text, n, info) ==
  \A d \in info.errors : /\ d.problem \notin Problems /\ d.start.line = d.end.line /\ d.start.line \in 0..n - 1
                         /\ Directive(text, d.start.line) \in {"ignore-start", "ignore-end"}
Reads(text, n, info) ==
  /\ info \in Infos /\ FileRead(text, n, info) /\ LinesRead(text, n, info)
  /\ OpenRead(text, n, info) /\ RangesRead(text, n, info) /\ ErrorsRead(text, n, info)

LEMMA NothingRead ==
  ASSUME NEW text
  PROVE  Reads(text, 0, NoComments)
<1>1. NoComments \in Infos
  BY DEF NoComments, Infos
<1>2. \A k : k \notin 0..0 - 1
  OBVIOUS
<1> QED
  BY <1>1, <1>2 DEF Reads, FileRead, LinesRead, OpenRead, RangesRead, ErrorsRead, NoComments

LEMMA NextRead ==
  ASSUME NEW text \in Texts, NEW n \in 0..Lines(text) - 1, NEW info, Reads(text, n, info)
  PROVE  Reads(text, n + 1, Comment(info, Directive(text, n), text, n))
<1> DEFINE directive == Directive(text, n)
           after == Comment(info, directive, text, n)
<1>1. info \in Infos /\ n \in Nat
  BY NewLinesOfAText DEF Reads, Lines
<1>2. after \in Infos
  BY <1>1, CommentKeepsInfos
<1>3. IsCommented(after, info, directive, text, n)
  BY <1>1, OneComment
<1> HIDE DEF after
<1>4. \A k : k \in 0..(n + 1) - 1 <=> k \in 0..n - 1 \/ k = n
  BY <1>1
<1>5. ASSUME NEW from \in Nat PROVE NoEnd(text, from, (n + 1) - 1) <=> NoEnd(text, from, n - 1) /\ (from <= n => directive # "ignore-end")
  <2>1. \A k : k \in from..(n + 1) - 1 <=> k \in from..n - 1 \/ (k = n /\ from <= n)
    BY <1>1
  <2> QED
    BY <2>1 DEF NoEnd
<1>6. FileRead(text, n + 1, after)
  BY <1>3, <1>4 DEF Reads, FileRead, IsCommented
<1>7. LinesRead(text, n + 1, after)
  <2> SUFFICES ASSUME NEW line \in Nat
               PROVE  line \in after.lines <=> \/ line \in 0..(n + 1) - 1 /\ Directive(text, line) = "ignore"
                                               \/ line - 1 \in 0..(n + 1) - 1 /\ Directive(text, line - 1) = "ignore-next-line"
    BY DEF LinesRead
  <2>1. line \in info.lines <=> \/ line \in 0..n - 1 /\ Directive(text, line) = "ignore"
                                \/ line - 1 \in 0..n - 1 /\ Directive(text, line - 1) = "ignore-next-line"
    BY DEF Reads, LinesRead
  <2>2. line \in after.lines <=> \/ line \in info.lines
                                 \/ line = n /\ directive = "ignore"
                                 \/ line = n + 1 /\ directive = "ignore-next-line"
    BY <1>3 DEF IsCommented
  <2>3. line = n + 1 <=> line - 1 = n
    BY <1>1
  <2> QED
    BY <1>4, <2>1, <2>2, <2>3
<1>8. OpenRead(text, n + 1, after)
  <2>1. /\ info.open => /\ info.start \in 0..n - 1 /\ Directive(text, info.start) = "ignore-start"
                        /\ NoEnd(text, info.start + 1, n - 1)
        /\ \A s \in 0..n - 1 : Directive(text, s) = "ignore-start" /\ NoEnd(text, s + 1, n - 1) => info.open /\ info.start <= s
    BY DEF Reads, OpenRead
  <2>2. ASSUME after.open
        PROVE  /\ after.start \in 0..(n + 1) - 1 /\ Directive(text, after.start) = "ignore-start"
               /\ NoEnd(text, after.start + 1, (n + 1) - 1)
    <3>1. CASE directive = "ignore-start" /\ ~info.open
      <4>1. after.start = n /\ n \in 0..(n + 1) - 1
        BY <1>1, <1>3, <3>1 DEF IsCommented
      <4>2. NoEnd(text, n + 1, (n + 1) - 1)
        BY <1>1 DEF NoEnd
      <4> QED
        BY <3>1, <4>1, <4>2
    <3>2. CASE info.open /\ directive # "ignore-end"
      <4>1. after.start = info.start
        BY <1>3, <3>2 DEF IsCommented
      <4>2. info.start \in 0..n - 1 /\ info.start + 1 \in Nat /\ info.start \in 0..(n + 1) - 1
        BY <1>1, <2>1, <3>2
      <4> QED
        BY <1>5, <2>1, <3>2, <4>1, <4>2
    <3> QED
      BY <1>3, <2>2, <3>1, <3>2 DEF IsCommented
  <2>3. ASSUME NEW s \in 0..(n + 1) - 1, Directive(text, s) = "ignore-start", NoEnd(text, s + 1, (n + 1) - 1)
        PROVE  after.open /\ after.start <= s
    <3>0. info.start \in Nat
      BY <1>1 DEF Infos
    <3>1. CASE s = n
      <4>1. after.open
        BY <1>3, <2>3, <3>1 DEF IsCommented
      <4>2. info.open => info.start <= n
        BY <1>1, <2>1
      <4>3. directive = "ignore-start"
        BY <2>3, <3>1
      <4>4. after.start = n \/ (info.open /\ after.start = info.start)
        BY <1>3, <4>3 DEF IsCommented
      <4> QED
        BY <1>1, <3>1, <4>1, <4>2, <4>4
    <3>2. CASE s \in 0..n - 1
      <4>1. s + 1 \in Nat /\ s + 1 <= n
        BY <1>1, <3>2
      <4>2. NoEnd(text, s + 1, n - 1) /\ directive # "ignore-end"
        BY <1>5, <2>3, <4>1
      <4>3. info.open /\ info.start <= s
        BY <2>1, <2>3, <3>2, <4>2
      <4> QED
        BY <1>3, <4>2, <4>3 DEF IsCommented
    <3> QED
      BY <1>4, <3>1, <3>2
  <2> QED
    BY <2>2, <2>3 DEF OpenRead
<1>9. RangesRead(text, n + 1, after)
  <2>1. ASSUME NEW r \in after.ranges
        PROVE  /\ r[1] \in 0..(n + 1) - 1 /\ r[2] \in r[1] + 1 .. (n + 1) - 1
               /\ Directive(text, r[1]) = "ignore-start" /\ NoEnd(text, r[1] + 1, r[2] - 1)
               /\ Directive(text, r[2]) = "ignore-end"
    <3>1. CASE r \in info.ranges
      <4>1. /\ r[1] \in 0..n - 1 /\ r[2] \in r[1] + 1 .. n - 1
            /\ Directive(text, r[1]) = "ignore-start" /\ NoEnd(text, r[1] + 1, r[2] - 1)
            /\ Directive(text, r[2]) = "ignore-end"
        BY <3>1 DEF Reads, RangesRead
      <4>2. r[1] \in 0..(n + 1) - 1 /\ r[2] \in r[1] + 1 .. (n + 1) - 1
        BY <1>1, <4>1
      <4> QED
        BY <4>1, <4>2
    <3>2. CASE r \notin info.ranges
      <4>1. directive = "ignore-end" /\ info.open /\ r = <<info.start, n>>
        BY <1>3, <2>1, <3>2 DEF IsCommented
      <4>2. /\ info.start \in 0..n - 1 /\ Directive(text, info.start) = "ignore-start"
            /\ NoEnd(text, info.start + 1, n - 1)
        BY <4>1 DEF Reads, OpenRead
      <4>3. info.start \in 0..(n + 1) - 1 /\ n \in info.start + 1 .. (n + 1) - 1 /\ r[1] = info.start /\ r[2] = n
        BY <1>1, <4>1, <4>2
      <4> QED
        BY <4>1, <4>2, <4>3
    <3> QED
      BY <3>1, <3>2
  <2>2. ASSUME NEW s \in 0..(n + 1) - 1, NEW l \in s..(n + 1) - 1,
               Directive(text, s) = "ignore-start", NoEnd(text, s + 1, l - 1), ~NoEnd(text, l, (n + 1) - 1)
        PROVE  \E r \in after.ranges : r[1] <= s /\ l <= r[2]
    <3>1. l \in Nat /\ l <= n /\ s <= l
      BY <1>1
    <3>2. ~NoEnd(text, l, n - 1) \/ directive = "ignore-end"
      BY <1>5, <2>2, <3>1
    <3>3. s # n
      <4> SUFFICES ASSUME s = n PROVE FALSE
        OBVIOUS
      <4>1. l = n /\ \A k : k \notin l..n - 1
        BY <1>1, <3>1
      <4> QED
        BY <2>2, <3>2, <4>1 DEF NoEnd
    <3>4. s \in 0..n - 1 /\ s + 1 \in Nat
      BY <1>1, <3>3
    <3>5. CASE ~NoEnd(text, l, n - 1)
      <4>1. l \in s..n - 1
        <5>1. \E k : k \in l..n - 1
          BY <3>5 DEF NoEnd
        <5> QED
          BY <1>1, <3>1, <5>1
      <4>2. \E r \in info.ranges : r[1] <= s /\ l <= r[2]
        BY <2>2, <3>4, <3>5, <4>1 DEF Reads, RangesRead
      <4> QED
        BY <1>3, <4>2 DEF IsCommented
    <3>6. CASE NoEnd(text, l, n - 1)
      <4>1. directive = "ignore-end"
        BY <3>2, <3>6
      <4>2. NoEnd(text, s + 1, n - 1)
        <5>1. \A k \in s + 1 .. n - 1 : k \in s + 1 .. l - 1 \/ k \in l..n - 1
          BY <1>1, <3>1
        <5> QED
          BY <2>2, <3>6, <5>1 DEF NoEnd
      <4>3. info.open /\ info.start <= s
        BY <2>2, <3>4, <4>2 DEF Reads, OpenRead
      <4>4. <<info.start, n>> \in after.ranges
        BY <1>3, <4>1, <4>3 DEF IsCommented
      <4>5. <<info.start, n>>[1] <= s /\ l <= <<info.start, n>>[2]
        BY <3>1, <4>3
      <4> QED
        BY <4>4, <4>5
    <3> QED
      BY <3>5, <3>6
  <2> QED
    BY <2>1, <2>2 DEF RangesRead
<1>10. ErrorsRead(text, n + 1, after)
  <2> SUFFICES ASSUME NEW d \in after.errors
               PROVE  /\ d.problem \notin Problems /\ d.start.line = d.end.line /\ d.start.line \in 0..(n + 1) - 1
                      /\ Directive(text, d.start.line) \in {"ignore-start", "ignore-end"}
    BY DEF ErrorsRead
  <2>1. CASE d \in info.errors
    BY <1>4, <2>1 DEF Reads, ErrorsRead
  <2>2. CASE d \notin info.errors
    <3>1. PICK problem \in {"start in a range", "end without start"} :
            directive \in {"ignore-start", "ignore-end"} /\ d = OnLine(text, problem, n)
      BY <1>3, <2>2 DEF IsCommented
    <3>2. problem \notin Problems
      BY ProblemsAssumption
    <3>3. d.problem \notin Problems /\ d.start.line = n /\ d.end.line = n
      BY <3>1, <3>2, OnLineIsOnTheLine DEF IsErrorAt
    <3> QED
      BY <1>4, <3>1, <3>2, <3>3
  <2> QED
    BY <2>1, <2>2
<1> QED
  BY <1>2, <1>6, <1>7, <1>8, <1>9, <1>10 DEF Reads, after

LEMMA AllRead ==
  ASSUME NEW text \in Texts
  PROVE  Reads(text, Lines(text), SuppressionsBefore(text, Lines(text)))
<1> DEFINE last == Lines(text)
<1>1. last \in Nat
  BY NewLinesOfAText DEF Lines
<1>2. PICK before : IsBefore(before, text, last) /\ SuppressionsBefore(text, last) = before[last]
  BY <1>1, SuppressionsComputed
<1> DEFINE T == {n \in Nat : n <= last => Reads(text, n, before[n])}
<1>3. 0 \in T
  <2>1. before[0] = NoComments
    BY <1>1, <1>2 DEF IsBefore
  <2> QED
    BY <2>1, NothingRead
<1>4. ASSUME NEW n \in T PROVE n + 1 \in T
  <2> SUFFICES ASSUME n + 1 <= last PROVE Reads(text, n + 1, before[n + 1])
    OBVIOUS
  <2>1. n \in Nat /\ n + 1 \in 0..last /\ n + 1 # 0 /\ (n + 1) - 1 = n /\ n <= last /\ n \in 0..last - 1
    BY <1>1
  <2>2. before[n + 1] = Comment(before[n], Directive(text, n), text, n)
    BY <1>2, <2>1 DEF IsBefore
  <2>3. Reads(text, n, before[n])
    BY <2>1
  <2> QED
    BY <2>1, <2>2, <2>3, NextRead
<1> HIDE DEF T, last
<1>5. T \subseteq Nat
  BY DEF T
<1>6. last \in T
  BY <1>1, <1>3, <1>4, <1>5, SetInduction
<1> QED
  BY <1>2, <1>6 DEF T, last
-----------------------------------------------------------------------------
(* A diagnostic is heard on a line that no comment is about.                       *)
Heard(text, line) ==
  /\ \A k \in 0..Lines(text) - 1 : Directive(text, k) # "ignore-file"
  /\ Directive(text, line) # "ignore"
  /\ line > 0 => Directive(text, line - 1) # "ignore-next-line"
  /\ \A s \in 0..line : Directive(text, s) = "ignore-start" /\ NoEnd(text, s + 1, line - 1) =>
       NoEnd(text, line, Lines(text) - 1)

LEMMA ParsedComments ==
  ASSUME NEW text \in Texts
  PROVE  LET info == SuppressionsBefore(text, Lines(text))
             parsed == ParseSuppressionComments(text)
         IN  /\ parsed.wholeFile = info.wholeFile /\ parsed.lines = info.lines /\ parsed.ranges = info.ranges
             /\ \A d \in parsed.errors :
                  \/ d \in info.errors
                  \/ /\ info.open /\ d.problem = "start without end"
                     /\ d.start.line = info.start /\ d.end.line = info.start
<1> DEFINE info == SuppressionsBefore(text, Lines(text))
           unclosed == Diag("start without end", Position(info.start, 0), Position(info.start, 100))
<1>1. info \in Infos
  BY AllRead DEF Reads
<1>2. ~info.open => ParseSuppressionComments(text) = info
  BY DEF ParseSuppressionComments
<1>3. info.open => ParseSuppressionComments(text) = [info EXCEPT !.errors = @ \union {unclosed}]
  BY DEF ParseSuppressionComments
<1>4. unclosed.problem = "start without end" /\ unclosed.start.line = info.start /\ unclosed.end.line = info.start
  BY DEF Diag, Position
<1> HIDE DEF info, unclosed
<1>5. info.open => /\ ParseSuppressionComments(text).wholeFile = info.wholeFile
                   /\ ParseSuppressionComments(text).lines = info.lines
                   /\ ParseSuppressionComments(text).ranges = info.ranges
                   /\ ParseSuppressionComments(text).errors = info.errors \union {unclosed}
  BY <1>1, <1>3 DEF Infos
<1>6. CASE ~info.open
  BY <1>2, <1>6 DEF info
<1>7. CASE info.open
  BY <1>4, <1>5, <1>7 DEF info
<1> QED
  BY <1>6, <1>7

LEMMA WhatIsNotSuppressedIsHeard ==
  ASSUME NEW text \in Texts, NEW d, d.start.line \in 0..Lines(text) - 1,
         ~isDiagnosticSuppressed(ParseSuppressionComments(text), d)
  PROVE  Heard(text, d.start.line)
<1> DEFINE info == SuppressionsBefore(text, Lines(text))
           parsed == ParseSuppressionComments(text)
           line == d.start.line
           n == Lines(text)
<1>1. n \in Nat /\ n >= 1 /\ line \in Nat /\ line \in 0..n - 1
  BY NewLinesOfAText DEF Lines
<1>2. Reads(text, n, info)
  BY AllRead
<1>3. parsed.wholeFile = info.wholeFile /\ parsed.lines = info.lines /\ parsed.ranges = info.ranges
  BY ParsedComments
<1> HIDE DEF info, parsed, n
<1>4. ~parsed.wholeFile /\ line \notin parsed.lines /\ \A r \in parsed.ranges : ~(r[1] <= line /\ line <= r[2])
  BY DEF isDiagnosticSuppressed, parsed
<1> HIDE DEF line
<1>5. \A k \in 0..n - 1 : Directive(text, k) # "ignore-file"
  BY <1>2, <1>3, <1>4 DEF Reads, FileRead
<1>6. Directive(text, line) # "ignore"
  BY <1>1, <1>2, <1>3, <1>4 DEF Reads, LinesRead
<1>7. line > 0 => Directive(text, line - 1) # "ignore-next-line"
  <2>1. line > 0 => line - 1 \in 0..n - 1
    BY <1>1
  <2> QED
    BY <1>1, <1>2, <1>3, <1>4, <2>1 DEF Reads, LinesRead
<1>8. ASSUME NEW s \in 0..line, Directive(text, s) = "ignore-start", NoEnd(text, s + 1, line - 1)
      PROVE  NoEnd(text, line, n - 1)
  <2> SUFFICES ASSUME ~NoEnd(text, line, n - 1) PROVE FALSE
    OBVIOUS
  <2>1. s \in 0..n - 1 /\ line \in s..n - 1
    BY <1>1
  <2>2. \E r \in info.ranges : r[1] <= s /\ line <= r[2]
    BY <1>2, <1>8, <2>1 DEF Reads, RangesRead
  <2>3. PICK r \in info.ranges : r[1] <= s /\ line <= r[2]
    BY <2>2
  <2>4. r[1] \in Nat
    <3>1. r[1] \in 0..n - 1
      BY <1>2, <2>3 DEF Reads, RangesRead
    <3> QED
      BY <3>1
  <2>5. r[1] <= line
    BY <1>1, <2>1, <2>3, <2>4
  <2> QED
    BY <1>3, <1>4, <2>3, <2>5
<1> QED
  BY <1>5, <1>6, <1>7, <1>8 DEF Heard, n, line
-----------------------------------------------------------------------------
(* A line with code on it is none that consists of comments only.                      *)
LEMMA CodeOnItsLine ==
  ASSUME NEW text \in Texts, NEW i \in 1..Len(text), text[i] \notin Comments \union {NewLine, Indent}
  PROVE  /\ LineAt(text, i - 1) = LineAt(text, i) /\ LineAt(text, i) \in 0..Lines(text) - 1
         /\ ~CommentOnly(text, LineAt(text, i))
<1> DEFINE line == LineAt(text, i)
<1>1. Len(text) \in Nat /\ i \in 0..Len(text) /\ i - 1 \in 0..Len(text) /\ (i - 1) + 1 = i /\ Lines(text) \in Nat
  BY NewLinesOfAText DEF Lines
<1>2. LineAt(text, i - 1) = line
  BY <1>1, NextLineAt
<1>3. line \in 0..Lines(text) - 1
  <2>1. LineAt(text, i) <= LineAt(text, Len(text))
    BY <1>1, LinesGrow
  <2>2. LineAt(text, i) \in Nat /\ LineAt(text, Len(text)) = Cardinality(NewLines(text))
        /\ Cardinality(NewLines(text)) \in Nat
    BY NextLineAt, NewLinesOfAText
  <2> QED
    BY <2>1, <2>2 DEF Lines
<1>4. LineStart(text, line) \in 0..Len(text) /\ LineEnd(text, line) \in 0..Len(text)
  BY <1>3, StartsOfLines, EndsOfLines
<1>5. LineStart(text, line) <= i - 1 /\ i <= LineEnd(text, line)
  <2> HIDE DEF line
  <2>1. LineAt(text, i) = line
    BY DEF line
  <2> QED
    BY <1>1, <1>2, <1>3, <2>1, OnTheLine
<1>6. i \in LineStart(text, line) + 1 .. LineEnd(text, line)
  BY <1>1, <1>4, <1>5
<1>7. ~CommentOnly(text, line)
  BY <1>6 DEF CommentOnly
<1> QED
  BY <1>2, <1>3, <1>7

(* What is known of a diagnostic of a text.                                       *)
Known(text, d) ==
  /\ d.start.line \in 0..Lines(text) - 1 /\ d.end.line \in 0..Lines(text) - 1 /\ d.start.line <= d.end.line
  /\ Heard(text, d.start.line)
  /\ d.problem \in Problems =>
       /\ \E i \in 1..Len(text) : text[i] = d.problem /\ LineAt(text, i - 1) = d.start.line
       /\ ~CommentOnly(text, d.start.line) /\ ~CommentOnly(text, d.end.line)
  /\ d.problem \notin Problems =>
       d.start.line = d.end.line /\ Directive(text, d.start.line) \in {"ignore-start", "ignore-end"}

LEMMA FoundAreProblems ==
  ASSUME NEW text \in Texts, NEW d \in Found(text)
  PROVE  /\ d.start.line \in 0..Lines(text) - 1 /\ d.end.line \in 0..Lines(text) - 1
         /\ d.problem \in Problems
         /\ \E i \in 1..Len(text) : text[i] = d.problem /\ LineAt(text, i - 1) = d.start.line
         /\ ~CommentOnly(text, d.start.line) /\ ~CommentOnly(text, d.end.line)
<1> DEFINE EndsAt(i) == {j \in i..Len(text) : text[j] = EndOf[text[i]] /\ ~InComment(text, j)}
           Each(i) == {Diag(text[i], IndexToPos(i - 1, text), IndexToPos(j, text)) : j \in EndsAt(i)}
           problems == {i \in DOMAIN text : text[i] \in Problems /\ ~InComment(text, i)}
<1>1. Found(text) = UNION {Each(i) : i \in problems}
  BY DEF Found
<1>2. PICK i \in problems : d \in Each(i)
  <2> HIDE DEF Each, problems
  <2> QED
    BY <1>1
<1>3. PICK j \in EndsAt(i) : d = Diag(text[i], IndexToPos(i - 1, text), IndexToPos(j, text))
  BY <1>2
<1>4. DOMAIN text = 1..Len(text) /\ Len(text) \in Nat
  BY LenProperties DEF Texts
<1>5. i \in 1..Len(text) /\ text[i] \in Problems
  <2>1. i \in DOMAIN text /\ text[i] \in Problems
    BY <1>2
  <2> QED
    BY <1>4, <2>1
<1>6. j \in 1..Len(text) /\ text[j] = EndOf[text[i]]
  <2>1. j \in i..Len(text) /\ text[j] = EndOf[text[i]]
    BY <1>3
  <2> QED
    BY <1>4, <1>5, <2>1
<1> HIDE DEF EndsAt, Each, problems
<1>7. d.problem = text[i] /\ d.start = IndexToPos(i - 1, text) /\ d.end = IndexToPos(j, text)
  BY <1>3 DEF Diag
<1>8. i - 1 \in 0..Len(text) /\ j \in 0..Len(text)
  BY <1>4, <1>5, <1>6
<1>9. d.start.line = LineAt(text, i - 1) /\ d.end.line = LineAt(text, j)
  BY <1>7, <1>8, LineOfAnIndex
<1>10. text[i] \notin Comments \union {NewLine, Indent} /\ text[j] \notin Comments \union {NewLine, Indent}
  BY <1>5, <1>6, ProblemsAssumption
<1>11. /\ LineAt(text, i - 1) = LineAt(text, i) /\ LineAt(text, i) \in 0..Lines(text) - 1
       /\ ~CommentOnly(text, LineAt(text, i))
  BY <1>5, <1>10, CodeOnItsLine
<1>12. LineAt(text, j) \in 0..Lines(text) - 1 /\ ~CommentOnly(text, LineAt(text, j))
  BY <1>6, <1>10, CodeOnItsLine
<1> QED
  BY <1>5, <1>7, <1>9, <1>11, <1>12

LEMMA ErrorsOnTheirLines ==
  ASSUME NEW text \in Texts, NEW d \in ParseSuppressionComments(text).errors
  PROVE  /\ d.problem \notin Problems /\ d.start.line = d.end.line /\ d.start.line \in 0..Lines(text) - 1
         /\ Directive(text, d.start.line) \in {"ignore-start", "ignore-end"}
<1> DEFINE info == SuppressionsBefore(text, Lines(text))
<1>1. Reads(text, Lines(text), info)
  BY AllRead
<1>2. \/ d \in info.errors
      \/ /\ info.open /\ d.problem = "start without end"
         /\ d.start.line = info.start /\ d.end.line = info.start
  BY ParsedComments
<1> HIDE DEF info
<1>3. CASE d \in info.errors
  BY <1>1, <1>3 DEF Reads, ErrorsRead
<1>4. CASE /\ info.open /\ d.problem = "start without end"
           /\ d.start.line = info.start /\ d.end.line = info.start
  <2>1. d.problem \notin Problems
    BY <1>4, ProblemsAssumption
  <2>2. info.start \in 0..Lines(text) - 1 /\ Directive(text, info.start) = "ignore-start"
    BY <1>1, <1>4 DEF Reads, OpenRead
  <2> QED
    BY <1>4, <2>1, <2>2
<1> QED
  BY <1>2, <1>3, <1>4

LEMMA DiagnosticsAreKnown ==
  ASSUME NEW text \in Texts, NEW d \in DiagnosticYAML(text)
  PROVE  Known(text, d)
<1>1. d \in Found(text) \union ParseSuppressionComments(text).errors
      /\ ~isDiagnosticSuppressed(ParseSuppressionComments(text), d)
  BY DEF DiagnosticYAML
<1>2. d.start.line <= d.end.line
  <2>1. d \in Ranges
    BY DiagnosticsAreRanges
  <2> QED
    BY <2>1 DEF Ranges
<1>3. CASE d \in Found(text)
  <2>1. d.start.line \in 0..Lines(text) - 1
    BY <1>3, FoundAreProblems
  <2>2. Heard(text, d.start.line)
    BY <1>1, <2>1, WhatIsNotSuppressedIsHeard
  <2> QED
    BY <1>2, <1>3, <2>2, FoundAreProblems DEF Known
<1>4. CASE d \in ParseSuppressionComments(text).errors
  <2>1. d.start.line \in 0..Lines(text) - 1
    BY <1>4, ErrorsOnTheirLines
  <2>2. Heard(text, d.start.line)
    BY <1>1, <2>1, WhatIsNotSuppressedIsHeard
  <2> QED
    BY <1>2, <1>4, <2>2, ErrorsOnTheirLines DEF Known
<1> QED
  BY <1>1, <1>3, <1>4
-----------------------------------------------------------------------------
(* A line that stays ignored whatever else is silenced: a comment is on it, alone on    *)
(* the line before it, or begins a range in front of it with nothing but comments       *)
(* in between.                                                               *)
Block(text, s, line) ==
  /\ Directive(text, s) = "ignore-start"
  /\ \A k \in s..line - 1 : CommentOnly(text, k) /\ Directive(text, k) # "ignore-end"
Ignored(text, line) ==
  \/ Directive(text, line) = "ignore"
  \/ line > 0 /\ Directive(text, line - 1) = "ignore-next-line" /\ CommentOnly(text, line - 1)
  \/ \E s \in 0..line - 1, e \in line..Lines(text) - 1 : Block(text, s, line) /\ Directive(text, e) = "ignore-end"

LEMMA WhatIsHeardIsNotIgnored ==
  ASSUME NEW text \in Texts, NEW line \in 0..Lines(text) - 1, Heard(text, line)
  PROVE  ~Ignored(text, line)
<1>1. Lines(text) \in Nat /\ line \in Nat
  BY NewLinesOfAText DEF Lines
<1>2. Directive(text, line) # "ignore" /\ ~(line > 0 /\ Directive(text, line - 1) = "ignore-next-line")
  BY DEF Heard
<1>3. ASSUME NEW s \in 0..line - 1, NEW e \in line..Lines(text) - 1, Block(text, s, line),
             Directive(text, e) = "ignore-end"
      PROVE  FALSE
  <2>1. s \in 0..line
    BY <1>1
  <2>2. NoEnd(text, s + 1, line - 1)
    <3>1. \A k \in s + 1 .. line - 1 : k \in s..line - 1
      BY <1>1, <2>1
    <3> QED
      BY <1>3, <3>1 DEF Block, NoEnd
  <2>3. NoEnd(text, line, Lines(text) - 1)
    BY <1>3, <2>1, <2>2 DEF Heard, Block
  <2> QED
    BY <1>3, <2>3 DEF NoEnd
<1> QED
  BY <1>2, <1>3 DEF Ignored

(* A comment line put in front of another line leaves ignored what was.                *)
LEMMA InsertedLineKeeps ==
  ASSUME NEW text \in Texts, NEW line \in 0..Lines(text) - 1, NEW indent \in Indents, NEW comment \in Comments,
         NEW put, put = Put(text, LineStart(text, line), indent \o <<comment, NewLine>>),
         comment = "ignore-end" => line > 0 /\ ~CommentOnly(text, line - 1),
         NEW l \in 0..Lines(text) - 1, Ignored(text, l), comment # "ignore-end" => l # line
  PROVE  Ignored(put, IF l < line THEN l ELSE l + 1)
<1> DEFINE n == Lines(text)
           moved(k) == IF k < line THEN k ELSE k + 1
<1>1. n \in Nat /\ line \in 0..n - 1 /\ l \in 0..n - 1
  BY NewLinesOfAText DEF Lines
<1>2. /\ \A k \in 0..n - 1 : k < line => SameLine(text, k, put, k)
      /\ \A k \in 0..n - 1 : line <= k => SameLine(text, k, put, k + 1)
  BY InsertedLine
<1>3. Lines(put) = n + 1 /\ Directive(put, line) = comment /\ CommentOnly(put, line)
  BY InsertedLine
<1> HIDE DEF n
<1>4. ASSUME NEW k \in 0..n - 1
      PROVE  /\ Directive(put, moved(k)) = Directive(text, k) /\ (CommentOnly(put, moved(k)) <=> CommentOnly(text, k))
  <2>1. k \in Int /\ line \in Int
    BY <1>1
  <2> QED
    BY <1>1, <1>2, <2>1 DEF SameLine
<1>5. CASE Directive(text, l) = "ignore"
  <2>1. Directive(put, moved(l)) = "ignore"
    BY <1>1, <1>4, <1>5
  <2> QED
    BY <2>1 DEF Ignored
<1>6. CASE l > 0 /\ Directive(text, l - 1) = "ignore-next-line" /\ CommentOnly(text, l - 1)
  <2>1. l # line
    BY <1>1, <1>6
  <2>2. l - 1 \in 0..n - 1 /\ moved(l - 1) = moved(l) - 1 /\ moved(l) > 0
    BY <1>1, <1>6, <2>1
  <2>3. Directive(put, moved(l) - 1) = "ignore-next-line" /\ CommentOnly(put, moved(l) - 1)
    BY <1>4, <1>6, <2>2
  <2> QED
    BY <2>2, <2>3 DEF Ignored
<1>7. ASSUME NEW s \in 0..l - 1, NEW e \in l..n - 1, Block(text, s, l), Directive(text, e) = "ignore-end"
      PROVE  Ignored(put, moved(l))
  <2>1. s \in 0..n - 1 /\ e \in 0..n - 1 /\ s \in 0..l - 1 /\ moved(s) \in 0..moved(l) - 1 /\ moved(e) \in moved(l)..n
    BY <1>1
  <2>2. Directive(put, moved(s)) = "ignore-start" /\ Directive(put, moved(e)) = "ignore-end"
    BY <1>4, <1>7, <2>1 DEF Block
  <2>3. ASSUME NEW k \in moved(s)..moved(l) - 1
        PROVE  CommentOnly(put, k) /\ Directive(put, k) # "ignore-end"
    <3>1. CASE k = line
      <4>1. line - 1 \in s..l - 1 \/ line <= s \/ line > l
        BY <1>1, <2>1
      <4>2. line - 1 \in s..l - 1
        BY <1>1, <2>1, <2>3, <3>1, <4>1
      <4>3. CommentOnly(text, line - 1)
        BY <1>7, <4>2 DEF Block
      <4> QED
        BY <1>3, <3>1, <4>3
    <3>2. CASE k # line
      <4>1. PICK old \in s..l - 1 : k = moved(old)
        <5>1. k < line => k \in s..l - 1 /\ k = moved(k)
          BY <1>1, <2>1, <2>3
        <5>2. k > line => k - 1 \in s..l - 1 /\ k = moved(k - 1)
          BY <1>1, <2>1, <2>3
        <5> QED
          BY <1>1, <2>1, <2>3, <3>2, <5>1, <5>2
      <4>2. CommentOnly(text, old) /\ Directive(text, old) # "ignore-end" /\ old \in 0..n - 1
        BY <1>1, <1>7, <2>1 DEF Block
      <4> QED
        BY <1>4, <4>1, <4>2
    <3> QED
      BY <3>1, <3>2
  <2>4. moved(e) \in moved(l)..Lines(put) - 1
    BY <1>1, <1>3, <2>1
  <2>5. Block(put, moved(s), moved(l))
    BY <2>2, <2>3 DEF Block
  <2> HIDE DEF moved
  <2> QED
    BY <2>1, <2>2, <2>4, <2>5 DEF Ignored
<1> QED
  BY <1>5, <1>6, <1>7 DEF Ignored, n

(* So does a comment on a line that a diagnostic is heard on.                         *)
LEMMA InlineCommentKeeps ==
  ASSUME NEW text \in Texts, NEW line \in 0..Lines(text) - 1, Heard(text, line),
         ~CommentOnly(text, line) \/ Directive(text, line) \in {"ignore-start", "ignore-end"},
         ~ScriptLine(text, line),
         NEW put, put = Put(text, LineEnd(text, line), <<"ignore">>),
         NEW l \in 0..Lines(text) - 1, Ignored(text, l)
  PROVE  Ignored(put, l)
<1> DEFINE n == Lines(text)
<1>1. n \in Nat /\ line \in 0..n - 1 /\ l \in 0..n - 1
  BY NewLinesOfAText DEF Lines
<1>2. /\ Lines(put) = n
      /\ \A k \in 0..n - 1 : k # line => SameLine(text, k, put, k)
      /\ Directive(put, line) = "ignore"
  BY InlineComment
<1> HIDE DEF n
<1>3. CASE Directive(text, l) = "ignore"
  <2>1. Directive(put, l) = "ignore"
    BY <1>1, <1>2, <1>3 DEF SameLine
  <2> QED
    BY <2>1 DEF Ignored
<1>4. CASE l > 0 /\ Directive(text, l - 1) = "ignore-next-line" /\ CommentOnly(text, l - 1)
  <2>1. l - 1 # line /\ l - 1 \in 0..n - 1
    BY <1>1, <1>4
  <2>2. Directive(put, l - 1) = "ignore-next-line" /\ CommentOnly(put, l - 1)
    BY <1>2, <1>4, <2>1 DEF SameLine
  <2> QED
    BY <1>4, <2>2 DEF Ignored
<1>5. ASSUME NEW s \in 0..l - 1, NEW e \in l..n - 1, Block(text, s, l), Directive(text, e) = "ignore-end"
      PROVE  Ignored(put, l)
  <2>1. s \in Nat /\ e \in Nat /\ s \in 0..n - 1 /\ e \in 0..n - 1 /\ s <= l - 1 /\ l <= e
    BY <1>1
  <2>2. ASSUME s <= line, NEW end \in l..n - 1, line <= end, Directive(text, end) = "ignore-end"
        PROVE  ~NoEnd(text, s + 1, line - 1)
    <3>1. s \in 0..line /\ end \in line..n - 1
      BY <1>1, <2>1, <2>2
    <3>2. ~NoEnd(text, line, n - 1)
      BY <2>2, <3>1 DEF NoEnd
    <3> QED
      BY <1>5, <3>1, <3>2 DEF Heard, Block, n
  <2>3. line \notin s..l - 1
    <3> SUFFICES ASSUME line \in s..l - 1 PROVE FALSE
      OBVIOUS
    <3>1. \A k \in s + 1 .. line - 1 : k \in s..l - 1
      BY <1>1, <2>1
    <3>2. NoEnd(text, s + 1, line - 1)
      BY <1>5, <3>1 DEF Block, NoEnd
    <3> QED
      BY <1>1, <1>5, <2>1, <2>2, <3>2
  <2>4. PICK end \in l..n - 1 : Directive(text, end) = "ignore-end" /\ end # line
    <3>1. CASE line # e
      BY <1>5, <3>1
    <3>2. CASE line = e
      <4>1. ~NoEnd(text, s + 1, line - 1)
        BY <1>1, <1>5, <2>1, <2>2, <3>2
      <4>2. PICK end \in s + 1 .. line - 1 : Directive(text, end) = "ignore-end"
        BY <4>1 DEF NoEnd
      <4>3. end \notin s..l - 1
        BY <1>5, <4>2 DEF Block
      <4>4. end \in l..n - 1 /\ end # line
        BY <1>1, <2>1, <4>3
      <4> QED
        BY <4>2, <4>4
    <3> QED
      BY <3>1, <3>2
  <2>5. \A k \in s..l - 1 : k \in 0..n - 1 /\ k # line
    BY <1>1, <2>1, <2>3
  <2>6. Block(put, s, l)
    BY <1>2, <1>5, <2>1, <2>5 DEF Block, SameLine
  <2>7. Directive(put, end) = "ignore-end"
    <3>1. end \in 0..n - 1
      BY <1>1
    <3> QED
      BY <1>2, <2>4, <3>1 DEF SameLine
  <2> QED
    BY <1>2, <2>6, <2>7 DEF Ignored
<1> QED
  BY <1>3, <1>4, <1>5 DEF Ignored, n

(* And the end of a range behind the code of the last line.                           *)
LEMMA AppendedEndKeeps ==
  ASSUME NEW text \in Texts, NEW indent \in Indents, indent # <<>>, NEW line, line = Lines(text) - 1,
         CommentOf(text, line) = <<>>, ~ScriptLine(text, line), NEW comment \in Comments,
         NEW put, put = Put(text, Len(text), indent \o <<comment, NewLine>>),
         NEW l \in 0..Lines(text) - 1, Ignored(text, l)
  PROVE  Ignored(put, l)
<1> DEFINE n == Lines(text)
<1>1. n \in Nat /\ n >= 1 /\ line \in 0..n - 1 /\ l \in 0..n - 1 /\ line = n - 1
  BY NewLinesOfAText DEF Lines
<1>2. /\ Lines(put) = n + 1
      /\ \A k \in 0..n - 1 : k # line => SameLine(text, k, put, k)
      /\ Directive(text, line) = "none"
  BY AppendedEnd
<1> HIDE DEF n
<1>3. CASE Directive(text, l) = "ignore"
  <2>1. Directive(put, l) = "ignore"
    BY <1>1, <1>2, <1>3 DEF SameLine
  <2> QED
    BY <2>1 DEF Ignored
<1>4. CASE l > 0 /\ Directive(text, l - 1) = "ignore-next-line" /\ CommentOnly(text, l - 1)
  <2>1. l - 1 # line /\ l - 1 \in 0..n - 1
    BY <1>1, <1>4
  <2>2. Directive(put, l - 1) = "ignore-next-line" /\ CommentOnly(put, l - 1)
    BY <1>2, <1>4, <2>1 DEF SameLine
  <2> QED
    BY <1>4, <2>2 DEF Ignored
<1>5. ASSUME NEW s \in 0..l - 1, NEW e \in l..n - 1, Block(text, s, l), Directive(text, e) = "ignore-end"
      PROVE  Ignored(put, l)
  <2>1. \A k \in s..l - 1 : k \in 0..n - 1 /\ k # line
    BY <1>1
  <2>2. s \in s..l - 1 /\ e \in 0..n - 1 /\ e # line
    BY <1>1, <1>2, <1>5
  <2>3. Block(put, s, l) /\ Directive(put, e) = "ignore-end"
    BY <1>2, <1>5, <2>1, <2>2 DEF Block, SameLine
  <2>4. e \in l..Lines(put) - 1
    BY <1>1, <1>2
  <2> QED
    BY <2>3, <2>4 DEF Ignored
<1> QED
  BY <1>3, <1>4, <1>5 DEF Ignored, n
-----------------------------------------------------------------------------
(* The problems that have been silenced are on lines that stay ignored.                *)
Silent(text, problems) ==
  \A i \in 1..Len(text) : text[i] \in problems => Ignored(text, LineAt(text, i - 1))
Once(text) ==
  \A i \in 1..Len(text), j \in 1..Len(text) : text[i] \in Problems /\ text[i] = text[j] => i = j

LEMMA ProblemsAreOnLines ==
  ASSUME NEW text \in Texts, NEW i \in 1..Len(text), text[i] \in Problems
  PROVE  LineAt(text, i - 1) \in 0..Lines(text) - 1
<1>1. text[i] \notin Comments \union {NewLine, Indent}
  BY ProblemsAssumption
<1> QED
  BY <1>1, CodeOnItsLine

(* A problem that is there once is on the line of its diagnostic.                      *)
LEMMA TheProblemsLine ==
  ASSUME NEW text \in Texts, Once(text), NEW d, Known(text, d), NEW i \in 1..Len(text), text[i] \in Problems,
         text[i] = d.problem
  PROVE  LineAt(text, i - 1) = d.start.line
<1>1. PICK j \in 1..Len(text) : text[j] = d.problem /\ LineAt(text, j - 1) = d.start.line
  BY DEF Known
<1>2. i = j
  BY <1>1 DEF Once
<1> QED
  BY <1>1, <1>2

LEMMA WhatIsHeardIsNotSilent ==
  ASSUME NEW text \in Texts, NEW d, Known(text, d), NEW problems, Silent(text, problems),
         NEW i \in 1..Len(text), text[i] \in problems
  PROVE  LineAt(text, i - 1) # d.start.line
<1>1. Ignored(text, LineAt(text, i - 1))
  BY DEF Silent
<1>2. ~Ignored(text, d.start.line)
  BY WhatIsHeardIsNotIgnored DEF Known
<1> QED
  BY <1>1, <1>2

(* A comment line in front of a line, but for the end of a range.                      *)
LEMMA InsertedLineSilences ==
  ASSUME NEW text \in Texts, NEW line \in 0..Lines(text) - 1, NEW indent \in Indents,
         NEW comment \in Comments, comment # "ignore-end",
         NEW put, put = Put(text, LineStart(text, line), indent \o <<comment, NewLine>>),
         NEW problems \in SUBSET Problems, Silent(text, problems),
         \A i \in 1..Len(text) : text[i] \in problems => LineAt(text, i - 1) # line,
         NEW more \in SUBSET Problems,
         \A i \in 1..Len(text) : text[i] \in more => LineAt(text, i - 1) = line,
         Ignored(put, line + 1)
  PROVE  Silent(put, problems \union more)
<1> SUFFICES ASSUME NEW i \in 1..Len(put), put[i] \in problems \union more
             PROVE  Ignored(put, LineAt(put, i - 1))
  BY DEF Silent
<1>1. PICK j \in 1..Len(text) :
        /\ text[j] = put[i]
        /\ LineAt(put, i - 1) = IF LineAt(text, j - 1) < line THEN LineAt(text, j - 1) ELSE LineAt(text, j - 1) + 1
  <2>1. put[i] \in Problems
    OBVIOUS
  <2> QED
    BY <2>1, InsertedLine
<1>2. CASE put[i] \in more
  <2>1. LineAt(text, j - 1) = line
    BY <1>1, <1>2
  <2> QED
    BY <1>1, <2>1
<1>3. CASE put[i] \in problems
  <2>1. Ignored(text, LineAt(text, j - 1)) /\ LineAt(text, j - 1) # line
    BY <1>1, <1>3 DEF Silent
  <2>2. LineAt(text, j - 1) \in 0..Lines(text) - 1
    BY <1>1, <1>3, ProblemsAreOnLines
  <2>3. Ignored(put, IF LineAt(text, j - 1) < line THEN LineAt(text, j - 1) ELSE LineAt(text, j - 1) + 1)
    BY <2>1, <2>2, InsertedLineKeeps
  <2> QED
    BY <1>1, <2>3
<1> QED
  BY <1>2, <1>3

LEMMA NextLineSilences ==
  ASSUME NEW text \in Texts, Once(text), NEW d, Known(text, d), NEW indent \in Indents,
         NEW put, put = Put(text, LineStart(text, d.start.line), indent \o <<"ignore-next-line", NewLine>>),
         NEW problems \in SUBSET Problems, Silent(text, problems)
  PROVE  Silent(put, problems \union ({d.problem} \intersect Problems))
<1> DEFINE comment == "ignore-next-line"
           line == d.start.line
           more == {d.problem} \intersect Problems
<1>1. comment \in Comments /\ comment # "ignore-end" /\ line \in 0..Lines(text) - 1 /\ Lines(text) \in Nat
  BY NewLinesOfAText DEF Comments, Known, Lines
<1>2. put = Put(text, LineStart(text, line), indent \o <<comment, NewLine>>)
  OBVIOUS
<1>3. comment = "ignore-next-line"
  OBVIOUS
<1> HIDE DEF comment
<1>4. Directive(put, line) = comment /\ CommentOnly(put, line)
  BY <1>1, <1>2, InsertedLine
<1>5. Ignored(put, line + 1)
  <2>1. line + 1 > 0 /\ (line + 1) - 1 = line
    BY <1>1
  <2> QED
    BY <1>3, <1>4, <2>1 DEF Ignored
<1>6. \A i \in 1..Len(text) : text[i] \in problems => LineAt(text, i - 1) # line
  BY WhatIsHeardIsNotSilent
<1>7. \A i \in 1..Len(text) : text[i] \in more => LineAt(text, i - 1) = line
  BY TheProblemsLine
<1>8. more \in SUBSET Problems
  OBVIOUS
<1> HIDE DEF line, more
<1>9. Silent(put, problems \union more)
  BY <1>1, <1>2, <1>5, <1>6, <1>7, <1>8, InsertedLineSilences
<1> QED
  BY <1>9 DEF more

LEMMA InlineSilences ==
  ASSUME NEW text \in Texts, Once(text), NEW d, Known(text, d), ~ScriptLine(text, d.start.line),
         NEW put, put = Put(text, LineEnd(text, d.start.line), <<"ignore">>),
         NEW problems \in SUBSET Problems, Silent(text, problems)
  PROVE  Silent(put, problems \union ({d.problem} \intersect Problems))
<1> DEFINE line == d.start.line
<1>1. line \in 0..Lines(text) - 1 /\ Heard(text, line) /\ ~ScriptLine(text, line)
      /\ (~CommentOnly(text, line) \/ Directive(text, line) \in {"ignore-start", "ignore-end"})
  BY DEF Known
<1>2. put = Put(text, LineEnd(text, line), <<"ignore">>)
  OBVIOUS
<1> SUFFICES ASSUME NEW i \in 1..Len(put), put[i] \in problems \union ({d.problem} \intersect Problems)
             PROVE  Ignored(put, LineAt(put, i - 1))
  BY DEF Silent
<1>3. PICK j \in 1..Len(text) : text[j] = put[i] /\ LineAt(put, i - 1) = LineAt(text, j - 1)
  <2>1. put[i] \in Problems
    OBVIOUS
  <2> HIDE DEF line
  <2> QED
    BY <1>1, <1>2, <2>1, InlineComment
<1>4. CASE put[i] \in problems
  <2>1. Ignored(text, LineAt(text, j - 1)) /\ LineAt(text, j - 1) \in 0..Lines(text) - 1
    BY <1>3, <1>4, ProblemsAreOnLines DEF Silent
  <2> HIDE DEF line
  <2> QED
    BY <1>1, <1>2, <1>3, <2>1, InlineCommentKeeps
<1>5. CASE put[i] \in {d.problem} \intersect Problems
  <2>1. LineAt(text, j - 1) = line
    BY <1>3, <1>5, TheProblemsLine
  <2>2. Directive(put, line) = "ignore"
    <3> HIDE DEF line
    <3> QED
      BY <1>1, <1>2, InlineComment
  <2> QED
    BY <1>3, <2>1, <2>2 DEF Ignored
<1> QED
  BY <1>4, <1>5

(* The end of the new range is put in first, the start then.                           *)
Ended(text, d, ended, problems) ==
  /\ ended \in Texts /\ d.start.line \in 0..Lines(ended) - 1
  /\ Silent(ended, problems)
  /\ \A i \in 1..Len(ended) : ended[i] \in problems => LineAt(ended, i - 1) # d.start.line
  /\ \A i \in 1..Len(ended) : ended[i] \in {d.problem} \intersect Problems => LineAt(ended, i - 1) = d.start.line
  /\ \E e \in d.start.line..Lines(ended) - 1 : Directive(ended, e) = "ignore-end"

LEMMA EndOnALineOfItsOwn ==
  ASSUME NEW text \in Texts, Once(text), NEW d, Known(text, d), d.problem \in Problems, d.end.line + 1 < Lines(text),
         NEW indent \in Indents,
         NEW put, put = Put(text, LineStart(text, d.end.line + 1), indent \o <<"ignore-end", NewLine>>),
         NEW problems \in SUBSET Problems, Silent(text, problems)
  PROVE  Ended(text, d, put, problems)
<1> DEFINE comment == "ignore-end"
           first == d.start.line
           line == d.end.line + 1
           moved(k) == IF k < line THEN k ELSE k + 1
<1>1. comment \in Comments /\ comment = "ignore-end"
  BY DEF Comments
<1>2. first \in 0..Lines(text) - 1 /\ line \in 0..Lines(text) - 1 /\ first < line /\ Lines(text) \in Nat
      /\ line > 0 /\ ~CommentOnly(text, line - 1)
  <2>1. d.end.line \in Nat /\ Lines(text) \in Nat /\ first \in Nat /\ first <= d.end.line
    BY NewLinesOfAText DEF Known, Lines
  <2>2. line - 1 = d.end.line
    BY <2>1
  <2> QED
    BY <2>1, <2>2, SMTT(30) DEF Known
<1>3. put = Put(text, LineStart(text, line), indent \o <<comment, NewLine>>)
  OBVIOUS
<1>4. \A i \in 1..Len(text) : text[i] \in problems => LineAt(text, i - 1) # first
  BY WhatIsHeardIsNotSilent
<1>5. \A i \in 1..Len(text) : text[i] \in {d.problem} \intersect Problems => LineAt(text, i - 1) = first
  BY TheProblemsLine
<1> HIDE DEF comment, first, line
<1>6. /\ put \in Texts /\ Lines(put) = Lines(text) + 1 /\ Directive(put, line) = comment
      /\ \A i \in 1..Len(put) : put[i] \in Problems =>
           \E j \in 1..Len(text) : text[j] = put[i] /\ LineAt(put, i - 1) = moved(LineAt(text, j - 1))
  <2>1. put \in Texts /\ Lines(put) = Lines(text) + 1
    BY <1>1, <1>2, <1>3, InsertedLine
  <2>2. Directive(put, line) = comment
    BY <1>1, <1>2, <1>3, InsertedLine
  <2>3. ASSUME NEW i \in 1..Len(put), put[i] \in Problems
        PROVE  \E j \in 1..Len(text) : text[j] = put[i] /\ LineAt(put, i - 1) = moved(LineAt(text, j - 1))
    BY <1>1, <1>2, <1>3, <2>3, InsertedLine
  <2> QED
    BY <2>1, <2>2, <2>3
<1>7. ASSUME NEW i \in 1..Len(put), put[i] \in problems
      PROVE  LineAt(put, i - 1) # first /\ Ignored(put, LineAt(put, i - 1))
  <2>1. PICK j \in 1..Len(text) : text[j] = put[i] /\ LineAt(put, i - 1) = moved(LineAt(text, j - 1))
    BY <1>6, <1>7
  <2>2. LineAt(text, j - 1) \in 0..Lines(text) - 1 /\ LineAt(text, j - 1) # first
    BY <1>4, <1>7, <2>1, ProblemsAreOnLines
  <2>3. Ignored(text, LineAt(text, j - 1))
    BY <1>7, <2>1 DEF Silent
  <2>4. Ignored(put, moved(LineAt(text, j - 1)))
    BY <1>1, <1>2, <1>3, <2>2, <2>3, InsertedLineKeeps
  <2> QED
    BY <1>2, <2>1, <2>2, <2>4
<1>8. ASSUME NEW i \in 1..Len(put), put[i] \in {d.problem} \intersect Problems
      PROVE  LineAt(put, i - 1) = first
  <2>1. PICK j \in 1..Len(text) : text[j] = put[i] /\ LineAt(put, i - 1) = moved(LineAt(text, j - 1))
    BY <1>6, <1>8
  <2> QED
    BY <1>2, <1>5, <1>8, <2>1
<1>9. first \in 0..Lines(put) - 1 /\ line \in first..Lines(put) - 1
  BY <1>2, <1>6
<1> QED
  BY <1>1, <1>6, <1>7, <1>8, <1>9 DEF Ended, Silent, first

LEMMA EndBehindTheLastLine ==
  ASSUME NEW text \in Texts, Once(text), NEW d, Known(text, d), d.end.line = Lines(text) - 1,
         NEW indent \in Indents, indent # <<>>, CommentOf(text, d.end.line) = <<>>, ~ScriptLine(text, d.end.line),
         NEW put, put = Put(text, Len(text), indent \o <<"ignore-end", NewLine>>),
         NEW problems \in SUBSET Problems, Silent(text, problems)
  PROVE  Ended(text, d, put, problems)
<1> DEFINE comment == "ignore-end"
           first == d.start.line
           line == d.end.line
<1>1. comment \in Comments /\ comment = "ignore-end"
  BY DEF Comments
<1>2. first \in 0..Lines(text) - 1 /\ line \in 0..Lines(text) - 1 /\ first <= line /\ Lines(text) \in Nat
  BY NewLinesOfAText DEF Known, Lines
<1>3. /\ put = Put(text, Len(text), indent \o <<comment, NewLine>>) /\ line = Lines(text) - 1
      /\ CommentOf(text, line) = <<>> /\ ~ScriptLine(text, line)
  OBVIOUS
<1>4. \A i \in 1..Len(text) : text[i] \in problems => LineAt(text, i - 1) # first
  BY WhatIsHeardIsNotSilent
<1>5. \A i \in 1..Len(text) : text[i] \in {d.problem} \intersect Problems => LineAt(text, i - 1) = first
  BY TheProblemsLine
<1> HIDE DEF comment, first, line
<1>6. /\ put \in Texts /\ Lines(put) = Lines(text) + 1 /\ Directive(put, line) = comment
      /\ \A i \in 1..Len(put) : put[i] \in Problems =>
           \E j \in 1..Len(text) : text[j] = put[i] /\ LineAt(put, i - 1) = LineAt(text, j - 1)
  <2>1. put \in Texts /\ Lines(put) = Lines(text) + 1
    BY <1>1, <1>2, <1>3, AppendedEnd
  <2>2. Directive(put, line) = comment
    BY <1>1, <1>2, <1>3, AppendedEnd
  <2>3. ASSUME NEW i \in 1..Len(put), put[i] \in Problems
        PROVE  \E j \in 1..Len(text) : text[j] = put[i] /\ LineAt(put, i - 1) = LineAt(text, j - 1)
    BY <1>1, <1>2, <1>3, <2>3, AppendedEnd
  <2> QED
    BY <2>1, <2>2, <2>3
<1>7. ASSUME NEW i \in 1..Len(put), put[i] \in problems
      PROVE  LineAt(put, i - 1) # first /\ Ignored(put, LineAt(put, i - 1))
  <2>1. PICK j \in 1..Len(text) : text[j] = put[i] /\ LineAt(put, i - 1) = LineAt(text, j - 1)
    BY <1>6, <1>7
  <2>2. LineAt(text, j - 1) \in 0..Lines(text) - 1 /\ LineAt(text, j - 1) # first
    BY <1>4, <1>7, <2>1, ProblemsAreOnLines
  <2>3. Ignored(text, LineAt(text, j - 1))
    BY <1>7, <2>1 DEF Silent
  <2>4. Ignored(put, LineAt(text, j - 1))
    BY <1>1, <1>2, <1>3, <2>2, <2>3, AppendedEndKeeps
  <2> QED
    BY <2>1, <2>2, <2>4
<1>8. ASSUME NEW i \in 1..Len(put), put[i] \in {d.problem} \intersect Problems
      PROVE  LineAt(put, i - 1) = first
  <2>1. PICK j \in 1..Len(text) : text[j] = put[i] /\ LineAt(put, i - 1) = LineAt(text, j - 1)
    BY <1>6, <1>8
  <2> QED
    BY <1>5, <1>8, <2>1
<1>9. first \in 0..Lines(put) - 1 /\ line \in first..Lines(put) - 1
  BY <1>2, <1>6
<1> QED
  BY <1>1, <1>6, <1>7, <1>8, <1>9 DEF Ended, Silent, first

LEMMA RangeSilences ==
  ASSUME NEW text \in Texts, NEW d, NEW ended, NEW problems \in SUBSET Problems, Ended(text, d, ended, problems),
         NEW indent \in Indents,
         NEW put, put = Put(ended, LineStart(ended, d.start.line), indent \o <<"ignore-start", NewLine>>)
  PROVE  Silent(put, problems \union ({d.problem} \intersect Problems))
<1> DEFINE comment == "ignore-start"
           line == d.start.line
           more == {d.problem} \intersect Problems
<1>1. comment \in Comments /\ comment # "ignore-end" /\ comment = "ignore-start"
  BY DEF Comments
<1>2. ended \in Texts /\ line \in 0..Lines(ended) - 1 /\ Lines(ended) \in Nat
  BY NewLinesOfAText DEF Ended, Lines
<1>3. put = Put(ended, LineStart(ended, line), indent \o <<comment, NewLine>>)
  OBVIOUS
<1>4. PICK e \in line..Lines(ended) - 1 : Directive(ended, e) = "ignore-end"
  BY DEF Ended
<1>5. /\ Silent(ended, problems)
      /\ \A i \in 1..Len(ended) : ended[i] \in problems => LineAt(ended, i - 1) # line
      /\ \A i \in 1..Len(ended) : ended[i] \in more => LineAt(ended, i - 1) = line
  BY DEF Ended
<1>6. more \in SUBSET Problems
  OBVIOUS
<1> HIDE DEF comment, line, more
<1>7. /\ Lines(put) = Lines(ended) + 1
      /\ \A k \in 0..Lines(ended) - 1 : line <= k => SameLine(ended, k, put, k + 1)
      /\ Directive(put, line) = comment /\ CommentOnly(put, line)
  <2>1. Lines(put) = Lines(ended) + 1
    BY <1>1, <1>2, <1>3, InsertedLine
  <2>2. ASSUME NEW k \in 0..Lines(ended) - 1, line <= k PROVE SameLine(ended, k, put, k + 1)
    BY <1>1, <1>2, <1>3, <2>2, InsertedLine
  <2>3. Directive(put, line) = comment /\ CommentOnly(put, line)
    BY <1>1, <1>2, <1>3, InsertedLine
  <2> QED
    BY <2>1, <2>2, <2>3
<1>8. Ignored(put, line + 1)
  <2>1. line \in 0..(line + 1) - 1 /\ e + 1 \in line + 1 .. Lines(put) - 1 /\ e \in 0..Lines(ended) - 1 /\ line <= e
    BY <1>2, <1>7
  <2>2. Directive(put, e + 1) = "ignore-end"
    BY <1>4, <1>7, <2>1 DEF SameLine
  <2>3. \A k \in line..(line + 1) - 1 : k = line
    BY <1>2
  <2>4. Block(put, line, line + 1)
    BY <1>1, <1>7, <2>3 DEF Block
  <2> QED
    BY <2>1, <2>2, <2>4 DEF Ignored
<1>9. Silent(put, problems \union more)
  BY <1>1, <1>2, <1>3, <1>5, <1>6, <1>8, InsertedLineSilences
<1> QED
  BY <1>9 DEF more
-----------------------------------------------------------------------------
(* The position of a line, and the text that is put there.                           *)
LEMMA PositionOfALine ==
  ASSUME NEW text \in Texts, NEW line \in 0..Lines(text) - 1
  PROVE  IndexToPos(LineStart(text, line), text) = Position(line, 0)
<1> DEFINE start == LineStart(text, line)
<1>1. start \in 0..Len(text) /\ IsStart(text, start) /\ LineAt(text, start) = line /\ Len(text) \in Nat
  BY StartsOfLines, NewLinesOfAText
<1> HIDE DEF start
<1>2. CASE Before(text, start) = {}
  <2>1. IndexToPos(start, text) = Position(0, start)
    BY <1>1, <1>2, PositionOfAnIndex
  <2>2. start = 0
    <3> SUFFICES ASSUME start # 0 PROVE FALSE
      OBVIOUS
    <3>1. text[start] = NewLine /\ start \in 1..Len(text)
      BY <1>1 DEF IsStart
    <3>2. start \in NewLines(text)
      BY <3>1, LenProperties DEF NewLines, Texts
    <3> QED
      BY <1>1, <1>2, <3>2 DEF Before
  <2>3. line = 0
    BY <1>1, <2>2, NextLineAt
  <2> QED
    BY <2>1, <2>2, <2>3 DEF start
<1>3. CASE Before(text, start) # {}
  <2>1. PICK end \in Before(text, start) :
          /\ \A i \in Before(text, start) : i <= end
          /\ IndexToPos(start, text) = Position(Cardinality(Before(text, start)), start - end)
    BY <1>1, <1>3, PositionOfAnIndex
  <2>2. end \in 1..Len(text) /\ end <= start
    BY NewLinesOfAText DEF Before
  <2>3. start \in 1..Len(text) /\ text[start] = NewLine
    BY <1>1, <2>2 DEF IsStart
  <2>4. start \in Before(text, start)
    <3>1. start \in NewLines(text)
      BY <2>3, LenProperties DEF NewLines, Texts
    <3> QED
      BY <1>1, <3>1 DEF Before
  <2>5. start <= end
    BY <2>1, <2>4
  <2>6. start - end = 0
    BY <2>2, <2>3, <2>5
  <2> QED
    BY <1>1, <2>1, <2>6 DEF start, LineAt
<1> QED
  BY <1>2, <1>3

LEMMA PutAtALine ==
  ASSUME NEW text \in Texts, NEW line \in 0..Lines(text) - 1, NEW new
  PROVE  Apply(Change(Position(line, 0), Position(line, 0), new), text) = Put(text, LineStart(text, line), Bytes(new))
<1>1. LineStart(text, line) \in 0..Len(text) /\ Len(text) \in Nat
  BY StartsOfLines, NewLinesOfAText
<1>2. PosToIndex(Position(line, 0), text) = LineStart(text, line)
  BY <1>1 DEF PosToIndex, Position, Smaller
<1> QED
  BY <1>2 DEF Apply, Change, Put

LEMMA CommentsAreNarrow ==
  ASSUME NEW indent \in Indents, NEW comment \in Comments
  PROVE  /\ Bytes(indent \o <<comment, NewLine>>) = indent \o <<comment, NewLine>>
         /\ Bytes(<<comment>>) = <<comment>>
<1> DEFINE new == indent \o <<comment, NewLine>>
           size == Len(indent)
<1>1. /\ new \in Texts /\ size \in Nat /\ Len(new) = size + 2
      /\ \A i \in 1..size : new[i] = Indent
      /\ new[size + 1] = comment /\ new[size + 2] = NewLine
  BY ACommentLine
<1>2. Indent # Wide /\ NewLine # Wide /\ comment # Wide
  BY WideAssumption, WideIsCode
<1>3. \A i \in 1..Len(new) : new[i] # Wide
  <2> HIDE DEF new, size
  <2>1. \A i \in 1..Len(new) : i \in 1..size \/ i = size + 1 \/ i = size + 2
    BY <1>1
  <2> QED
    BY <1>1, <1>2, <2>1
<1>4. Bytes(new) = new
  <2> HIDE DEF new
  <2> QED
    BY <1>1, <1>3, BytesOfNarrow
<1>5. Bytes(<<comment>>) = <<comment>>
  <2> DEFINE one == <<comment>>
  <2>1. comment \in Characters
    BY KnownCharacters
  <2>2. one \in Texts /\ Len(one) = 1 /\ one[1] = comment
    BY <2>1 DEF Texts
  <2>3. \A i \in 1..Len(one) : one[i] # Wide
    BY <1>2, <2>2
  <2> HIDE DEF one
  <2>4. Bytes(one) = one
    BY <2>2, <2>3, BytesOfNarrow
  <2> QED
    BY <2>4 DEF one
<1> QED
  BY <1>4, <1>5 DEF new
-----------------------------------------------------------------------------
(* The bytes of a text have its lines, and its comments.                            *)
LEMMA LinesOfBytes ==
  ASSUME NEW text \in Texts
  PROVE  Lines(Bytes(text)) = Lines(text)
BY BytesHaveTheSameLines DEF Lines

LEMMA InAPrefix ==
  ASSUME NEW text \in Texts, NEW rest \in Texts, NEW i \in 1..Len(text)
  PROVE  /\ LineAt(text \o rest, i) = LineAt(text, i)
         /\ InScript(text \o rest, i) <=> InScript(text, i)
         /\ IsComment(text \o rest, i) <=> IsComment(text, i)
<1> DEFINE both == text \o rest
<1>1. /\ both \in Texts /\ Len(both) = Len(text) + Len(rest) /\ \A k \in 1..Len(text) : both[k] = text[k]
  BY ConcatContent
<1>2. Len(text) \in Nat /\ Len(rest) \in Nat /\ DOMAIN text = 1..Len(text) /\ DOMAIN both = 1..Len(both)
  BY <1>1, LenProperties DEF Texts
<1> HIDE DEF both
<1>3. \A k \in Nat : k <= i => (k \in NewLines(both) <=> k \in NewLines(text))
  BY <1>1, <1>2 DEF NewLines
<1>4. NewLines(both) \subseteq Nat /\ NewLines(text) \subseteq Nat
  BY <1>2 DEF NewLines
<1>5. Before(both, i) = Before(text, i)
  BY <1>3, <1>4 DEF Before
<1>6. InScript(both, i) <=> InScript(text, i)
  <2>1. ASSUME NEW j \in 1..i
        PROVE  /\ both[j] = text[j]
               /\ j = 1 \/ both[j - 1] = text[j - 1]
               /\ \A k \in j..i : both[k] = text[k]
    <3>1. j \in 1..Len(text) /\ (j = 1 \/ j - 1 \in 1..Len(text)) /\ \A k \in j..i : k \in 1..Len(text)
      BY <1>2
    <3> QED
      BY <1>1, <3>1
  <2>2. ASSUME InScript(both, i) PROVE InScript(text, i)
    <3>1. PICK j \in 1..i : /\ both[j] = Script /\ (j = 1 \/ both[j - 1] = NewLine)
                           /\ \A k \in j..i : both[k] # NewLine
      BY <2>2 DEF InScript
    <3>2. text[j] = Script /\ (j = 1 \/ text[j - 1] = NewLine) /\ \A k \in j..i : text[k] # NewLine
      BY <2>1, <3>1
    <3> QED
      BY <3>2 DEF InScript
  <2>3. ASSUME InScript(text, i) PROVE InScript(both, i)
    <3>1. PICK j \in 1..i : /\ text[j] = Script /\ (j = 1 \/ text[j - 1] = NewLine)
                           /\ \A k \in j..i : text[k] # NewLine
      BY <2>3 DEF InScript
    <3>2. both[j] = Script /\ (j = 1 \/ both[j - 1] = NewLine) /\ \A k \in j..i : both[k] # NewLine
      BY <2>1, <3>1
    <3> QED
      BY <3>2 DEF InScript
  <2> QED
    BY <2>2, <2>3
<1>7. IsComment(both, i) <=> IsComment(text, i)
  <2>1. i # 1 => i - 1 \in 1..Len(text)
    BY <1>2
  <2>2. both[i] = text[i] /\ (i # 1 => both[i - 1] = text[i - 1])
    BY <1>1, <2>1
  <2> QED
    BY <1>6, <2>2 DEF IsComment
<1> QED
  BY <1>5, <1>6, <1>7 DEF LineAt, both

(* Whether a character is of a script depends on the one before it.                  *)
LEMMA ScriptGoesOn ==
  ASSUME NEW text \in Texts, NEW i \in 1..Len(text), NEW last \in Nat, last = i - 1
  PROVE  InScript(text, i) <=>
           /\ text[i] # NewLine
           /\ \/ text[i] = Script /\ (last = 0 \/ text[last] = NewLine)
              \/ InScript(text, last)
<1>1. Len(text) \in Nat /\ i \in Nat /\ i >= 1 /\ i - 1 = last /\ (i = 1 <=> last = 0)
  BY NewLinesOfAText
<1>2. ASSUME text[i] # NewLine, text[i] = Script, last = 0 \/ text[last] = NewLine PROVE InScript(text, i)
  <2>1. i \in 1..i /\ \A k \in i..i : k = i
    BY <1>1
  <2> QED
    BY <1>1, <1>2, <2>1 DEF InScript
<1>3. ASSUME text[i] # NewLine, InScript(text, last) PROVE InScript(text, i)
  <2>1. PICK j \in 1..last : /\ text[j] = Script /\ (j = 1 \/ text[j - 1] = NewLine)
                             /\ \A k \in j..last : text[k] # NewLine
    BY <1>3 DEF InScript
  <2>2. j \in 1..i /\ \A k \in j..i : k = i \/ k \in j..last
    BY <1>1
  <2> QED
    BY <1>3, <2>1, <2>2 DEF InScript
<1>4. ASSUME InScript(text, i)
      PROVE  /\ text[i] # NewLine
             /\ \/ text[i] = Script /\ (last = 0 \/ text[last] = NewLine)
                \/ InScript(text, last)
  <2>1. PICK j \in 1..i : /\ text[j] = Script /\ (j = 1 \/ text[j - 1] = NewLine)
                          /\ \A k \in j..i : text[k] # NewLine
    BY <1>4 DEF InScript
  <2>2. i \in j..i
    BY <1>1
  <2>3. CASE j = i
    BY <1>1, <2>1, <2>2, <2>3
  <2>4. CASE j # i
    <3>1. j \in 1..last /\ \A k \in j..last : k \in j..i
      BY <1>1, <2>4
    <3>2. InScript(text, last)
      BY <2>1, <3>1 DEF InScript
    <3> QED
      BY <2>1, <2>2, <3>2
  <2> QED
    BY <2>3, <2>4
<1> QED
  BY <1>2, <1>3, <1>4

(* The comments of the bytes are comments of the text.                               *)
MarksOfBytes(text) ==
  \A i \in 1..Len(Bytes(text)) : IsComment(Bytes(text), i) =>
    \E j \in 1..Len(text) : IsComment(text, j) /\ LineAt(text, j) = LineAt(Bytes(text), i)
ScriptsOfBytes(text) ==
  \A i \in 1..Len(Bytes(text)) : InScript(Bytes(text), i) =>
    \E j \in 1..Len(text) : InScript(text, j) /\ LineAt(text, j) = LineAt(Bytes(text), i)
EndsAlike(text) ==
  /\ Len(text) = 0 <=> Len(Bytes(text)) = 0
  /\ Len(text) > 0 /\ Bytes(text)[Len(Bytes(text))] \in {NewLine, Indent} =>
       text[Len(text)] = Bytes(text)[Len(Bytes(text))]
  /\ Len(text) > 0 /\ text[Len(text)] = NewLine => Bytes(text)[Len(Bytes(text))] = NewLine
  /\ InScript(text, Len(text)) <=> InScript(Bytes(text), Len(Bytes(text)))

LEMMA OneMoreCharacter ==
  ASSUME NEW text \in Texts, NEW c \in Characters, EndsAlike(text), MarksOfBytes(text), ScriptsOfBytes(text)
  PROVE  EndsAlike(Append(text, c)) /\ MarksOfBytes(Append(text, c)) /\ ScriptsOfBytes(Append(text, c))
<1> DEFINE more == Append(text, c)
           bytes == Bytes(text)
           code == Encoded(c)
           size == Len(text)
           count == Len(bytes)
           second == "second byte"
<1>1. /\ more \in Texts /\ size \in Nat /\ Len(more) = size + 1
      /\ \A i \in 1..size : more[i] = text[i]
      /\ more[size + 1] = c /\ more = text \o <<c>> /\ <<c>> \in Texts
  BY AppendProperties, AppendIsConcat, LenProperties DEF Texts
<1>2. bytes \in Texts /\ count \in Nat
  BY BytesAreAText
<1>3. code \in Texts /\ code = (IF c = Wide THEN <<Wide, second>> ELSE <<c>>)
  BY EncodedCharacter DEF Encoded
<1>13. /\ second \notin {NewLine, Indent, Script} /\ second \notin Comments
       /\ Wide \notin Comments /\ Wide # NewLine /\ Wide # Script
  BY WideIsCode, WideAssumption DEF NewLine, Indent, Script, Comments
<1> HIDE DEF second
<1>4. Bytes(more) = bytes \o code
  BY BytesAppend
<1> DEFINE both == bytes \o code
<1>5. /\ both \in Texts /\ Len(both) = count + Len(code)
      /\ \A i \in 1..count : both[i] = bytes[i]
      /\ \A i \in 1..Len(code) : both[count + i] = code[i]
  <2> HIDE DEF code
  <2> QED
    BY <1>2, <1>3, ConcatContent
<1>6. c # Wide => Len(both) = count + 1 /\ both[count + 1] = c
  <2>1. c # Wide => Len(code) = 1 /\ code[1] = c
    <3> HIDE DEF code
    <3> QED
      BY <1>3
  <2> HIDE DEF code, both, bytes, count
  <2>2. c # Wide => 1 \in 1..Len(code)
    BY <2>1
  <2> QED
    BY <1>2, <1>5, <2>1, <2>2
<1>7. c = Wide => Len(both) = count + 2 /\ both[count + 1] = Wide /\ both[count + 2] = second
  <2>1. c = Wide => Len(code) = 2 /\ code[1] = Wide /\ code[2] = second
    <3> HIDE DEF code
    <3> QED
      BY <1>3
  <2> HIDE DEF code, both, bytes, count
  <2>2. c = Wide => 1 \in 1..Len(code) /\ 2 \in 1..Len(code)
    BY <2>1
  <2> QED
    BY <1>2, <1>5, <2>1, <2>2
<1>8. /\ size = 0 <=> count = 0
      /\ size > 0 /\ bytes[count] \in {NewLine, Indent} => text[size] = bytes[count]
      /\ size > 0 /\ text[size] = NewLine => bytes[count] = NewLine
      /\ InScript(text, size) <=> InScript(bytes, count)
  BY DEF EndsAlike
<1>9. \A i \in 1..count : /\ LineAt(both, i) = LineAt(bytes, i)
                          /\ InScript(both, i) <=> InScript(bytes, i)
                          /\ IsComment(both, i) <=> IsComment(bytes, i)
  <2> HIDE DEF bytes, code
  <2> QED
    BY <1>2, <1>3, InAPrefix DEF count
<1>10. \A j \in 1..size : /\ LineAt(more, j) = LineAt(text, j)
                          /\ InScript(more, j) <=> InScript(text, j)
                          /\ IsComment(more, j) <=> IsComment(text, j)
  <2> HIDE DEF more
  <2> QED
    BY <1>1, InAPrefix
<1>11. LineAt(more, size + 1) = LineAt(both, Len(both))
  <2>1. LineAt(more, Len(more)) = Cardinality(NewLines(more))
    BY <1>1, NextLineAt
  <2>2. LineAt(both, Len(both)) = Cardinality(NewLines(both))
    BY <1>5, NextLineAt
  <2>3. Cardinality(NewLines(Bytes(more))) = Cardinality(NewLines(more))
    BY <1>1, BytesHaveTheSameLines
  <2> HIDE DEF more, both
  <2> QED
    BY <1>1, <1>4, <2>1, <2>2, <2>3 DEF both
<1>12. \A i \in 1..count :
         /\ IsComment(bytes, i) => \E j \in 1..size : IsComment(text, j) /\ LineAt(text, j) = LineAt(bytes, i)
         /\ InScript(bytes, i) => \E j \in 1..size : InScript(text, j) /\ LineAt(text, j) = LineAt(bytes, i)
  BY DEF MarksOfBytes, ScriptsOfBytes
<1>19. \A i \in 0..Len(both) : i + 1 \in 1..Len(both) =>
         LineAt(both, i + 1) = IF both[i + 1] = NewLine THEN LineAt(both, i) + 1 ELSE LineAt(both, i)
  <2> HIDE DEF both
  <2> QED
    BY <1>5, NextLineAt
<1> HIDE DEF more, bytes, code, size, count, both
<1>14. Len(both) \in Nat /\ Len(both) > 0
  BY <1>2, <1>6, <1>7
<1>15. both[Len(both)] \in {NewLine, Indent} => more[size + 1] = both[Len(both)]
  BY <1>1, <1>6, <1>7, <1>13
<1>20. more[size + 1] = NewLine => both[Len(both)] = NewLine
  BY <1>1, <1>6, <1>13
<1>21. \/ size = 0 /\ count = 0 /\ ~InScript(more, size) /\ ~InScript(both, count)
       \/ /\ size # 0 /\ count # 0
          /\ more[size] = NewLine <=> both[count] = NewLine
          /\ InScript(more, size) <=> InScript(both, count)
  <2>1. CASE size = 0
    <3>1. count = 0 /\ 1..0 = {}
      BY <1>8, <2>1
    <3> QED
      BY <2>1, <3>1 DEF InScript
  <2>2. CASE size # 0
    <3>1. size \in 1..size /\ count \in 1..count /\ count # 0 /\ size > 0
      BY <1>1, <1>2, <1>8, <2>2
    <3>2. more[size] = text[size] /\ both[count] = bytes[count]
      BY <1>1, <1>5, <3>1
    <3>3. InScript(more, size) <=> InScript(both, count)
      BY <1>8, <1>9, <1>10, <3>1
    <3> QED
      BY <1>8, <2>2, <3>1, <3>2, <3>3
  <2> QED
    BY <2>1, <2>2
<1>30. ASSUME NEW t \in Texts, NEW i \in 1..Len(t), NEW last \in Nat, last = i - 1
       PROVE  InScript(t, i) <=>
                /\ t[i] # NewLine
                /\ \/ t[i] = Script /\ (last = 0 \/ t[last] = NewLine)
                   \/ InScript(t, last)
  BY <1>30, ScriptGoesOn
<1>22. InScript(more, size + 1) <=>
         /\ c # NewLine
         /\ \/ c = Script /\ (size = 0 \/ more[size] = NewLine)
            \/ InScript(more, size)
  <2>1. size + 1 \in 1..Len(more) /\ size = (size + 1) - 1 /\ size \in Nat /\ more \in Texts
    BY <1>1
  <2>2. InScript(more, size + 1) <=>
          /\ more[size + 1] # NewLine
          /\ \/ more[size + 1] = Script /\ (size = 0 \/ more[size] = NewLine)
             \/ InScript(more, size)
    BY <2>1, <1>30
  <2> QED
    BY <1>1, <2>2
<1>23. InScript(both, count + 1) <=>
         /\ both[count + 1] # NewLine
         /\ \/ both[count + 1] = Script /\ (count = 0 \/ both[count] = NewLine)
            \/ InScript(both, count)
  <2>1. count + 1 \in 1..Len(both) /\ count = (count + 1) - 1 /\ count \in Nat
    BY <1>2, <1>6, <1>7
  <2>2. both \in Texts
    BY <1>5
  <2> QED
    BY <2>1, <2>2, <1>30
<1>24. c = Wide => (InScript(both, count + 2) <=> InScript(both, count + 1))
  <2> SUFFICES ASSUME c = Wide PROVE InScript(both, count + 2) <=> InScript(both, count + 1)
    OBVIOUS
  <2>1. count + 2 \in 1..Len(both) /\ count + 1 = (count + 2) - 1 /\ count + 1 \in Nat
    BY <1>2, <1>7
  <2>2. both[count + 2] \notin {NewLine, Script}
    BY <1>7, <1>13
  <2>3. InScript(both, count + 2) <=>
          /\ both[count + 2] # NewLine
          /\ \/ both[count + 2] = Script /\ (count + 1 = 0 \/ both[count + 1] = NewLine)
             \/ InScript(both, count + 1)
    BY <1>5, <2>1, <1>30
  <2> QED
    BY <2>2, <2>3
<1>25. InScript(more, size + 1) <=> InScript(both, count + 1)
  <2>1. both[count + 1] = c
    BY <1>6, <1>7
  <2>2. (size = 0 \/ more[size] = NewLine) <=> (count = 0 \/ both[count] = NewLine)
    BY <1>21
  <2>3. InScript(more, size) <=> InScript(both, count)
    BY <1>21
  <2> QED
    BY <1>22, <1>23, <2>1, <2>2, <2>3
<1>26. LineAt(both, count + 1) = LineAt(both, Len(both))
  <2>1. CASE c # Wide
    BY <1>6, <2>1
  <2>2. CASE c = Wide
    <3>1. count + 1 \in 0..Len(both) /\ (count + 1) + 1 \in 1..Len(both) /\ (count + 1) + 1 = count + 2
      BY <1>2, <1>7, <2>2
    <3>2. both[count + 2] # NewLine /\ Len(both) = count + 2
      BY <1>7, <1>13, <2>2
    <3> QED
      BY <1>19, <3>1, <3>2
  <2> QED
    BY <2>1, <2>2
<1>27. InScript(more, size + 1) <=> InScript(both, Len(both))
  BY <1>6, <1>7, <1>24, <1>25
<1>16. EndsAlike(more)
  <2>1. Len(more) = size + 1 /\ size + 1 # 0
    BY <1>1
  <2>2. Bytes(more) = both
    BY <1>4 DEF both
  <2> QED
    BY <1>14, <1>15, <1>20, <1>27, <2>1, <2>2 DEF EndsAlike
<1>17. ASSUME NEW i \in 1..Len(both), IsComment(both, i)
       PROVE  \E j \in 1..size + 1 : IsComment(more, j) /\ LineAt(more, j) = LineAt(both, i)
  <2>1. CASE i \in 1..count
    <3>1. PICK j \in 1..size : IsComment(text, j) /\ LineAt(text, j) = LineAt(bytes, i)
      BY <1>9, <1>12, <1>17, <2>1
    <3>2. j \in 1..size + 1
      BY <1>1
    <3> QED
      BY <1>9, <1>10, <2>1, <3>1, <3>2
  <2>2. CASE i \notin 1..count
    <3>1. i = count + 1 \/ i = count + 2
      BY <1>2, <1>6, <1>7, <2>2
    <3>2. both[i] \in Comments
      BY <1>17 DEF IsComment
    <3>3. c # Wide /\ i = count + 1 /\ i = Len(both) /\ both[i] = c
      BY <1>2, <1>6, <1>7, <1>13, <3>1, <3>2
    <3>4. c = "ignore" \/ i = 1 \/ both[i - 1] \in {NewLine, Indent}
      BY <1>17, <3>3 DEF IsComment
    <3>7. ~InScript(more, size + 1)
      BY <1>17, <1>25, <3>3 DEF IsComment
    <3>5. CASE c = "ignore" \/ size = 0
      <4>2. more[size + 1] \in Comments /\ (more[size + 1] = "ignore" \/ size + 1 = 1)
        BY <1>1, <3>2, <3>3, <3>5
      <4>1. IsComment(more, size + 1)
        BY <3>7, <4>2 DEF IsComment
      <4> QED
        BY <1>1, <1>11, <3>3, <4>1
    <3>6. CASE c # "ignore" /\ size # 0
      <4>1. count # 0 /\ i - 1 = count /\ count \in 1..count /\ i # 1
        BY <1>2, <1>8, <3>3, <3>6
      <4>2. both[count] \in {NewLine, Indent} /\ both[count] = bytes[count]
        BY <1>5, <3>4, <3>6, <4>1
      <4>3. size > 0 /\ text[size] \in {NewLine, Indent}
        BY <1>1, <1>8, <3>6, <4>2
      <4>4. more[size] = text[size] /\ (size + 1) - 1 = size
        <5>1. size \in 1..size
          BY <1>1, <4>3
        <5> QED
          BY <1>1, <5>1
      <4>5. IsComment(more, size + 1)
        BY <1>1, <3>2, <3>3, <3>7, <4>3, <4>4 DEF IsComment
      <4> QED
        BY <1>1, <1>11, <3>3, <4>5
    <3> QED
      BY <3>5, <3>6
  <2> QED
    BY <2>1, <2>2
<1>18. MarksOfBytes(more)
  <2>1. Bytes(more) = both /\ Len(more) = size + 1
    BY <1>1, <1>4 DEF both
  <2> QED
    BY <1>17, <2>1 DEF MarksOfBytes
<1>28. ASSUME NEW i \in 1..Len(both), InScript(both, i)
       PROVE  \E j \in 1..size + 1 : InScript(more, j) /\ LineAt(more, j) = LineAt(both, i)
  <2>1. CASE i \in 1..count
    <3>1. PICK j \in 1..size : InScript(text, j) /\ LineAt(text, j) = LineAt(bytes, i)
      BY <1>9, <1>12, <1>28, <2>1
    <3>2. j \in 1..size + 1
      BY <1>1
    <3> QED
      BY <1>9, <1>10, <2>1, <3>1, <3>2
  <2>2. CASE i \notin 1..count
    <3>1. i = count + 1 \/ (c = Wide /\ i = count + 2)
      BY <1>2, <1>6, <1>7, <2>2
    <3>2. InScript(more, size + 1)
      BY <1>24, <1>25, <1>28, <3>1
    <3>3. LineAt(more, size + 1) = LineAt(both, i)
      BY <1>7, <1>11, <1>26, <3>1
    <3>4. size + 1 \in 1..size + 1
      BY <1>1
    <3> QED
      BY <3>2, <3>3, <3>4
  <2> QED
    BY <2>1, <2>2
<1>29. ScriptsOfBytes(more)
  <2>1. Bytes(more) = both /\ Len(more) = size + 1
    BY <1>1, <1>4 DEF both
  <2> QED
    BY <1>28, <2>1 DEF ScriptsOfBytes
<1> QED
  BY <1>16, <1>18, <1>29 DEF more

LEMMA CommentsOfBytes ==
  ASSUME NEW text \in Texts
  PROVE  MarksOfBytes(text) /\ ScriptsOfBytes(text)
<1> DEFINE T == {t \in Texts : EndsAlike(t) /\ MarksOfBytes(t) /\ ScriptsOfBytes(t)}
<1>1. <<>> \in T
  <2>1. <<>> \in Texts /\ Bytes(<<>>) = <<>> /\ Len(<<>>) = 0
    BY EmptyBytes, EmptySeq DEF Texts
  <2>2. EndsAlike(<<>>)
    BY <2>1 DEF EndsAlike
  <2>3. MarksOfBytes(<<>>) /\ ScriptsOfBytes(<<>>)
    BY <2>1 DEF MarksOfBytes, ScriptsOfBytes
  <2> QED
    BY <2>1, <2>2, <2>3
<1>2. ASSUME NEW t \in Texts, NEW c \in Characters, t \in T PROVE Append(t, c) \in T
  <2>1. Append(t, c) \in Texts
    BY AppendProperties DEF Texts
  <2> QED
    BY <1>2, <2>1, OneMoreCharacter
<1> HIDE DEF T
<1>3. text \in T
  BY <1>1, <1>2, TextInduction
<1> QED
  BY <1>3 DEF T

LEMMA NoScriptInBytes ==
  ASSUME NEW text \in Texts, NEW line \in 0..Lines(text) - 1, ~ScriptLine(text, line)
  PROVE  ~ScriptLine(Bytes(text), line)
<1> DEFINE bytes == Bytes(text)
           end == LineEnd(bytes, line)
<1>1. bytes \in Texts /\ line \in 0..Lines(bytes) - 1 /\ Len(text) \in Nat /\ Len(bytes) \in Nat
  BY BytesAreAText, LinesOfBytes, NewLinesOfAText
<1>2. ScriptsOfBytes(text)
  BY CommentsOfBytes
<1> SUFFICES ASSUME InScript(bytes, end) PROVE FALSE
  BY DEF ScriptLine
<1>3. end \in 0..Len(bytes) /\ LineAt(bytes, end) = line
  <2> HIDE DEF bytes
  <2> QED
    BY <1>1, EndsOfLines
<1>4. end \in 1..Len(bytes)
  <2>1. \E j \in 1..end : TRUE
    BY DEF InScript
  <2> HIDE DEF end, bytes
  <2> QED
    BY <1>1, <1>3, <2>1
<1>5. PICK j \in 1..Len(text) : InScript(text, j) /\ LineAt(text, j) = line
  BY <1>2, <1>3, <1>4 DEF ScriptsOfBytes
<1> HIDE DEF bytes, end
<1>6. text[j] # NewLine
  <2>1. j \in 1..Len(text) /\ j - 1 \in Nat
    BY <1>1
  <2> QED
    BY <1>5, <2>1, ScriptGoesOn
<1>7. j \in 0..Len(text)
  BY <1>1
<1>8. LineStart(text, line) \in 0..Len(text) /\ LineEnd(text, line) \in 0..Len(text) /\ IsStart(text, LineStart(text, line))
  BY StartsOfLines, EndsOfLines
<1>9. LineStart(text, line) <= j /\ j <= LineEnd(text, line)
  BY <1>5, <1>7, OnTheLine
<1>10. LineStart(text, line) # j
  BY <1>1, <1>6, <1>8 DEF IsStart
<1>11. j \in LineStart(text, line) + 1 .. LineEnd(text, line) /\ LineStart(text, line) # LineEnd(text, line)
  BY <1>1, <1>8, <1>9, <1>10
<1> QED
  BY <1>5, <1>11, ScriptsOnTheLine

LEMMA NoCommentInBytes ==
  ASSUME NEW text \in Texts, NEW line \in 0..Lines(text) - 1, CommentOf(text, line) = <<>>
  PROVE  CommentOf(Bytes(text), line) = <<>>
<1> DEFINE bytes == Bytes(text)
<1>1. bytes \in Texts /\ line \in 0..Lines(bytes) - 1 /\ Len(text) \in Nat /\ Len(bytes) \in Nat
  BY BytesAreAText, LinesOfBytes, NewLinesOfAText
<1>2. Marks(text, line) = {}
  BY CommentsOfLines
<1>3. MarksOfBytes(text)
  BY CommentsOfBytes
<1> SUFFICES Marks(bytes, line) = {}
  <2> HIDE DEF bytes
  <2>1. CommentOf(bytes, line) = <<>>
    BY <1>1, CommentsOfLines
  <2> QED
    BY <2>1 DEF bytes
<1> SUFFICES ASSUME NEW i \in Marks(bytes, line) PROVE FALSE
  OBVIOUS
<1>4. /\ LineStart(bytes, line) \in 0..Len(bytes) /\ LineEnd(bytes, line) \in 0..Len(bytes)
      /\ \A index \in 0..Len(bytes) :
           LineAt(bytes, index) = line <=> LineStart(bytes, line) <= index /\ index <= LineEnd(bytes, line)
  <2> HIDE DEF bytes
  <2> QED
    BY <1>1, StartsOfLines, EndsOfLines, OnTheLine
<1>5. i \in 1..Len(bytes) /\ IsComment(bytes, i) /\ LineAt(bytes, i) = line
  <2>1. i \in LineStart(bytes, line) + 1 .. LineEnd(bytes, line) /\ IsComment(bytes, i)
    BY DEF Marks
  <2> HIDE DEF bytes
  <2>2. i \in 1..Len(bytes) /\ i \in 0..Len(bytes) /\ LineStart(bytes, line) <= i /\ i <= LineEnd(bytes, line)
    BY <1>1, <1>4, <2>1
  <2> QED
    BY <1>4, <2>1, <2>2
<1>6. PICK j \in 1..Len(text) : IsComment(text, j) /\ LineAt(text, j) = line
  BY <1>3, <1>5 DEF MarksOfBytes
<1>7. text[j] # NewLine
  BY <1>6 DEF IsComment, Comments, NewLine
<1>8. j \in 0..Len(text)
  BY <1>1
<1>9. LineStart(text, line) \in 0..Len(text) /\ LineEnd(text, line) \in 0..Len(text) /\ IsStart(text, LineStart(text, line))
  BY StartsOfLines, EndsOfLines
<1>10. LineStart(text, line) <= j /\ j <= LineEnd(text, line)
  BY <1>6, <1>8, OnTheLine
<1>11. LineStart(text, line) # j
  BY <1>1, <1>7, <1>9 DEF IsStart
<1>12. j \in LineStart(text, line) + 1 .. LineEnd(text, line)
  BY <1>1, <1>9, <1>10, <1>11
<1> QED
  BY <1>2, <1>6, <1>12 DEF Marks
-----------------------------------------------------------------------------
(* The editor's end of a line is the server's.                                     *)
LEMMA FirstByte ==
  ASSUME NEW text \in Texts, Len(text) > 0
  PROVE  Len(Bytes(text)) > 0 /\ Bytes(text)[1] = text[1]
<1> DEFINE T == {t \in Texts : Len(t) > 0 => Len(Bytes(t)) > 0 /\ Bytes(t)[1] = t[1]}
<1>1. <<>> \in T
  BY EmptySeq DEF Texts
<1>2. ASSUME NEW t \in Texts, NEW c \in Characters, t \in T PROVE Append(t, c) \in T
  <2> DEFINE more == Append(t, c)
             bytes == Bytes(t)
             code == Encoded(c)
             both == bytes \o code
  <2>1. /\ more \in Texts /\ Len(t) \in Nat /\ Len(more) = Len(t) + 1
        /\ \A i \in 1..Len(t) : more[i] = t[i]
        /\ more[Len(t) + 1] = c
    BY AppendProperties, LenProperties DEF Texts
  <2>2. bytes \in Texts /\ Len(bytes) \in Nat /\ code \in Texts
    BY BytesAreAText, EncodedCharacter
  <2>3. Len(code) \in Nat /\ Len(code) > 0 /\ code[1] = c
    <3> DEFINE second == "second byte"
    <3>1. code = (IF c = Wide THEN <<Wide, second>> ELSE <<c>>)
      BY DEF Encoded
    <3> HIDE DEF code, second
    <3> QED
      BY <3>1
  <2>4. Bytes(more) = both
    BY BytesAppend
  <2>5. Len(t) > 0 => Len(bytes) > 0 /\ bytes[1] = t[1]
    BY <1>2
  <2>6. Len(t) = 0 => bytes = <<>>
    <3> SUFFICES ASSUME Len(t) = 0 PROVE Bytes(t) = <<>>
      OBVIOUS
    <3>1. t = <<>>
      BY EmptySeq DEF Texts
    <3> QED
      BY <3>1, EmptyBytes
  <2>7. bytes = <<>> => Len(bytes) = 0
    OBVIOUS
  <2> HIDE DEF more, bytes, code
  <2>8. /\ Len(both) = Len(bytes) + Len(code)
        /\ \A i \in 1..Len(bytes) : both[i] = bytes[i]
        /\ \A i \in 1..Len(code) : both[Len(bytes) + i] = code[i]
    BY <2>2, ConcatContent
  <2> HIDE DEF both
  <2>9. CASE Len(t) > 0
    <3>1. 1 \in 1..Len(bytes) /\ 1 \in 1..Len(t)
      BY <2>1, <2>2, <2>5, <2>9
    <3>2. Len(both) > 0
      BY <2>2, <2>3, <2>8
    <3> QED
      BY <2>1, <2>4, <2>5, <2>8, <2>9, <3>1, <3>2 DEF more
  <2>10. CASE Len(t) = 0
    <3>1. Len(bytes) = 0 /\ 1 \in 1..Len(code) /\ Len(bytes) + 1 = 1 /\ Len(t) + 1 = 1
      BY <2>3, <2>6, <2>7, <2>10
    <3>2. both[1] = c /\ more[1] = c
      BY <2>1, <2>3, <2>8, <3>1
    <3>3. Len(both) > 0
      BY <2>2, <2>3, <2>8
    <3> QED
      BY <2>1, <2>4, <3>2, <3>3 DEF more
  <2> QED
    BY <2>1, <2>9, <2>10
<1> HIDE DEF T
<1>3. text \in T
  BY <1>1, <1>2, TextInduction
<1> QED
  BY <1>3 DEF T

LEMMA ServerReadsTheEnd ==
  ASSUME NEW text \in Texts, NEW line \in 0..Lines(text) - 1, Narrow(text, LineEnd(text, line))
  PROVE  PosToIndex(IndexToPos(LineEnd(text, line), text), Bytes(text)) = LineEnd(Bytes(text), line)
<1> DEFINE end == LineEnd(text, line)
           up == Upto(text, end)
           rest == Behind(text, end)
           front == Bytes(up)
           back == Bytes(rest)
           bytes == Bytes(text)
<1>1. end \in 0..Len(text) /\ Len(text) \in Nat /\ IsEnd(text, end) /\ LineAt(text, end) = line
  BY EndsOfLines, NewLinesOfAText
<1>2. PosToIndex(IndexToPos(end, text), bytes) = Len(front)
  <2> HIDE DEF end
  <2> QED
    BY <1>1, ServerReadsTheIndex DEF end
<1> HIDE DEF end
<1>3. /\ up \in Texts /\ rest \in Texts /\ Len(up) = end /\ Len(rest) = Len(text) - end
      /\ text = up \o rest
      /\ \A i \in 1..Len(text) - end : rest[i] = text[end + i]
  BY <1>1, Parts
<1>4. bytes = front \o back /\ front \in Texts /\ back \in Texts
  BY <1>1, BytesOfParts
<1>5. LineAt(bytes, Len(front)) = line
  <2>1. Before(front \o back, Len(front)) = NewLines(front)
    <3> HIDE DEF front, back
    <3> QED
      BY <1>4, BeforeInAPrefix
  <2>2. Cardinality(NewLines(front)) = Cardinality(NewLines(up))
    <3> HIDE DEF up
    <3> QED
      BY <1>3, BytesHaveTheSameLines
  <2>3. Before(up \o rest, Len(up)) = NewLines(up)
    <3> HIDE DEF up, rest
    <3> QED
      BY <1>3, BeforeInAPrefix
  <2>4. Before(text, end) = NewLines(up)
    <3> HIDE DEF up, rest
    <3> QED
      BY <1>3, <2>3
  <2> HIDE DEF up, rest, front, back, bytes
  <2> QED
    BY <1>1, <1>4, <2>1, <2>2, <2>4 DEF LineAt
<1>6. Len(rest) > 0 => Len(back) > 0 /\ back[1] = rest[1]
  <2> HIDE DEF rest
  <2> QED
    BY <1>3, FirstByte
<1>7. Len(rest) = 0 => Len(back) = 0
  <2>1. Len(rest) = 0 => rest = <<>>
    <3> HIDE DEF rest
    <3> QED
      BY <1>3, EmptySeq DEF Texts
  <2>2. rest = <<>> => back = <<>>
    BY EmptyBytes
  <2> HIDE DEF rest, back
  <2> QED
    BY <2>1, <2>2
<1> HIDE DEF up, rest, front, back
<1>8. /\ front \o back \in Texts /\ Len(front \o back) = Len(front) + Len(back)
      /\ \A i \in 1..Len(back) : (front \o back)[Len(front) + i] = back[i]
      /\ Len(front) \in Nat /\ Len(back) \in Nat
  BY <1>4, ConcatContent, NewLinesOfAText
<1> HIDE DEF bytes
<1>9. bytes \in Texts /\ Len(front) \in 0..Len(bytes) /\ Len(bytes) = Len(front) + Len(back)
      /\ (Len(back) > 0 => bytes[Len(front) + 1] = back[1])
  <2>1. Len(back) > 0 => 1 \in 1..Len(back)
    BY <1>8
  <2> QED
    BY <1>4, <1>8, <2>1
<1>10. IsEnd(bytes, Len(front))
  <2>1. CASE end = Len(text)
    <3>1. Len(rest) = 0
      BY <1>1, <1>3, <2>1
    <3> QED
      BY <1>7, <1>8, <1>9, <3>1 DEF IsEnd
  <2>2. CASE end # Len(text)
    <3>1. text[end + 1] = NewLine
      BY <1>1, <2>2 DEF IsEnd
    <3>2. Len(rest) > 0 /\ 1 \in 1..Len(text) - end
      BY <1>1, <1>3, <2>2
    <3>3. bytes[Len(front) + 1] = NewLine
      BY <1>3, <1>6, <1>9, <3>1, <3>2
    <3> QED
      BY <3>3 DEF IsEnd
  <2> QED
    BY <2>1, <2>2
<1>11. LineEnd(bytes, LineAt(bytes, Len(front))) = Len(front)
  BY <1>9, <1>10, EndsOfLines
<1> QED
  BY <1>2, <1>5, <1>11 DEF end, bytes
-----------------------------------------------------------------------------
(* What the server makes of the edits of an action.                                  *)
LEMMA OneEditOnTheServer ==
  ASSUME NEW edit, NEW parts, parts = [i \in DOMAIN <<edit>> |-> PartOf(<<edit>>[i])]
  PROVE  applyIncrementalChanges(server, [i \in DOMAIN parts |-> Sent(parts[i])]) = Apply(Sent(PartOf(edit)), server)
<1> DEFINE changes == [i \in DOMAIN parts |-> Sent(parts[i])]
<1>1. DOMAIN changes = 1..1 /\ changes[1] = Sent(PartOf(edit))
  <2>1. DOMAIN parts = 1..1 /\ parts[1] = PartOf(edit)
    OBVIOUS
  <2> QED
    BY <2>1
<1> HIDE DEF changes
<1>2. Len(changes) = 1 /\ Len(changes) \in Nat
  BY <1>1
<1>3. PICK after : IsApplied(after, server, changes, Len(changes))
                     /\ applyIncrementalChanges(server, changes) = after[Len(changes)]
  BY <1>2, AppliedComputed
<1>4. after[0] = server /\ after[1] = Apply(changes[1], after[0])
  BY <1>2, <1>3 DEF IsApplied
<1> QED
  BY <1>1, <1>2, <1>3, <1>4 DEF changes

LEMMA TwoEditsOnTheServer ==
  ASSUME NEW edit, NEW other, NEW parts, parts = [i \in DOMAIN <<edit, other>> |-> PartOf(<<edit, other>>[i])]
  PROVE  applyIncrementalChanges(server, [i \in DOMAIN parts |-> Sent(parts[i])]) =
           Apply(Sent(PartOf(other)), Apply(Sent(PartOf(edit)), server))
<1> DEFINE changes == [i \in DOMAIN parts |-> Sent(parts[i])]
<1>1. DOMAIN changes = 1..2 /\ changes[1] = Sent(PartOf(edit)) /\ changes[2] = Sent(PartOf(other))
  <2>1. DOMAIN parts = 1..2 /\ parts[1] = PartOf(edit) /\ parts[2] = PartOf(other)
    OBVIOUS
  <2> QED
    BY <2>1
<1> HIDE DEF changes
<1>2. Len(changes) = 2 /\ Len(changes) \in Nat
  BY <1>1
<1>3. PICK after : IsApplied(after, server, changes, Len(changes))
                     /\ applyIncrementalChanges(server, changes) = after[Len(changes)]
  BY <1>2, AppliedComputed
<1>4. after[0] = server /\ after[1] = Apply(changes[1], after[0]) /\ after[2] = Apply(changes[2], after[1])
  BY <1>2, <1>3 DEF IsApplied
<1> QED
  BY <1>1, <1>2, <1>3, <1>4 DEF changes

(* A comment line is put at the line, whatever changes the server has seen before.      *)
LEMMA InsertOnTheServer ==
  ASSUME client \in Texts, NEW text \in Texts, NEW line \in 0..Lines(client) - 1, line \in 0..Lines(text) - 1,
         NEW indent \in Indents, NEW comment \in Comments
  PROVE  Apply(Sent(PartOf(Insert(line, indent \o <<comment, NewLine>>))), text) =
           Put(text, LineStart(text, line), indent \o <<comment, NewLine>>)
<1> DEFINE new == indent \o <<comment, NewLine>>
           edit == Insert(line, new)
<1>1. line \in Nat /\ new \in Texts
  <2>1. Lines(client) \in Nat
    BY NewLinesOfAText DEF Lines
  <2> QED
    BY <2>1, ACommentLine
<1>2. Bytes(new) = new
  BY CommentsAreNarrow
<1> HIDE DEF new
<1>3. PartOf(edit) = Part(LineStart(client, line), LineStart(client, line), new)
  BY <1>1, ClientIndices DEF PartOf, Insert, Change
<1>4. Sent(PartOf(edit)) = Change(Position(line, 0), Position(line, 0), new)
  <2>1. IndexToPos(LineStart(client, line), client) = Position(line, 0)
    BY PositionOfALine
  <2> QED
    BY <1>3, <2>1 DEF Sent, Part
<1> HIDE DEF edit
<1>5. Apply(Sent(PartOf(edit)), text) = Put(text, LineStart(text, line), new)
  BY <1>2, <1>4, PutAtALine
<1> QED
  BY <1>5 DEF edit, new
-----------------------------------------------------------------------------
(* Nothing brings a problem in, so that each stays the only one of its kind.             *)
Plain(text) == \A i \in 1..Len(text) : text[i] \notin Problems

LEMMA OnceSpliced ==
  ASSUME NEW text \in Texts, NEW from \in 0..Len(text), NEW to \in from..Len(text), NEW new \in Texts,
         Plain(new), Once(text)
  PROVE  Once(Splice(text, from, to, new))
<1> DEFINE front == Upto(text, from)
           back == Behind(text, to)
           both == front \o new
           whole == both \o back
           size == Len(new)
<1>1. Len(text) \in Nat /\ from \in Nat /\ to \in Nat /\ from <= to /\ to <= Len(text) /\ to \in 0..Len(text)
      /\ size \in Nat
  BY NewLinesOfAText
<1>2. front \in Texts /\ Len(front) = from /\ \A i \in 1..from : front[i] = text[i]
  BY Parts
<1>3. back \in Texts /\ Len(back) = Len(text) - to /\ \A i \in 1..Len(text) - to : back[i] = text[to + i]
  BY <1>1, Parts
<1>4. Splice(text, from, to, new) = whole
  BY DEF Splice, Upto, Behind
<1> HIDE DEF front, back, size
<1>5. /\ both \in Texts /\ Len(both) = from + size
      /\ \A i \in 1..from : both[i] = text[i]
      /\ \A i \in 1..size : both[from + i] = new[i]
  <2>1. /\ both \in Texts /\ Len(both) = Len(front) + Len(new)
        /\ \A i \in 1..Len(front) : both[i] = front[i]
        /\ \A i \in 1..Len(new) : both[Len(front) + i] = new[i]
    BY <1>2, ConcatContent
  <2> QED
    BY <1>2, <2>1 DEF size
<1> HIDE DEF both
<1>6. /\ whole \in Texts /\ Len(whole) = Len(both) + Len(back)
      /\ \A i \in 1..Len(both) : whole[i] = both[i]
      /\ \A i \in 1..Len(back) : whole[Len(both) + i] = back[i]
  BY <1>3, <1>5, ConcatContent
<1> HIDE DEF whole
<1> DEFINE origin(i) == IF i <= from THEN i ELSE i - (from + size) + to
<1>7. Len(whole) = from + size + (Len(text) - to)
  BY <1>3, <1>5, <1>6
<1>8. ASSUME NEW i \in 1..Len(whole), whole[i] \in Problems
      PROVE  /\ i <= from \/ i > from + size
             /\ origin(i) \in 1..Len(text) /\ text[origin(i)] = whole[i]
  <2>1. CASE i <= from
    <3>1. i \in 1..from /\ i \in 1..Len(both) /\ i \in 1..Len(text)
      BY <1>1, <1>5, <2>1
    <3> QED
      BY <1>5, <1>6, <2>1, <3>1
  <2>2. CASE i > from /\ i <= from + size
    <3>1. i - from \in 1..size /\ from + (i - from) = i /\ i \in 1..Len(both)
      BY <1>1, <1>5, <2>2
    <3>2. whole[i] = new[i - from]
      BY <1>5, <1>6, <3>1
    <3> QED
      BY <1>8, <3>1, <3>2 DEF Plain, size
  <2>3. CASE i > from + size
    <3> DEFINE k == i - (from + size)
    <3>1. k \in 1..Len(text) - to /\ from + size + k = i /\ origin(i) = to + k /\ to + k \in 1..Len(text)
      BY <1>1, <1>7, <2>3
    <3> HIDE DEF k, origin
    <3>2. whole[i] = back[k] /\ back[k] = text[to + k]
      BY <1>3, <1>5, <1>6, <3>1
    <3> QED
      BY <2>3, <3>1, <3>2
  <2> QED
    BY <1>1, <2>1, <2>2, <2>3
<1>9. ASSUME NEW i \in 1..Len(whole), NEW j \in 1..Len(whole), whole[i] \in Problems, whole[i] = whole[j]
      PROVE  i = j
  <2>1. /\ i <= from \/ i > from + size
        /\ origin(i) \in 1..Len(text) /\ text[origin(i)] = whole[i]
    BY <1>8, <1>9
  <2>2. /\ j <= from \/ j > from + size
        /\ origin(j) \in 1..Len(text) /\ text[origin(j)] = whole[j]
    BY <1>8, <1>9
  <2>3. origin(i) = origin(j)
    <3> HIDE DEF origin
    <3> QED
      BY <1>9, <2>1, <2>2 DEF Once
  <2>4. i \in Nat /\ j \in Nat
    BY <1>1, <1>7
  <2> QED
    BY <1>1, <2>1, <2>2, <2>3, <2>4
<1> QED
  BY <1>4, <1>9 DEF Once

LEMMA OnceEdited ==
  ASSUME client \in Texts, Once(client), NEW parts, LastFirst(parts, client),
         \A i \in 1..Len(parts) : Plain(parts[i].text)
  PROVE  Once(Edited(client, parts))
<1> DEFINE last == Len(parts)
<1>1. /\ last \in Nat /\ Len(client) \in Nat
      /\ \A i \in 1..last : Replaceable(parts[i], client)
      /\ \A i \in 1..last : i + 1 \in 1..last => parts[i + 1].to <= parts[i].from
  BY NewLinesOfAText DEF LastFirst
<1>2. PICK edited : IsEdited(edited, client, parts, last) /\ Edited(client, parts) = edited[last]
  BY <1>1, EditedComputed
<1>3. \A i \in 1..last : Plain(parts[i].text)
  OBVIOUS
<1> HIDE DEF last
<1> DEFINE Good(n) ==
             /\ edited[n] \in Texts /\ Once(edited[n])
             /\ n + 1 \in 1..last => Agree(edited[n], client, parts[n + 1].to)
           T == {n \in Nat : n <= last => Good(n)}
<1>4. 0 \in T
  <2>1. edited[0] = client
    BY <1>1, <1>2 DEF IsEdited
  <2>2. 0 + 1 \in 1..last => Agree(client, client, parts[0 + 1].to)
    BY <1>1 DEF Agree, Replaceable
  <2> QED
    BY <2>1, <2>2
<1>5. ASSUME NEW n \in T PROVE n + 1 \in T
  <2> SUFFICES ASSUME n + 1 <= last PROVE Good(n + 1)
    OBVIOUS
  <2>1. /\ n \in Nat /\ n + 1 \in 1..last /\ n + 1 \in 0..last /\ n + 1 # 0 /\ (n + 1) - 1 = n /\ n <= last
    BY <1>1
  <2>2. edited[n] \in Texts /\ Once(edited[n]) /\ Agree(edited[n], client, parts[n + 1].to)
    BY <2>1
  <2> DEFINE part == parts[n + 1]
  <2>3. edited[n + 1] = Replace(part, edited[n])
    BY <1>2, <2>1 DEF IsEdited
  <2>4. Replaceable(part, client) /\ Plain(part.text)
    BY <1>1, <1>3, <2>1
  <2>5. edited[n + 1] \in Texts /\ Agree(edited[n + 1], client, part.from)
    <3>1. Agree(edited[n], client, part.to)
      BY <2>2
    <3> HIDE DEF part
    <3> QED
      BY <2>2, <2>3, <2>4, <3>1, NextChange
  <2>6. Once(edited[n + 1])
    <3>1. part.from \in 0..Len(edited[n]) /\ part.to \in part.from..Len(edited[n]) /\ part.text \in Texts
      <4>1. part.to \in 0..Len(edited[n]) /\ Len(edited[n]) \in Nat
        BY <2>2, NewLinesOfAText DEF Agree
      <4>2. part.from \in 0..Len(client) /\ part.to \in part.from..Len(client) /\ part.text \in Texts
        BY <2>4 DEF Replaceable
      <4> HIDE DEF part
      <4> QED
        BY <1>1, <4>1, <4>2
    <3> HIDE DEF part
    <3> QED
      BY <2>2, <2>3, <2>4, <3>1, OnceSpliced DEF Replace
  <2>7. (n + 1) + 1 \in 1..last => Agree(edited[n + 1], client, parts[(n + 1) + 1].to)
    <3> SUFFICES ASSUME (n + 1) + 1 \in 1..last PROVE Agree(edited[n + 1], client, parts[(n + 1) + 1].to)
      OBVIOUS
    <3> DEFINE to == parts[(n + 1) + 1].to
               from == parts[n + 1].from
    <3>1. to <= from /\ to \in Nat
      <4>1. to \in parts[(n + 1) + 1].from..Len(client) /\ parts[(n + 1) + 1].from \in 0..Len(client)
        BY <1>1 DEF Replaceable
      <4> QED
        BY <1>1, <2>1, <4>1
    <3> HIDE DEF to, from
    <3>2. Agree(edited[n + 1], client, to)
      BY <2>5, <3>1 DEF Agree, from
    <3> QED
      BY <3>2 DEF to
  <2> QED
    BY <2>5, <2>6, <2>7
<1> HIDE DEF T
<1>6. T \subseteq Nat
  BY DEF T
<1>7. last \in T
  BY <1>1, <1>4, <1>5, <1>6, SetInduction
<1> QED
  BY <1>1, <1>2, <1>7 DEF T

(* In the bytes of a text too.                                                   *)
LEMMA OnceInBytes ==
  ASSUME NEW text \in Texts, Once(text)
  PROVE  Once(Bytes(text))
<1> DEFINE Kept(t) == \A i \in 1..Len(Bytes(t)) : Bytes(t)[i] \in Problems => \E j \in 1..Len(t) : t[j] = Bytes(t)[i]
           T == {t \in Texts : Kept(t) /\ (Once(t) => Once(Bytes(t)))}
<1>1. <<>> \in T
  <2>1. Bytes(<<>>) = <<>> /\ <<>> \in Texts /\ Len(<<>>) = 0
    BY EmptyBytes, EmptySeq DEF Texts
  <2>2. Kept(<<>>)
    BY <2>1
  <2> QED
    BY <2>1, <2>2
<1>2. ASSUME NEW t \in Texts, NEW c \in Characters, t \in T PROVE Append(t, c) \in T
  <2> DEFINE more == Append(t, c)
             bytes == Bytes(t)
             code == Encoded(c)
             both == bytes \o code
             second == "second byte"
             size == Len(t)
             count == Len(bytes)
  <2>1. /\ more \in Texts /\ size \in Nat /\ Len(more) = size + 1
        /\ \A i \in 1..size : more[i] = t[i]
        /\ more[size + 1] = c
    BY AppendProperties, LenProperties DEF Texts
  <2>2. bytes \in Texts /\ count \in Nat /\ code \in Texts
    BY BytesAreAText, EncodedCharacter
  <2>3. code = (IF c = Wide THEN <<Wide, second>> ELSE <<c>>) /\ second \notin Problems
    BY ProblemsAssumption DEF Encoded
  <2>4. Bytes(more) = both
    BY BytesAppend
  <2>5. /\ \A i \in 1..count : bytes[i] \in Problems => \E j \in 1..size : t[j] = bytes[i]
        /\ Once(t) => Once(bytes)
    BY <1>2
  <2> HIDE DEF more, bytes, code, second
  <2>6. /\ Len(both) = count + Len(code)
        /\ \A i \in 1..count : both[i] = bytes[i]
        /\ \A i \in 1..Len(code) : both[count + i] = code[i]
    BY <2>2, ConcatContent
  <2>7. Len(code) \in {1, 2} /\ code[1] = c /\ (Len(code) = 2 => code[2] = second)
    BY <2>3
  <2>8. both[count + 1] = c
    <3>1. 1 \in 1..Len(code)
      BY <2>7
    <3> QED
      BY <2>6, <2>7, <3>1
  <2>9. ASSUME NEW i \in 1..Len(both), both[i] \in Problems, i \notin 1..count
        PROVE  i = count + 1
    <3> HIDE DEF both, count
    <3>1. i = count + 1 \/ (i = count + 2 /\ Len(code) = 2)
      BY <2>2, <2>6, <2>7, <2>9
    <3>2. Len(code) = 2 => both[count + 2] = second
      <4>1. Len(code) = 2 => 2 \in 1..Len(code)
        OBVIOUS
      <4> QED
        BY <2>6, <2>7, <4>1
    <3> QED
      BY <2>3, <2>9, <3>1, <3>2
  <2> HIDE DEF both, size, count
  <2>10. ASSUME NEW i \in 1..Len(both), both[i] \in Problems
         PROVE  \E j \in 1..size + 1 : more[j] = both[i]
    <3>1. CASE i \in 1..count
      <4>1. both[i] = bytes[i] /\ bytes[i] \in Problems
        BY <2>6, <2>10, <3>1
      <4>2. PICK j \in 1..size : t[j] = bytes[i]
        BY <2>5, <3>1, <4>1
      <4>3. j \in 1..size + 1
        BY <2>1
      <4> QED
        BY <2>1, <4>1, <4>2, <4>3
    <3>2. CASE i \notin 1..count
      <4>1. i = count + 1
        BY <2>9, <2>10, <3>2
      <4>2. size + 1 \in 1..size + 1
        BY <2>1
      <4> QED
        BY <2>1, <2>8, <4>1, <4>2
    <3> QED
      BY <3>1, <3>2
  <2>11. ASSUME Once(more) PROVE Once(both)
    <3>1. Once(t)
      <4> SUFFICES ASSUME NEW i \in 1..Len(t), NEW j \in 1..Len(t), t[i] \in Problems, t[i] = t[j] PROVE i = j
        BY DEF Once
      <4>1. i \in 1..size /\ j \in 1..size /\ i \in 1..Len(more) /\ j \in 1..Len(more)
        BY <2>1 DEF size
      <4>2. more[i] = t[i] /\ more[j] = t[j]
        BY <2>1, <4>1
      <4> QED
        BY <2>11, <4>1, <4>2 DEF Once
    <3>2. Once(bytes)
      BY <2>5, <3>1
    <3>3. ASSUME NEW i \in 1..count, bytes[i] = c PROVE c \notin Problems
      <4> SUFFICES ASSUME c \in Problems PROVE FALSE
        OBVIOUS
      <4>1. PICK j \in 1..size : t[j] = bytes[i]
        BY <2>5, <3>3
      <4>2. more[j] = c /\ more[size + 1] = c /\ j \in 1..Len(more) /\ size + 1 \in 1..Len(more) /\ j # size + 1
        BY <2>1, <3>3, <4>1
      <4> QED
        BY <2>11, <4>2 DEF Once
    <3>4. ASSUME NEW i \in 1..Len(both), NEW j \in 1..Len(both), both[i] \in Problems, both[i] = both[j]
          PROVE  i = j
      <4>1. (i \in 1..count \/ i = count + 1) /\ (j \in 1..count \/ j = count + 1)
        BY <2>9, <3>4
      <4>2. CASE i \in 1..count /\ j \in 1..count
        <5>1. both[i] = bytes[i] /\ both[j] = bytes[j]
          BY <2>6, <4>2
        <5> QED
          BY <3>2, <3>4, <4>2, <5>1 DEF Once, count
      <4>3. CASE i \in 1..count /\ j = count + 1
        BY <2>6, <2>8, <3>3, <3>4, <4>3
      <4>4. CASE i = count + 1 /\ j \in 1..count
        BY <2>6, <2>8, <3>3, <3>4, <4>4
      <4> QED
        BY <4>1, <4>2, <4>3, <4>4
    <3> QED
      BY <3>4 DEF Once
  <2>12. Kept(more)
    BY <2>1, <2>4, <2>10
  <2> QED
    BY <2>1, <2>4, <2>11, <2>12 DEF more
<1> HIDE DEF T
<1>3. text \in T
  BY <1>1, <1>2, TextInduction
<1> QED
  BY <1>3 DEF T
-----------------------------------------------------------------------------
(* What keeps problems silent: a comment on the whole file, or each line ignored.          *)
Quiet(text, problems) ==
  (\E k \in 0..Lines(text) - 1 : Directive(text, k) = "ignore-file") \/ Silent(text, problems)

LEMMA QuietProblemsAreSuppressed ==
  ASSUME NEW text \in Texts, NEW problems \in SUBSET Problems, Quiet(text, problems), NEW d \in DiagnosticYAML(text)
  PROVE  d.problem \notin problems
<1>1. Known(text, d)
  BY DiagnosticsAreKnown
<1>2. Silent(text, problems)
  BY <1>1 DEF Known, Heard, Quiet
<1> SUFFICES ASSUME d.problem \in problems PROVE FALSE
  OBVIOUS
<1>3. PICK i \in 1..Len(text) : text[i] = d.problem /\ LineAt(text, i - 1) = d.start.line
  BY <1>1 DEF Known
<1> QED
  BY <1>1, <1>2, <1>3, WhatIsHeardIsNotSilent

LEMMA FileSilences ==
  ASSUME NEW text \in Texts, NEW problems,
         NEW put, put = Put(text, LineStart(text, 0), <<"ignore-file", NewLine>>)
  PROVE  Quiet(put, problems)
<1> DEFINE comment == "ignore-file"
           indent == <<>>
<1>1. comment \in Comments /\ indent \in Indents /\ indent \o <<comment, NewLine>> = <<comment, NewLine>>
  BY DEF Comments, Indents
<1>2. put = Put(text, LineStart(text, 0), indent \o <<comment, NewLine>>)
  BY <1>1
<1>3. comment = "ignore-file" /\ Lines(text) \in Nat /\ 0 \in 0..Lines(text) - 1
  BY NewLinesOfAText DEF Lines
<1> HIDE DEF comment, indent
<1>4. Directive(put, 0) = comment /\ Lines(put) = Lines(text) + 1
  <2>1. Directive(put, 0) = comment
    BY <1>1, <1>2, <1>3, InsertedLine
  <2>2. Lines(put) = Lines(text) + 1
    BY <1>1, <1>2, <1>3, InsertedLine
  <2> QED
    BY <2>1, <2>2
<1>5. 0 \in 0..Lines(put) - 1
  BY <1>3, <1>4
<1> QED
  BY <1>3, <1>4, <1>5 DEF Quiet
-----------------------------------------------------------------------------
(* An action that came with a diagnostic of the text as it is, and what the server     *)
(* makes of it.                                                              *)
PartsOf(p, kind) == [i \in DOMAIN EditsOf(p, kind) |-> PartOf(EditsOf(p, kind)[i])]
Taken(p, kind) == applyIncrementalChanges(server, [i \in DOMAIN PartsOf(p, kind) |-> Sent(PartsOf(p, kind)[i])])
Fresh(p) ==
  /\ client \in Texts /\ server = Bytes(client) /\ server \in Texts /\ Once(server)
  /\ Known(server, p.diagnostic)
  /\ silenced \in SUBSET Problems /\ Silent(server, silenced)
InCode(p) == p.indent \in Indents /\ ~ScriptLine(server, p.diagnostic.start.line)
More(p) == silenced \union ({p.diagnostic.problem} \intersect Problems)

LEMMA FreshLines ==
  ASSUME NEW p, Fresh(p)
  PROVE  /\ Lines(server) = Lines(client) /\ Lines(client) \in Nat /\ Lines(client) >= 1
         /\ p.diagnostic.start.line \in 0..Lines(client) - 1 /\ p.diagnostic.end.line \in 0..Lines(client) - 1
         /\ p.diagnostic.start.line <= p.diagnostic.end.line
BY LinesOfBytes, NewLinesOfAText DEF Fresh, Known, Lines

LEMMA TakenNextLine ==
  ASSUME NEW p, Fresh(p), InCode(p)
  PROVE  Quiet(Taken(p, "next line"), More(p))
<1> DEFINE comment == "ignore-next-line"
           line == p.diagnostic.start.line
           edit == Insert(line, p.indent \o <<comment, NewLine>>)
           put == Put(server, LineStart(server, line), p.indent \o <<comment, NewLine>>)
<1>1. EditsOf(p, "next line") = <<edit>>
  BY DEF EditsOf
<1>2. PartsOf(p, "next line") = [i \in DOMAIN <<edit>> |-> PartOf(<<edit>>[i])]
  BY <1>1 DEF PartsOf
<1>3. comment \in Comments /\ line \in 0..Lines(client) - 1 /\ line \in 0..Lines(server) - 1
      /\ client \in Texts /\ p.indent \in Indents
  BY FreshLines DEF Comments, Fresh, InCode
<1>4. Apply(Sent(PartOf(edit)), server) = put
  <2>1. server \in Texts
    BY DEF Fresh
  <2> HIDE DEF line, comment
  <2> QED
    BY <1>3, <2>1, InsertOnTheServer
<1>5. Taken(p, "next line") = put
  <2> HIDE DEF edit
  <2> QED
    BY <1>2, <1>4, OneEditOnTheServer DEF Taken
<1>6. Silent(put, More(p))
  BY NextLineSilences DEF Fresh, InCode, More
<1> HIDE DEF put
<1> QED
  BY <1>5, <1>6 DEF Quiet

LEMMA TakenFile ==
  ASSUME NEW p, Fresh(p)
  PROVE  Quiet(Taken(p, "file"), More(p))
<1> DEFINE comment == "ignore-file"
           indent == <<>>
           line == 0
           new == <<comment, NewLine>>
           edit == Insert(line, new)
           put == Put(server, LineStart(server, line), new)
<1>1. EditsOf(p, "file") = <<edit>>
  BY DEF EditsOf
<1>2. PartsOf(p, "file") = [i \in DOMAIN <<edit>> |-> PartOf(<<edit>>[i])]
  BY <1>1 DEF PartsOf
<1>3. comment \in Comments /\ line \in 0..Lines(client) - 1 /\ line \in 0..Lines(server) - 1
      /\ client \in Texts /\ server \in Texts /\ indent \in Indents /\ indent \o new = new
  BY FreshLines DEF Comments, Fresh, Indents
<1>4. Apply(Sent(PartOf(edit)), server) = put
  <2> HIDE DEF line, comment, indent
  <2>1. Apply(Sent(PartOf(Insert(line, indent \o <<comment, NewLine>>))), server) =
          Put(server, LineStart(server, line), indent \o <<comment, NewLine>>)
    BY <1>3, InsertOnTheServer
  <2>2. indent \o <<comment, NewLine>> = new
    BY <1>3
  <2> HIDE DEF new
  <2> QED
    BY <2>1, <2>2
<1>5. Taken(p, "file") = put
  <2> HIDE DEF edit
  <2> QED
    BY <1>2, <1>4, OneEditOnTheServer DEF Taken
<1>6. Quiet(put, More(p))
  BY FileSilences DEF Fresh
<1> QED
  BY <1>5, <1>6

(* The end of a line, which lies behind no wide character.                            *)
LEMMA PutAtTheEnd ==
  ASSUME client \in Texts, server = Bytes(client), NEW line \in 0..Lines(client) - 1, NEW new, Bytes(new) = new,
         ~WideBefore(LineEnd(client, line))
  PROVE  Apply(Sent(Part(LineEnd(client, line), LineEnd(client, line), new)), server) =
           Put(server, LineEnd(server, line), new)
<1> DEFINE end == LineEnd(client, line)
<1>1. Narrow(client, end)
  BY DEF WideBefore, Narrow
<1>2. PosToIndex(IndexToPos(end, client), server) = LineEnd(server, line)
  BY <1>1, ServerReadsTheEnd
<1> HIDE DEF end
<1>3. Apply(Sent(Part(end, end, new)), server) = Put(server, LineEnd(server, line), new)
  BY <1>2 DEF Apply, Sent, Change, Part, Put
<1> QED
  BY <1>3 DEF end

LEMMA TakenInline ==
  ASSUME NEW p, Fresh(p), InCode(p), p.diagnostic.start.line = p.diagnostic.end.line, p.diagnostic.end.character \in Nat,
         OverwritesNothing(p),
         \A i \in DOMAIN PartsOf(p, "inline") : ~WideBefore(PartsOf(p, "inline")[i].from)
  PROVE  Quiet(Taken(p, "inline"), More(p))
<1> DEFINE comment == "ignore"
           line == p.diagnostic.start.line
           column == p.diagnostic.end.character + 1
           end == LineEnd(client, line)
           edit == Change(Position(line, column), Position(line, column + Overwritten), <<comment>>)
           put == Put(server, LineEnd(server, line), <<comment>>)
           parts == PartsOf(p, "inline")
<1>1. EditsOf(p, "inline") = <<edit>>
  BY DEF EditsOf
<1>2. parts = [i \in DOMAIN <<edit>> |-> PartOf(<<edit>>[i])]
  BY <1>1 DEF PartsOf
<1>3. comment \in Comments /\ line \in 0..Lines(client) - 1 /\ line \in Nat /\ client \in Texts /\ server = Bytes(client)
      /\ <<>> \in Indents /\ column \in Nat
  BY FreshLines DEF Comments, Fresh, Indents
<1>4. Bytes(<<comment>>) = <<comment>>
  <2> HIDE DEF comment
  <2> QED
    BY <1>3, CommentsAreNarrow
<1>5. end <= ClientIndex(Position(line, column), client)
  BY DEF OverwritesNothing
<1>6. ClientIndex(Position(line, column), client) = end /\ ClientIndex(Position(line, column + Overwritten), client) = end
  <2>1. end \in 0..Len(client) /\ LineStart(client, line) \in 0..Len(client) /\ Len(client) \in Nat
    BY <1>3, LinesEndInTheText, NewLinesOfAText
  <2>2. \A c : ClientIndex(Position(line, c), client) =
                 IF LineStart(client, line) + c < end THEN LineStart(client, line) + c ELSE end
    BY DEF ClientIndex, Position, Smaller
  <2> HIDE DEF end, line, column
  <2> QED
    BY <1>3, <1>5, <2>1, <2>2, OverwrittenAssumption
<1>7. PartOf(edit) = Part(end, end, <<comment>>)
  <2>1. PartOf(edit) = Part(ClientIndex(Position(line, column), client),
                            ClientIndex(Position(line, column + Overwritten), client), <<comment>>)
    BY DEF PartOf, Change
  <2> HIDE DEF edit, end, line, column, comment
  <2> QED
    BY <1>6, <2>1
<1>8. ~WideBefore(end)
  <2>1. 1 \in DOMAIN parts /\ parts[1] = PartOf(edit)
    <3> HIDE DEF parts, edit
    <3> QED
      BY <1>2
  <2>2. ~WideBefore(parts[1].from)
    BY <2>1
  <2> HIDE DEF parts, edit, end
  <2> QED
    BY <1>7, <2>1, <2>2 DEF Part
<1>9. Apply(Sent(PartOf(edit)), server) = put
  <2> HIDE DEF edit, line, comment
  <2>1. Apply(Sent(Part(end, end, <<comment>>)), server) = put
    BY <1>3, <1>4, <1>8, PutAtTheEnd
  <2> HIDE DEF put, end
  <2> QED
    BY <1>7, <2>1
<1>10. Taken(p, "inline") = put
  <2> HIDE DEF edit, put
  <2> QED
    BY <1>2, <1>9, OneEditOnTheServer DEF Taken
<1>11. Silent(put, More(p))
  BY InlineSilences DEF Fresh, InCode, More
<1> HIDE DEF put
<1> QED
  BY <1>10, <1>11 DEF Quiet

LEMMA TakenRange ==
  ASSUME NEW p, Fresh(p), InCode(p), p.diagnostic.start.line # p.diagnostic.end.line, EndIsAComment(p),
         \A i \in DOMAIN PartsOf(p, "range") : ~WideBefore(PartsOf(p, "range")[i].from)
  PROVE  Quiet(Taken(p, "range"), More(p))
<1> DEFINE d == p.diagnostic
           first == d.start.line
           last == d.end.line
           begin == "ignore-start"
           finish == "ignore-end"
           endline == p.indent \o <<finish, NewLine>>
           startline == p.indent \o <<begin, NewLine>>
           edit == Insert(last + 1, endline)
           other == Insert(first, startline)
           parts == PartsOf(p, "range")
           ended == Apply(Sent(PartOf(edit)), server)
           put == Put(ended, LineStart(ended, first), startline)
<1>1. EditsOf(p, "range") = <<edit, other>>
  BY DEF EditsOf
<1>2. parts = [i \in DOMAIN <<edit, other>> |-> PartOf(<<edit, other>>[i])]
  BY <1>1 DEF PartsOf
<1>3. /\ begin \in Comments /\ finish \in Comments /\ client \in Texts /\ server \in Texts /\ server = Bytes(client)
      /\ p.indent \in Indents
      /\ first \in 0..Lines(client) - 1 /\ last \in 0..Lines(client) - 1 /\ first <= last
      /\ Lines(server) = Lines(client) /\ Lines(client) \in Nat
  BY FreshLines DEF Comments, Fresh, InCode
<1>4. d.problem \in Problems /\ Known(server, d) /\ Once(server) /\ Silent(server, silenced) /\ silenced \in SUBSET Problems
  BY DEF Fresh, Known
<1>5. Bytes(endline) = endline
  <2> HIDE DEF finish
  <2> QED
    BY <1>3, CommentsAreNarrow
<1>6. Ended(server, d, ended, silenced)
  <2>1. CASE last + 1 < Lines(client)
    <3>1. last + 1 \in 0..Lines(client) - 1 /\ last + 1 \in 0..Lines(server) - 1
      BY <1>3, <2>1
    <3>2. ended = Put(server, LineStart(server, last + 1), endline)
      <4> DEFINE line == last + 1
      <4>1. line \in 0..Lines(client) - 1 /\ line \in 0..Lines(server) - 1
        BY <3>1
      <4> HIDE DEF finish, line
      <4>2. Apply(Sent(PartOf(Insert(line, p.indent \o <<finish, NewLine>>))), server) =
              Put(server, LineStart(server, line), p.indent \o <<finish, NewLine>>)
        BY <1>3, <4>1, InsertOnTheServer
      <4> QED
        BY <4>2 DEF line
    <3> HIDE DEF ended
    <3>3. d.end.line + 1 < Lines(server)
      BY <1>3, <2>1
    <3> QED
      BY <1>3, <1>4, <3>2, <3>3, EndOnALineOfItsOwn
  <2>2. CASE ~(last + 1 < Lines(client))
    <3>1. last = Lines(client) - 1 /\ last = Lines(server) - 1 /\ last \in Nat
      BY <1>3, <2>2
    <3>2. p.indent # <<>> /\ CommentOf(client, last) = <<>> /\ ~ScriptLine(client, last)
      BY <2>2 DEF EndIsAComment
    <3>3. LineEnd(client, last) = Len(client) /\ LineEnd(server, last) = Len(server)
      BY <1>3, <3>1 DEF LineEnd
    <3>4. LineStart(client, last + 1) = Len(client)
      <4>1. last + 1 \in Nat /\ last + 1 > Cardinality(NewLines(client)) /\ Cardinality(NewLines(client)) \in Nat
        BY <1>3, <3>1, NewLinesOfAText DEF Lines
      <4> HIDE DEF last
      <4> QED
        BY <1>3, <4>1, LineStartOfALine
    <3>5. PartOf(edit) = Part(LineEnd(client, last), LineEnd(client, last), endline)
      <4> DEFINE line == last + 1
      <4>1. line \in Nat
        BY <3>1
      <4> HIDE DEF line, endline
      <4>2. ClientIndex(Position(line, 0), client) = LineStart(client, line)
        BY <1>3, <4>1, ClientIndices
      <4>3. PartOf(Insert(line, endline)) = Part(LineStart(client, line), LineStart(client, line), endline)
        BY <4>2 DEF PartOf, Insert, Change
      <4> QED
        BY <3>3, <3>4, <4>3 DEF line
    <3>6. ~WideBefore(LineEnd(client, last))
      <4>1. 1 \in DOMAIN parts /\ parts[1] = PartOf(edit)
        <5> HIDE DEF parts, edit, other
        <5> QED
          BY <1>2
      <4>2. ~WideBefore(parts[1].from)
        BY <4>1
      <4> HIDE DEF parts, edit, last
      <4> QED
        BY <3>5, <4>1, <4>2 DEF Part
    <3>7. ended = Put(server, Len(server), endline)
      <4> HIDE DEF endline, last, edit
      <4>1. Apply(Sent(Part(LineEnd(client, last), LineEnd(client, last), endline)), server) =
              Put(server, LineEnd(server, last), endline)
        BY <1>3, <1>5, <3>6, PutAtTheEnd
      <4> QED
        BY <3>3, <3>5, <4>1
    <3>8. CommentOf(server, last) = <<>> /\ ~ScriptLine(server, last)
      <4> HIDE DEF last
      <4> QED
        BY <1>3, <3>2, NoCommentInBytes, NoScriptInBytes
    <3> HIDE DEF ended
    <3> QED
      BY <1>3, <1>4, <3>1, <3>2, <3>7, <3>8, EndBehindTheLastLine
  <2> QED
    BY <2>1, <2>2
<1>7. Apply(Sent(PartOf(other)), ended) = put
  <2>1. ended \in Texts /\ first \in 0..Lines(ended) - 1
    BY <1>6 DEF Ended
  <2> HIDE DEF ended, first, begin
  <2> QED
    BY <1>3, <2>1, InsertOnTheServer
<1>8. Taken(p, "range") = put
  <2>1. Taken(p, "range") = Apply(Sent(PartOf(other)), ended)
    <3> HIDE DEF edit, other
    <3> QED
      BY <1>2, TwoEditsOnTheServer DEF Taken
  <2> QED
    BY <1>7, <2>1
<1>9. Silent(put, More(p))
  <2> HIDE DEF ended
  <2>1. Silent(put, silenced \union ({d.problem} \intersect Problems))
    BY <1>3, <1>4, <1>6, RangeSilences
  <2> QED
    BY <2>1 DEF More
<1> HIDE DEF put
<1> QED
  BY <1>8, <1>9 DEF Quiet
-----------------------------------------------------------------------------
(* The inductive invariant: a problem's character is there once; what is published for    *)
(* the text as it is are its diagnostics; and what actions have silenced is on lines      *)
(* that stay ignored, or the whole file is.                                       *)
PublishedIsFresh ==
  /\ \A p \in published : p.indent \in Beginnings
  /\ ~stale => published = {WithActions(d, server) : d \in DiagnosticYAML(server)}
SilencedIsQuiet ==
  /\ silenced \in SUBSET Problems
  /\ silenced # {} => ~misread /\ Quiet(server, silenced)
SilenceInv == TextInv /\ Once(client) /\ PublishedIsFresh /\ SilencedIsQuiet

LEMMA SilenceInvInit == SuppressionInit => SilenceInv
<1> SUFFICES ASSUME SuppressionInit PROVE SilenceInv
  OBVIOUS
<1>1. TextInv
  BY TextInvInit
<1>2. client \in Documents /\ published = {} /\ stale = TRUE /\ silenced = {}
  BY DEF SuppressionInit, TextInit
<1>3. DOMAIN client = 1..Len(client)
  BY <1>1, LenProperties DEF TextInv, Texts
<1>4. Once(client)
  BY <1>2, <1>3, ProblemsAssumption DEF Once
<1> QED
  BY <1>1, <1>2, <1>4 DEF SilenceInv, PublishedIsFresh, SilencedIsQuiet

LEMMA PublishKeepsSilence ==
  ASSUME SilenceInv, Publish
  PROVE  SilenceInv'
<1>1. /\ client' = client /\ server' = server /\ misread' = misread /\ silenced' = silenced
      /\ published' = {WithActions(d, server) : d \in DiagnosticYAML(server)}
  BY DEF Publish, textVars
<1>2. TextInv'
  BY PublishKeepsTextInv DEF SilenceInv
<1>3. PublishedIsFresh'
  <2>1. ASSUME NEW d \in DiagnosticYAML(server) PROVE WithActions(d, server).indent \in Beginnings
    <3>1. server \in Texts /\ d \in Ranges
      BY DiagnosticsAreRanges DEF SilenceInv, TextInv
    <3>2. d.start.line \in Nat
      BY <3>1 DEF Ranges, Positions
    <3> QED
      BY <3>1, <3>2, IndentsAreIndents DEF WithActions
  <2> QED
    BY <1>1, <2>1 DEF PublishedIsFresh
<1>4. Once(client') /\ SilencedIsQuiet'
  BY <1>1 DEF SilenceInv, SilencedIsQuiet
<1> QED
  BY <1>2, <1>3, <1>4 DEF SilenceInv

LEMMA UserTypesKeepsSilence ==
  ASSUME SilenceInv, NEW from \in 0..Len(client), NEW to, to = from \/ to = from + 1,
         NEW text \in {<<>>} \union {<<c>> : c \in Typed}, UserTypes(from, to, text)
  PROVE  SilenceInv'
<1> DEFINE parts == <<Part(from, to, text)>>
<1>1. client \in Texts /\ Len(client) \in Nat /\ Once(client)
  BY NewLinesOfAText DEF SilenceInv, TextInv
<1>2. to <= Len(client) /\ client' = Edited(client, parts) /\ published' = published /\ stale' = TRUE /\ silenced' = {}
  BY DEF UserTypes, Type, DidChange
<1>3. text \in Texts /\ Plain(text)
  <2>1. CASE text = <<>>
    BY <2>1, EmptySeq DEF Texts, Plain
  <2>2. ASSUME NEW c \in Typed, text = <<c>> PROVE text \in Texts /\ Plain(text)
    <3>1. c \in Characters /\ c \notin Problems
      BY KnownCharacters, ProblemsAssumption
    <3>2. Len(text) = 1 /\ text[1] = c
      BY <2>2
    <3> QED
      BY <2>2, <3>1, <3>2 DEF Texts, Plain
  <2> QED
    BY <2>1, <2>2
<1>4. TextInv'
  BY <1>3, UserTypesKeepsTextInv DEF SilenceInv
<1>5. LastFirst(parts, client)
  <2>1. Replaceable(Part(from, to, text), client)
    BY <1>1, <1>2, <1>3 DEF Replaceable, Part
  <2> QED
    BY <2>1, OnePartIsLastFirst
<1>6. \A i \in 1..Len(parts) : Plain(parts[i].text)
  BY <1>3 DEF Part
<1>7. Once(client')
  <2> HIDE DEF parts
  <2> QED
    BY <1>1, <1>2, <1>5, <1>6, OnceEdited
<1>8. PublishedIsFresh' /\ SilencedIsQuiet'
  BY <1>2 DEF SilenceInv, PublishedIsFresh, SilencedIsQuiet
<1> QED
  BY <1>4, <1>7, <1>8 DEF SilenceInv

(* No action types a problem.                                                     *)
LEMMA ActionsArePlain ==
  ASSUME NEW p, p.indent \in Beginnings, NEW kind \in Kinds
  PROVE  \A i \in 1..Len(PartsOf(p, kind)) : Plain(PartsOf(p, kind)[i].text)
<1>1. ASSUME NEW indent \in Beginnings, NEW comment \in Comments
      PROVE  Plain(indent \o <<comment, NewLine>>)
  <2>1. CASE indent \in Indents
    BY <2>1, ACommentLine DEF Plain
  <2>2. CASE indent = <<Script>>
    <3> DEFINE new == <<Script>> \o <<comment, NewLine>>
    <3>1. Len(new) = 3 /\ new[1] = Script /\ new[2] = comment /\ new[3] = NewLine
      OBVIOUS
    <3>2. Script \notin Problems /\ comment \notin Problems /\ NewLine \notin Problems
      BY ProblemsAssumption
    <3> HIDE DEF new
    <3>3. \A i \in 1..Len(new) : i = 1 \/ i = 2 \/ i = 3
      BY <3>1
    <3>4. Plain(new)
      BY <3>1, <3>2, <3>3 DEF Plain
    <3> QED
      BY <2>2, <3>4 DEF new
  <2> QED
    BY <2>1, <2>2 DEF Beginnings
<1>2. ASSUME NEW edit, Plain(edit.text), PartsOf(p, kind) = [i \in DOMAIN <<edit>> |-> PartOf(<<edit>>[i])]
      PROVE  \A i \in 1..Len(PartsOf(p, kind)) : Plain(PartsOf(p, kind)[i].text)
  <2>1. DOMAIN PartsOf(p, kind) = 1..1 /\ PartsOf(p, kind)[1] = PartOf(edit)
    BY <1>2
  <2>2. Len(PartsOf(p, kind)) = 1
    BY <2>1
  <2> QED
    BY <1>2, <2>1, <2>2 DEF PartOf, Part
<1>3. CASE kind = "next line"
  <2> DEFINE comment == "ignore-next-line"
             edit == Insert(p.diagnostic.start.line, p.indent \o <<comment, NewLine>>)
  <2>1. EditsOf(p, kind) = <<edit>>
    BY <1>3 DEF EditsOf
  <2>2. Plain(p.indent \o <<comment, NewLine>>)
    BY <1>1 DEF Comments
  <2>3. Plain(edit.text)
    BY <2>2 DEF Insert, Change
  <2> HIDE DEF edit
  <2> QED
    BY <1>2, <2>1, <2>3 DEF PartsOf
<1>4. CASE kind = "file"
  <2> DEFINE comment == "ignore-file"
             indent == <<>>
             edit == Insert(0, <<comment, NewLine>>)
  <2>1. EditsOf(p, kind) = <<edit>>
    BY <1>4 DEF EditsOf
  <2>2. indent \in Beginnings /\ comment \in Comments /\ indent \o <<comment, NewLine>> = <<comment, NewLine>>
    BY DEF Comments, Indents, Beginnings
  <2>3. Plain(edit.text)
    <3> HIDE DEF indent, comment
    <3>1. Plain(indent \o <<comment, NewLine>>)
      BY <1>1, <2>2
    <3>2. Plain(<<comment, NewLine>>)
      BY <2>2, <3>1
    <3> QED
      BY <3>2 DEF Insert, Change
  <2> HIDE DEF edit
  <2> QED
    BY <1>2, <2>1, <2>3 DEF PartsOf
<1>5. CASE kind = "inline"
  <2> DEFINE comment == "ignore"
             line == p.diagnostic.start.line
             column == p.diagnostic.end.character + 1
             edit == Change(Position(line, column), Position(line, column + Overwritten), <<comment>>)
  <2>1. EditsOf(p, kind) = <<edit>>
    BY <1>5 DEF EditsOf
  <2>2. comment \notin Problems
    BY ProblemsAssumption DEF Comments
  <2>3. Plain(edit.text)
    <3> HIDE DEF comment
    <3>1. Plain(<<comment>>)
      BY <2>2 DEF Plain
    <3> QED
      BY <3>1 DEF Change
  <2> HIDE DEF edit
  <2> QED
    BY <1>2, <2>1, <2>3 DEF PartsOf
<1>6. CASE kind = "range"
  <2> DEFINE begin == "ignore-start"
             finish == "ignore-end"
             edit == Insert(p.diagnostic.end.line + 1, p.indent \o <<finish, NewLine>>)
             other == Insert(p.diagnostic.start.line, p.indent \o <<begin, NewLine>>)
  <2>1. EditsOf(p, kind) = <<edit, other>>
    BY <1>6 DEF EditsOf
  <2>2. Plain(p.indent \o <<finish, NewLine>>) /\ Plain(p.indent \o <<begin, NewLine>>)
    BY <1>1 DEF Comments
  <2>3. Plain(edit.text) /\ Plain(other.text)
    BY <2>2 DEF Insert, Change
  <2> HIDE DEF edit, other
  <2>4. DOMAIN PartsOf(p, kind) = 1..2 /\ PartsOf(p, kind)[1] = PartOf(edit) /\ PartsOf(p, kind)[2] = PartOf(other)
    BY <2>1 DEF PartsOf
  <2>5. Len(PartsOf(p, kind)) = 2
    BY <2>4
  <2> QED
    BY <2>3, <2>4, <2>5 DEF PartOf, Part
<1> QED
  BY <1>3, <1>4, <1>5, <1>6 DEF Kinds

LEMMA TakeActionKeepsSilence ==
  ASSUME SilenceInv, NEW p \in published, NEW kind \in Kinds, TakeAction(p, kind)
  PROVE  SilenceInv'
<1> DEFINE parts == PartsOf(p, kind)
<1>1. /\ client \in Texts /\ Once(client) /\ TextInv /\ p.indent \in Beginnings
      /\ p.diagnostic \in Ranges
  BY DEF SilenceInv, TextInv, PublishedIsFresh, PublishedInv
<1>2. /\ ~misread /\ published' = published /\ stale' = TRUE /\ DidChange(parts) /\ kind \in Offered(p.diagnostic)
      /\ silenced' = IF Works(p, kind) /\ ~misread' THEN More(p) ELSE {}
  BY DEF TakeAction, PartOf, PartsOf, More
<1>3. TextInv'
  BY <1>1, TakeActionKeepsTextInv
<1>4. LastFirst(parts, client)
  BY <1>1, ActionsEditLastFirst DEF PartsOf
<1>5. \A i \in 1..Len(parts) : Plain(parts[i].text)
  BY <1>1, ActionsArePlain
<1>6. client' = Edited(client, parts) /\ server' = Taken(p, kind)
      /\ (~misread' => \A i \in DOMAIN parts : ~WideBefore(parts[i].from))
  BY <1>2 DEF DidChange, Taken
<1>7. Once(client')
  <2> HIDE DEF parts
  <2> QED
    BY <1>1, <1>4, <1>5, <1>6, OnceEdited
<1>8. PublishedIsFresh'
  BY <1>2 DEF SilenceInv, PublishedIsFresh
<1>9. silenced \in SUBSET Problems /\ (silenced # {} => Quiet(server, silenced))
  BY DEF SilenceInv, SilencedIsQuiet
<1>10. ASSUME Works(p, kind), ~misread' PROVE Quiet(server', More(p))
  <2>1. ~stale
    BY <1>10 DEF Works
  <2>2. server \in Texts /\ server = Bytes(client)
    BY <1>1, <1>2 DEF TextInv, TextAgrees
  <2>3. p.diagnostic \in DiagnosticYAML(server) /\ p.indent = IndentOf(server, p.diagnostic.start.line)
    <3>1. published = {WithActions(d, server) : d \in DiagnosticYAML(server)}
      BY <2>1 DEF SilenceInv, PublishedIsFresh
    <3> QED
      BY <3>1 DEF WithActions
  <2>4. Known(server, p.diagnostic)
    BY <2>2, <2>3, DiagnosticsAreKnown
  <2>5. Silent(server, silenced)
    <3>1. CASE silenced = {}
      BY <3>1 DEF Silent
    <3>2. CASE silenced # {}
      BY <1>9, <2>4, <3>2 DEF Quiet, Known, Heard
    <3> QED
      BY <3>1, <3>2
  <2>6. Fresh(p)
    BY <1>1, <1>9, <2>2, <2>4, <2>5, OnceInBytes DEF Fresh
  <2>7. \A i \in DOMAIN PartsOf(p, kind) : ~WideBefore(PartsOf(p, kind)[i].from)
    BY <1>6, <1>10
  <2>12. kind # "file" => InCode(p)
    <3> SUFFICES ASSUME kind # "file" PROVE InCode(p)
      OBVIOUS
    <3>1. ~ScriptLine(client, p.diagnostic.start.line)
      BY <1>10 DEF Works
    <3>2. p.diagnostic.start.line \in 0..Lines(client) - 1 /\ p.diagnostic.start.line \in Nat
      BY <2>6, FreshLines
    <3>3. ~ScriptLine(server, p.diagnostic.start.line)
      BY <1>1, <2>2, <3>1, <3>2, NoScriptInBytes
    <3>4. p.indent \in Indents
      BY <2>2, <2>3, <3>2, <3>3, IndentsAreIndents
    <3> QED
      BY <3>3, <3>4 DEF InCode
  <2>8. CASE kind = "next line"
    BY <1>6, <2>6, <2>8, <2>12, TakenNextLine
  <2>9. CASE kind = "file"
    BY <1>6, <2>6, <2>9, TakenFile
  <2>10. CASE kind = "inline"
    <3>1. OverwritesNothing(p)
      BY <1>10, <2>10 DEF Works
    <3>2. p.diagnostic.start.line = p.diagnostic.end.line
      BY <1>2, <2>10 DEF Offered, Kinds
    <3>3. p.diagnostic.end.character \in Nat
      BY <1>1 DEF Ranges, Positions
    <3> QED
      BY <1>6, <2>6, <2>7, <2>10, <2>12, <3>1, <3>2, <3>3, TakenInline
  <2>11. CASE kind = "range"
    <3>1. EndIsAComment(p)
      BY <1>10, <2>11 DEF Works
    <3>2. p.diagnostic.start.line # p.diagnostic.end.line
      BY <1>2, <2>11 DEF Offered, Kinds
    <3> QED
      BY <1>6, <2>6, <2>7, <2>11, <2>12, <3>1, <3>2, TakenRange
  <2> QED
    BY <2>8, <2>9, <2>10, <2>11 DEF Kinds
<1>11. SilencedIsQuiet'
  <2>1. CASE Works(p, kind) /\ ~misread'
    <3>1. silenced' = More(p) /\ More(p) \in SUBSET Problems /\ Quiet(server', More(p))
      BY <1>2, <1>9, <1>10, <2>1 DEF More
    <3> QED
      BY <2>1, <3>1 DEF SilencedIsQuiet
  <2>2. CASE ~(Works(p, kind) /\ ~misread')
    <3>1. silenced' = {}
      BY <1>2, <2>2
    <3> QED
      BY <3>1 DEF SilencedIsQuiet
  <2> QED
    BY <2>1, <2>2
<1> QED
  BY <1>3, <1>7, <1>8, <1>11 DEF SilenceInv

LEMMA SilenceInvStep == SilenceInv /\ [SuppressionNext]_suppressionVars => SilenceInv'
<1> SUFFICES ASSUME SilenceInv, [SuppressionNext]_suppressionVars PROVE SilenceInv'
  OBVIOUS
<1>1. ASSUME Publish PROVE SilenceInv'
  BY <1>1, PublishKeepsSilence
<1>2. ASSUME NEW from \in 0..Len(client), NEW text \in {<<>>} \union {<<c>> : c \in Typed},
             UserTypes(from, IF text = <<>> THEN from + 1 ELSE from, text)
      PROVE  SilenceInv'
  BY <1>2, UserTypesKeepsSilence
<1>3. ASSUME NEW p \in published, NEW kind \in Kinds, TakeAction(p, kind) PROVE SilenceInv'
  BY <1>3, TakeActionKeepsSilence
<1>4. CASE UNCHANGED suppressionVars
  <2>1. /\ client' = client /\ server' = server /\ misread' = misread /\ published' = published
        /\ stale' = stale /\ silenced' = silenced
    BY <1>4 DEF suppressionVars, textVars
  <2>2. TextInv'
    BY <2>1 DEF SilenceInv, TextInv, TextAgrees, PublishedInv
  <2> QED
    BY <2>1, <2>2 DEF SilenceInv, PublishedIsFresh, SilencedIsQuiet
<1> QED
  BY <1>1, <1>2, <1>3, <1>4 DEF SuppressionNext

(* A problem that an action has silenced, taken on the text its diagnostic is of, gets   *)
(* no diagnostic again however many further problems actions silence: in lines next to    *)
(* it, in ranges around it, inside it or over it (ParseSuppressionComments and           *)
(* AppendSuppressionCodeActions), until the user edits the text.                       *)
THEOREM SilencedStaysSilent == SuppressionSpec => []StaysSilent
<1>1. SuppressionInit => SilenceInv
  BY SilenceInvInit
<1>2. SilenceInv /\ [SuppressionNext]_suppressionVars => SilenceInv'
  BY SilenceInvStep
<1>3. SilenceInv => StaysSilent
  <2> SUFFICES ASSUME SilenceInv, NEW d \in DiagnosticYAML(server), d.problem \in silenced PROVE FALSE
    BY DEF StaysSilent
  <2>1. server \in Texts /\ silenced \in SUBSET Problems /\ Quiet(server, silenced)
    BY DEF SilenceInv, TextInv, SilencedIsQuiet
  <2> QED
    BY <2>1, QuietProblemsAreSuppressed
<1> QED
  BY <1>1, <1>2, <1>3, PTL DEF SuppressionSpec
=============================================================================
