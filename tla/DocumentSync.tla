---------------------------- MODULE DocumentSync ----------------------------
(***************************************************************************)
(* How one connection of the server keeps the documents of its editor and  *)
(* publishes diagnostics for them (pkg/server/methods/synchronize.go,      *)
(* envVariables.go, executeCommand.go and FileCache in pkg/utils/cache.go).*)
(*                                                                         *)
(* jsonrpc2 calls the handlers one after the other from its read loop: the *)
(* variables named handler... are that thread.  Each `go' statement starts *)
(* a worker, whose steps interleave with the handler's and with one        *)
(* another at the granularity of FileCache's mutex: one action for each    *)
(* critical section, network call or notification.                         *)
(*                                                                         *)
(* The text of a document is the set of the edits it contains.             *)
(***************************************************************************)
EXTENDS Naturals, FiniteSets

CONSTANTS
  Files,            \* URIs the editor opens
  OrbFiles,         \* those that lie in the file-system cache of remote orbs
  Workers,          \* slots for goroutines (bound on how many run at once)
  Tokens, NoToken,  \* API tokens; NoToken is the empty string
  InitToken,        \* the token the server starts with
  MaxEdits,         \* bound: changes of one file
  MaxOpens,         \* bound: times one file is opened
  MaxTokenChanges   \* bound: setToken commands

ASSUME FilesAssumption == Files # {} /\ OrbFiles \subseteq Files
ASSUME TokenAssumption == NoToken \in Tokens /\ InitToken \in Tokens
ASSUME BoundAssumption ==
  MaxEdits \in Nat /\ MaxOpens \in Nat /\ MaxTokenChanges \in Nat

VARIABLES
  open, sent,                 \* the editor: open files, document last handled
  opens, edits, tokenChanges, \* counters for the bounds; edits also names edits
  cached, entry,              \* FileCache: keys, and the CachedFile of each
  orbs,                       \* the orb files whose orb is in OrbCache
  token,                      \* LsContext.Api.Token
  handler, current, base, todo, handlerCopy, \* the read loop's thread
  pendingChange,              \* debounceInnerChange: {} or {<<file, version>>}
  pendingRefresh, refreshing, \* debounceUpdateCachedFile; files left to visit
  pc, job, seen, copy,        \* the workers
  shown,                      \* what the editor displays: {} or one publication
  crashed,                    \* an unrecovered panic or fatal runtime error
  lost, regressed             \* history: files whose entry was overwritten by
                              \* an older copy since they were opened; files
                              \* whose version ever went back or disappeared

editorVars  == <<open, sent, opens, edits, tokenChanges>>
cacheVars   == <<cached, entry>>
handlerVars == <<handler, current, base, todo, handlerCopy>>
timerVars   == <<pendingChange, pendingRefresh, refreshing>>
workerVars  == <<pc, job, seen, copy>>
historyVars == <<lost, regressed>>
vars == <<editorVars, cacheVars, orbs, token, handlerVars, timerVars,
          workerVars, shown, crashed, historyVars>>

Docs    == [version : Nat, text : SUBSET Nat]   \* protocol.TextDocumentItem
Entries == [doc : Docs, slug : BOOLEAN]         \* CachedFile; slug: Project set
Jobs    == [file : Files, version : Nat]        \* argument of a goroutine

NoDoc   == [version |-> 0, text |-> {}]         \* LSP versions start at 1
NoEntry == [doc |-> NoDoc, slug |-> FALSE]
NoJob   == [file |-> CHOOSE f \in Files : TRUE, version |-> 0]

HandlerPCs == {"idle", "opening", "changing", "spawning", "resetting", "installing"}
WorkerPCs  == {"free", "parsing", "start", "env", "project", "copy", "install",
               "vars", "parse", "check", "notify"}

IsOrb(f) == f \in orbs

(* setChangeInFileCache *)
SetChangeOnce(f, doc) ==   \* mutation: a cached file is not updated
  /\ cached' = cached \union {f}
  /\ entry' = [entry EXCEPT ![f] = IF f \in cached THEN @ ELSE [doc |-> doc, slug |-> FALSE]]
UpdateOnly(f, doc) ==      \* mutation: a file that is not cached is not added
  /\ UNCHANGED cached
  /\ entry' = [entry EXCEPT ![f] = [@ EXCEPT !.doc = doc]]
SetChange(f, doc) ==
  /\ cached' = cached \union {f}
  /\ entry' = [entry EXCEPT ![f] =
       IF f \in cached THEN [@ EXCEPT !.doc = doc] ELSE [doc |-> doc, slug |-> FALSE]]
-----------------------------------------------------------------------------
Init ==
  /\ open = {} /\ sent = [f \in Files |-> NoDoc]
  /\ opens = [f \in Files |-> 0] /\ edits = [f \in Files |-> 0] /\ tokenChanges = 0
  /\ cached = {} /\ entry = [f \in Files |-> NoEntry]
  /\ orbs = {} /\ token = InitToken
  /\ handler = "idle" /\ current = NoJob.file /\ base = {} /\ todo = {}
  /\ handlerCopy = NoEntry
  /\ pendingChange = {} /\ pendingRefresh = FALSE /\ refreshing = {}
  /\ pc = [w \in Workers |-> "free"]
  /\ job = [w \in Workers |-> NoJob]
  /\ seen = [w \in Workers |-> NoDoc] /\ copy = [w \in Workers |-> NoEntry]
  /\ shown = [f \in Files |-> {}]
  /\ crashed = FALSE /\ lost = {} /\ regressed = {}

(* `go notificationMethods(doc)' or a fired timer: worker w begins at p. *)
Go(w, p, f, v) ==
  /\ pc[w] = "free"
  /\ pc' = [pc EXCEPT ![w] = p]
  /\ job' = [job EXCEPT ![w] = [file |-> f, version |-> v]]
  /\ UNCHANGED <<seen, copy>>

(* SetFile with a copy of the entry of f taken earlier (cache.go:101): the *)
(* document it carries may be older than the one it replaces.              *)
SetFile(f, e) ==
  /\ cached' = cached \union {f}
  /\ entry' = [entry EXCEPT ![f] = e]
  /\ lost' = IF e.doc = entry[f].doc THEN lost ELSE lost \union {f}
  /\ regressed' = IF e.doc.version < entry[f].doc.version
                    THEN regressed \union {f} ELSE regressed

(* GetFiles returns the live map (cache.go:114) and its callers range over  *)
(* it without the mutex.  A write to the map by another goroutine meanwhile *)
(* may be detected by the Go runtime, which then ends the process.          *)
HandlerRanges  == handler \in {"spawning", "resetting", "installing"}
RaceOutcomes(ranged) == IF ranged THEN BOOLEAN ELSE {FALSE}

(* ParseRemoteOrbs brings any of the orbs a document names into OrbCache,   *)
(* as far as the network allows.                                            *)
ParseRemoteOrbs(f) ==
  IF f \in cached THEN \E found \in SUBSET OrbFiles : orbs' = orbs \union found
                  ELSE UNCHANGED orbs
-----------------------------------------------------------------------------
(* textDocument/didOpen: cache the document, parse it (fetching orbs, which *)
(* keeps the read loop busy), then diagnose it in a goroutine.  An editor   *)
(* numbers versions from 1 again; it reopens the text it had, or discards   *)
(* the edits.                                                               *)
DidOpen(f) ==
  /\ handler = "idle" /\ f \notin open /\ opens[f] < MaxOpens
  /\ \E text \in {{}, sent[f].text} :
       LET doc == [version |-> 1, text |-> text] IN
       /\ sent' = [sent EXCEPT ![f] = doc]
       /\ SetChange(f, doc)
  /\ regressed' = IF entry[f].doc.version > 0 THEN regressed \union {f} ELSE regressed
  /\ lost' = lost \ {f}
  /\ open' = open \union {f}
  /\ opens' = [opens EXCEPT ![f] = @ + 1]
  /\ handler' = "opening" /\ current' = f
  /\ crashed' \in RaceOutcomes(refreshing # {})
  /\ UNCHANGED <<edits, tokenChanges, orbs, token, base, todo, handlerCopy,
                 timerVars, workerVars, shown>>

DidOpenParse ==
  /\ handler = "opening"
  /\ ParseRemoteOrbs(current)
  /\ \E w \in Workers : Go(w, "start", current, sent[current].version)
  /\ handler' = "idle"
  /\ UNCHANGED <<editorVars, cacheVars, token, current, base, todo, handlerCopy,
                 timerVars, shown, crashed, historyVars>>

(* textDocument/didChange: applyIncrementalChanges reads the cached text ... *)
DidChangeRead(f) ==
  /\ handler = "idle" /\ f \in open /\ edits[f] < MaxEdits
  /\ crashed' = (f \notin cached)
  /\ base' = entry[f].doc.text
  /\ handler' = "changing" /\ current' = f
  /\ UNCHANGED <<editorVars, cacheVars, orbs, token, todo, handlerCopy, timerVars,
                 workerVars, shown, historyVars>>

(* ... and setChangeInFileCache stores the result; the one debouncer of the  *)
(* process forgets the change it was holding, whichever file that was for.   *)
DidChangeWrite ==
  LET f   == current
      id  == edits[f] + 1
      ver == sent[f].version + 1
      doc == [version |-> ver, text |-> base \union {id}]
  IN /\ handler = "changing"
     /\ edits' = [edits EXCEPT ![f] = id]
     /\ sent' = [sent EXCEPT ![f] = [version |-> ver, text |-> @.text \union {id}]]
     /\ SetChange(f, doc)
     /\ pendingChange' = {<<f, ver>>}
     /\ handler' = "idle" /\ base' = {}
     /\ crashed' \in RaceOutcomes(refreshing # {})
     /\ UNCHANGED <<open, opens, tokenChanges, orbs, token, current, todo,
                    handlerCopy, pendingRefresh, refreshing, workerVars, shown,
                    historyVars>>

(* textDocument/didClose: only orb files leave the cache. *)
LeavesCache(f) == IsOrb(f)

DidClose(f) ==
  /\ handler = "idle" /\ f \in open
  /\ open' = open \ {f}
  /\ IF LeavesCache(f)
       THEN /\ cached' = cached \ {f}
            /\ shown' = [shown EXCEPT ![f] = {}]
            /\ crashed' \in RaceOutcomes(refreshing # {})
            /\ regressed' = regressed \union {f}
       ELSE UNCHANGED <<cached, shown, crashed, regressed>>
  /\ UNCHANGED <<sent, opens, edits, tokenChanges, entry, orbs, token, handlerVars,
                 timerVars, workerVars, lost>>

(* workspace/executeCommand setToken (setSelfHostedUrl has the same shape):  *)
(* forget the host's data, start a diagnosis of every cached file, copy      *)
(* every entry back with its environment variables emptied, and ask for      *)
(* another round a second later.                                             *)
SetToken(k) ==
  /\ handler = "idle" /\ tokenChanges < MaxTokenChanges
  /\ orbs' = IF k # token THEN {} ELSE orbs
  /\ token' = k
  /\ tokenChanges' = tokenChanges + 1
  /\ handler' = "spawning" /\ todo' = cached
  /\ UNCHANGED <<open, sent, opens, edits, cacheVars, current, base, handlerCopy,
                 timerVars, workerVars, shown, crashed, historyVars>>

SetTokenSpawn(f) ==
  /\ handler = "spawning" /\ f \in todo
  /\ \E w \in Workers : Go(w, "start", f, entry[f].doc.version)
  /\ todo' = todo \ {f}
  /\ UNCHANGED <<editorVars, cacheVars, orbs, token, handler, current, base,
                 handlerCopy, timerVars, shown, crashed, historyVars>>

SetTokenSpawned ==
  /\ handler = "spawning" /\ todo = {}
  /\ handler' = "resetting" /\ todo' = cached
  /\ UNCHANGED <<editorVars, cacheVars, orbs, token, current, base, handlerCopy,
                 timerVars, workerVars, shown, crashed, historyVars>>

SetTokenCopy(f) ==
  /\ handler = "resetting" /\ f \in todo
  /\ handlerCopy' = entry[f]
  /\ handler' = "installing" /\ current' = f /\ todo' = todo \ {f}
  /\ UNCHANGED <<editorVars, cacheVars, orbs, token, base, timerVars, workerVars,
                 shown, crashed, historyVars>>

SetTokenInstall ==
  /\ handler = "installing"
  /\ SetFile(current, handlerCopy)
  /\ handler' = "resetting" /\ handlerCopy' = NoEntry
  /\ crashed' \in RaceOutcomes(refreshing # {})
  /\ UNCHANGED <<editorVars, orbs, token, current, base, todo, timerVars,
                 workerVars, shown>>

SetTokenDone ==
  /\ handler = "resetting" /\ todo = {}
  /\ handler' = "idle" /\ pendingRefresh' = TRUE
  /\ UNCHANGED <<editorVars, cacheVars, orbs, token, current, base, todo,
                 handlerCopy, pendingChange, refreshing, workerVars, shown, crashed,
                 historyVars>>
-----------------------------------------------------------------------------
(* A second without a change: the debounced call of DidChange runs. *)
ChangeTimerFires(w) ==
  /\ \E p \in pendingChange : Go(w, "parsing", p[1], p[2])
  /\ pendingChange' = {}
  /\ UNCHANGED <<editorVars, cacheVars, orbs, token, handlerVars, pendingRefresh,
                 refreshing, shown, crashed, historyVars>>

DebouncedParseOnly(w) ==   \* mutation: parses and does not notify
  /\ pc[w] = "parsing"
  /\ ParseRemoteOrbs(job[w].file)
  /\ pc' = [pc EXCEPT ![w] = "free"] /\ job' = [job EXCEPT ![w] = NoJob]
  /\ UNCHANGED <<editorVars, cacheVars, token, handlerVars, timerVars, seen, copy,
                 shown, crashed, historyVars>>
DebouncedParse(w) ==
  /\ pc[w] = "parsing"
  /\ ParseRemoteOrbs(job[w].file)
  /\ pc' = [pc EXCEPT ![w] = "start"]
  /\ UNCHANGED <<editorVars, cacheVars, token, handlerVars, timerVars, job, seen,
                 copy, shown, crashed, historyVars>>

(* A second without a token: diagnose every cached file again. *)
RefreshTimerFires ==
  /\ pendingRefresh /\ refreshing = {}
  /\ pendingRefresh' = FALSE /\ refreshing' = cached
  /\ UNCHANGED <<editorVars, cacheVars, orbs, token, handlerVars, pendingChange,
                 workerVars, shown, crashed, historyVars>>

RefreshSpawn(f) ==
  /\ f \in refreshing
  /\ refreshing' = refreshing \ {f}
  /\ IF f \in cached THEN \E w \in Workers : Go(w, "start", f, entry[f].doc.version)
                     ELSE UNCHANGED workerVars
  /\ UNCHANGED <<editorVars, cacheVars, orbs, token, handlerVars, pendingChange,
                 pendingRefresh, shown, crashed, historyVars>>
-----------------------------------------------------------------------------
(* notificationMethods, and getAllEnvVariables which it calls with a token. *)
WorkerStep(w, from, to) == pc[w] = from /\ pc' = [pc EXCEPT ![w] = to]

Start(w) ==
  /\ WorkerStep(w, "start",
       IF token # NoToken /\ ~IsOrb(job[w].file) THEN "env" ELSE "parse")
  /\ UNCHANGED <<editorVars, cacheVars, orbs, token, handlerVars, timerVars, job,
                 seen, copy, shown, crashed, historyVars>>

(* cachedFile.Project.Slug, with cachedFile = nil if the file was removed.   *)
EnvGetFile(w) ==
  /\ WorkerStep(w, "env", IF entry[job[w].file].slug THEN "parse" ELSE "project")
  /\ crashed' = (job[w].file \notin cached)
  /\ UNCHANGED <<editorVars, cacheVars, orbs, token, handlerVars, timerVars, job,
                 seen, copy, shown, historyVars>>

ProjectUnknown(w) ==
  /\ WorkerStep(w, "project", "parse")
  /\ UNCHANGED <<editorVars, cacheVars, orbs, token, handlerVars, timerVars, job,
                 seen, copy, shown, crashed, historyVars>>

(* GetProjectId answered: AddProjectSlugToFile. *)
ProjectFound(w) ==
  LET f == job[w].file IN
  /\ WorkerStep(w, "project", "copy")
  /\ entry' = [entry EXCEPT ![f].slug = IF f \in cached THEN TRUE ELSE @]
  /\ crashed' \in IF f \in cached
                    THEN RaceOutcomes(HandlerRanges \/ refreshing # {})
                    ELSE {TRUE}
  /\ UNCHANGED <<editorVars, cached, orbs, token, handlerVars, timerVars, job, seen,
                 copy, shown, historyVars>>

(* updateProjectEnvVariables evaluates *cachedFile before SetFile takes the  *)
(* mutex ...                                                                 *)
CopyEntry(w) ==
  /\ WorkerStep(w, "copy", "install")
  /\ copy' = [copy EXCEPT ![w] = entry[job[w].file]]
  /\ crashed' = (job[w].file \notin cached)
  /\ UNCHANGED <<editorVars, cacheVars, orbs, token, handlerVars, timerVars, job,
                 seen, shown, historyVars>>

(* ... so a change handled in between is overwritten.                        *)
InstallEntry(w) ==
  /\ WorkerStep(w, "install", IF token # NoToken THEN "vars" ELSE "parse")
  /\ SetFile(job[w].file, copy[w])
  /\ copy' = [copy EXCEPT ![w] = NoEntry]
  /\ crashed' \in RaceOutcomes(HandlerRanges \/ refreshing # {})
  /\ UNCHANGED <<editorVars, orbs, token, handlerVars, timerVars, job, seen, shown>>

(* GetAllProjectEnvVariables adds the variables it received, if any, to the  *)
(* entry the file has by then.                                               *)
ReceiveVariables(w) ==
  /\ WorkerStep(w, "vars", "parse")
  /\ crashed' \in IF job[w].file \in cached
                    THEN RaceOutcomes(HandlerRanges \/ refreshing # {})
                    ELSE BOOLEAN
  /\ UNCHANGED <<editorVars, cacheVars, orbs, token, handlerVars, timerVars, job,
                 seen, copy, shown, historyVars>>

(* Diagnostics parses the text in the cache, not the one it was called with. *)
Parse(w) ==
  /\ WorkerStep(w, "parse", "check")
  /\ seen' = [seen EXCEPT ![w] =
       IF job[w].file \in cached THEN entry[job[w].file].doc ELSE NoDoc]
  /\ UNCHANGED <<editorVars, cacheVars, orbs, token, handlerVars, timerVars, job,
                 copy, shown, crashed, historyVars>>

CurrentIfCached(w) == job[w].file \in cached  \* mutation: versions not compared
Current(w) ==
  /\ job[w].file \in cached
  /\ entry[job[w].file].doc.version = job[w].version

Check(w) ==
  /\ WorkerStep(w, "check", IF Current(w) THEN "notify" ELSE "free")
  /\ seen' = [seen EXCEPT ![w] = IF Current(w) THEN @ ELSE NoDoc]
  /\ job' = [job EXCEPT ![w] = IF Current(w) THEN @ ELSE NoJob]
  /\ UNCHANGED <<editorVars, cacheVars, orbs, token, handlerVars, timerVars, copy,
                 shown, crashed, historyVars>>

Notify(w) ==
  /\ WorkerStep(w, "notify", "free")
  /\ shown' = [shown EXCEPT ![job[w].file] =
                 {[version |-> job[w].version, doc |-> seen[w]]}]
  /\ seen' = [seen EXCEPT ![w] = NoDoc] /\ job' = [job EXCEPT ![w] = NoJob]
  /\ UNCHANGED <<editorVars, cacheVars, orbs, token, handlerVars, timerVars, copy,
                 crashed, historyVars>>
-----------------------------------------------------------------------------
Editor(f) == DidOpen(f) \/ DidChangeRead(f) \/ DidClose(f)

Handler ==
  \/ DidOpenParse \/ DidChangeWrite
  \/ \E f \in Files : SetTokenSpawn(f) \/ SetTokenCopy(f)
  \/ SetTokenSpawned \/ SetTokenInstall \/ SetTokenDone

Timers == RefreshTimerFires \/ \E f \in Files : RefreshSpawn(f)

Worker(w) ==
  \/ ChangeTimerFires(w) \/ DebouncedParse(w)
  \/ Start(w) \/ EnvGetFile(w) \/ ProjectUnknown(w) \/ ProjectFound(w)
  \/ CopyEntry(w) \/ InstallEntry(w) \/ ReceiveVariables(w)
  \/ Parse(w) \/ Check(w) \/ Notify(w)

Next ==
  /\ ~crashed
  /\ \/ \E f \in Files : Editor(f)
     \/ \E k \in Tokens : SetToken(k)
     \/ Handler
     \/ Timers
     \/ \E w \in Workers : Worker(w)

Spec == Init /\ [][Next]_vars

(* The server's own threads are not starved: the Go scheduler runs every     *)
(* goroutine, timers expire and network calls return.  The editor is free to *)
(* stop.                                                                     *)
Fairness ==
  /\ WF_vars(~crashed /\ Handler)
  /\ WF_vars(~crashed /\ Timers)
  /\ \A w \in Workers : WF_vars(~crashed /\ Worker(w))

FairSpec == Spec /\ Fairness
-----------------------------------------------------------------------------
Publications == [version : Nat, doc : Docs]

(* Every variable keeps its type. *)
TypeOK ==
  /\ open \subseteq Files /\ sent \in [Files -> Docs]
  /\ opens \in [Files -> Nat] /\ edits \in [Files -> Nat] /\ tokenChanges \in Nat
  /\ cached \subseteq Files /\ entry \in [Files -> Entries]
  /\ orbs \subseteq OrbFiles /\ token \in Tokens
  /\ handler \in HandlerPCs /\ current \in Files /\ base \subseteq Nat
  /\ todo \subseteq Files /\ handlerCopy \in Entries
  /\ pendingChange \subseteq (Files \X Nat)
  /\ pendingRefresh \in BOOLEAN /\ refreshing \subseteq Files
  /\ pc \in [Workers -> WorkerPCs] /\ job \in [Workers -> Jobs]
  /\ seen \in [Workers -> Docs] /\ copy \in [Workers -> Entries]
  /\ shown \in [Files -> SUBSET Publications]
  /\ crashed \in BOOLEAN /\ lost \subseteq Files /\ regressed \subseteq Files

(* Incremental changes are applied to the text the editor applied them to:   *)
(* whatever the handlers and goroutines interleave, the cache holds the      *)
(* editor's text and version of every open file, unless a goroutine put back *)
(* an older copy of the entry (synchronize.go:18, 152; envVariables.go:44).  *)
InSync ==
  \A f \in open \ lost : f \in cached /\ entry[f].doc = sent[f]

(* Diagnostics published for a version were computed from the text of that   *)
(* version, although notificationMethods parses whatever is in the cache and *)
(* compares versions only afterwards (synchronize.go:117-123): true of every *)
(* file whose cached version never went back.                                *)
PublishedForItsVersion ==
  \A f \in Files \ regressed : \A p \in shown[f] : p.doc.version = p.version

(* No goroutine dereferences the entry of a file the editor has open, and no *)
(* map is written while another goroutine ranges over it unless the user has *)
(* changed settings: a crash takes a closed orb file or a change of token    *)
(* (envVariables.go:13, 43; cache.go:114, 131, 142).                         *)
CrashesExplained ==
  crashed => tokenChanges > 0 \/ \E f \in OrbFiles \ open : opens[f] > 0 /\ f \notin cached

(* A goroutine goes on to publish only when its version is the latest the    *)
(* editor sent: "To avoid notifying based on an older version document"      *)
(* (synchronize.go:121-122).                                                 *)
ChecksLatestVersion ==
  [][\A w \in Workers : pc[w] = "check" /\ pc'[w] = "notify"
       => job[w].version = sent[job[w].file].version]_vars

(* The part of ChecksLatestVersion that holds whatever interleaves: only a    *)
(* stale copy of the entry, or a file the editor has closed, gets past the   *)
(* comparison with another version than the editor's.                        *)
PassesLatest ==
  \A w \in Workers :
    pc[w] = "check" /\ pc'[w] = "notify" /\ job[w].file \in open \ lost
      => job[w].version = sent[job[w].file].version
ChecksLatestUnlessLost == [][PassesLatest]_vars

(* The file edited last is diagnosed: unless the editor closes it, changes   *)
(* it again or turns to another file, the change held by the debouncer is    *)
(* published, from the very text the editor has.                             *)
LastChangeDiagnosed ==
  \A f \in Files : \A v \in 1..(MaxEdits + 1) :
    (pendingChange = {<<f, v>>} /\ current = f) ~>
      \/ shown[f] = {[version |-> v, doc |-> sent[f]]}
      \/ f \notin open \/ sent[f].version # v \/ current # f
-----------------------------------------------------------------------------
(* What makes InSync and PublishedForItsVersion inductive.  Ver(f) is the    *)
(* version the cache holds of f; for a file that never regressed it only     *)
(* grows, so every version remembered anywhere is at most Ver(f).            *)
Ver(f) == entry[f].doc.version

(* DidClose alone removes a file, and only from an idle handler. *)
OpenIsCached ==
  /\ open \subseteq cached
  /\ handler \in {"opening", "changing"} => current \in open
  /\ handler = "spawning" => todo \subseteq cached

(* Between its two critical sections DidChange holds the editor's text. *)
BaseInSync ==
  handler = "changing" /\ current \notin lost => base = sent[current].text

VersionsBounded ==
  /\ \A f \in Files \ regressed : Ver(f) <= sent[f].version
  /\ handler = "opening" /\ current \notin regressed
       => sent[current].version <= Ver(current)
  /\ handler = "installing" /\ current \notin regressed
       => handlerCopy.doc.version <= Ver(current)
  /\ \A p \in pendingChange : p[1] \notin regressed => p[1] \in cached /\ p[2] <= Ver(p[1])

WorkerBounded(w) ==
  pc[w] # "free" /\ job[w].file \notin regressed =>
    /\ job[w].file \in cached /\ job[w].version <= Ver(job[w].file)
    /\ pc[w] = "install" => copy[w].doc.version <= Ver(job[w].file)
    /\ pc[w] \in {"check", "notify"} =>
         job[w].version <= seen[w].version /\ seen[w].version <= Ver(job[w].file)
    /\ pc[w] = "notify" => seen[w].version = job[w].version

WorkersBounded == \A w \in Workers : WorkerBounded(w)

(* What makes CrashesExplained inductive.  The maps of the cache are ranged   *)
(* over only once a token was set; the handler, a goroutine and the debouncer *)
(* hold only files that were opened; and such a file misses from the cache    *)
(* only after DidClose took it for an orb file.                               *)
RangedAfterToken ==
  tokenChanges = 0 => refreshing = {} /\ ~pendingRefresh /\ ~HandlerRanges

OnlyOpenedFiles ==
  /\ \A f \in open \union cached : opens[f] > 0
  /\ HandlerRanges => \A f \in todo : opens[f] > 0
  /\ handler = "installing" => opens[current] > 0
  /\ \A p \in pendingChange : opens[p[1]] > 0
  /\ \A w \in Workers : pc[w] # "free" => opens[job[w].file] > 0

MissingIsClosedOrb == \A f \in Files \ cached : opens[f] > 0 => f \in OrbFiles \ open

CrashInv ==
  /\ RangedAfterToken /\ OnlyOpenedFiles /\ MissingIsClosedOrb /\ CrashesExplained

(* The inductive invariant. *)
IInv ==
  /\ TypeOK /\ OpenIsCached /\ BaseInSync /\ InSync
  /\ VersionsBounded /\ WorkersBounded /\ PublishedForItsVersion /\ CrashInv
=============================================================================
