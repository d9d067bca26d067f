# CircleCI YAML language server: TLA+ models and proofs

The language server (`src/`, written in Go) keeps the YAML documents an editor has
open, validates them and publishes diagnostics. Its validation needs remote data:
orbs from the registry, the contexts and environment variables of an
organization, the catalog of machine images, the Docker hub. Goroutines fetch
these and keep them in caches, while the editor goes on editing and the user may
change the token or the host. These modules model the parts where the order of
events matters, the graph algorithm of the validator, and what validation, navigation
and completion say about the names and the parameters of one configuration, each from
its own reading of it, and the edits that turn the editor's text into the cached one.

    DocumentSync.tla       documents, debouncers, goroutines, publication
    ContextCache.tla       contexts of an organization, refreshed page by page
    OrbCache.tla           remote orbs in memory and on disk
    AnswerOnce.tla         what a cache that asks at most once promises
    MachineOfferings.tla   the machine catalog, which implements AnswerOnce
    ExecutorChecks.tla     the checks and completions of executors that read it
    JobsDAG.tla            cycles among the jobs of a workflow
    ConfigDocument.tla     the names of a parsed configuration, and lookups
    ConfigValidation.tla   what the validator says about them
    ConfigNavigation.tla   what definition, references and completion say
    ConfigEditing.tla      edits, and what must agree after each
    Parameters.tla         parameters, values and steps as the parser leaves them
    ParameterChecks.tla    what validator, navigation and completion say about them
    ParameterEditing.tla   edits, and what must agree after each
    HubSearch.tla          completion of images: cursors over the pages of Docker Hub
    DockerImages.tla       the check of images by goroutines that share two caches
    TextEdits.tla          incremental changes; offsets and positions
    Suppression.tla        comments that suppress diagnostics, actions that write them
    *Proofs.tla            theorems about the module of that name
    MC*.tla, *.cfg         instances for TLC

## Inventory

### Threads

`jsonrpc2` reads messages of a connection and calls `commandHandler`
(`pkg/server/server.go:28-88`) for one after the other: the *read loop*. Handlers
therefore never interleave with one another. They start goroutines
(`go methods.notificationMethods(...)`), and two debouncers of
`pkg/server/methods/synchronize.go` start functions from a timer. These do
interleave, with each other and with the read loop. What they share is protected
by one mutex per cache (`pkg/utils/cache.go`), taken for single map operations;
`LsContext` (token and host) is not protected.

### Parts, their state and what makes them correct

| Part | State | Operations | Correct when |
|---|---|---|---|
| Document synchronisation, `server/methods/synchronize.go` | `FileCache`, the two debouncers, goroutines | `DidOpen`, `DidChange`, `DidClose`, `notificationMethods` | the cache has the editor's text; diagnostics fit their version; the last change is diagnosed |
| Environment variables, `server/methods/envVariables.go` | `CachedFile.Project`, `.EnvVariables` | `getAllEnvVariables`, `updateProjectEnvVariables` | does not disturb the text it is stored beside |
| Commands, `server/methods/executeCommand.go` | `LsContext` | `setToken`, `setSelfHostedUrl`, ... | no data of the old host is used with the new one |
| Contexts, `utils/cache.go:294-419`, `utils/context.go` | name -> context, ambiguous short names, loaded lists | refresh, store, clear, resolve | a short name is never that of several contexts; a listed context is never called missing |
| Remote orbs, `parser/remoteOrb.go`, `parser/orbs.go` | orb -> parsed orb; files on disk | fetch, look up, edit, forget | memory belongs to the host; the file of an orb in memory exists; nil is not used |
| Machine catalog, `utils/machineOfferings.go`, `validate/executor.go`, `complete/executors.go` | the catalog, whether it was asked for | `machineOfferings`, its lists, the checks and completions that read them | one request, one answer for everybody, nobody waits forever; verdicts and proposals follow from that answer |
| Job graph, `parser/job_invocation.go`, `validate/cycles.go`, `validate/job_invocation.go` | none | `buildJobsDAG`, `isValidDAG`, `validateDAG` | cycles are reported, acyclic graphs are not |
| Docker hub, `dockerhub/`, `validate/dockerImage.go` | images, tags and their shared maps, namespaces | exists, tags, search | nothing is called missing, offered or proposed that the hub has not said; a completion ends |
| Completion's orb cache, `services/complete/orb_cache.go` | registries, versions | two lookups | as the machine catalog, failures aside |
| Parser and AST, `parser/`, `ast/` | none | text -> `YamlDocument` | one of several definitions wins; ranges lie in the text |
| Validators, `parser/validate/` | none | `YamlDocument` -> diagnostics | each rule holds exactly when it should; the rules agree with each other |
| Parameters, `parser/parameters.go`, `validate/parameters.go`, `services/definition/parameters.go`, ... | none | declare, give, refer; check, find, complete | an accepted call cannot go wrong once values are filled in; the searches agree |
| Diagnostics, suppression, `services/diagnostics.go`, `parser/suppression.go`, `utils/codeActions.go` | diagnostics with their actions, in the editor | filter, offer actions | an action silences what it is about, for good, and nothing else |
| Positions and edits, `utils/indexToPos.go`, `utils/range.go` | the cached text | conversions, `applyIncrementalChanges` | conversions are inverse; the cached text is the editor's |
| Queries, `services/` | none | definition, references, hover, symbols, tokens, completion | answer from one parsed document, as the validator judges it |
| Editors, `editors/` | | start the server, forward commands | environment of the models |

How they interact: `DidOpen` and the change debouncer parse a document and fetch
its orbs (`OrbCache`); `notificationMethods` refreshes the project and the
contexts (`ContextCache`), validates (`OrbCache`, `ExecutorChecks`,
`JobsDAG` and the Docker hub), and publishes. `setToken` and `setSelfHostedUrl`
clear the caches of orbs and contexts, then assign the setting, then start a
diagnosis of every cached file. Each cache is modelled alone, with the part of
these commands that touches it. `MachineOfferings` and the Docker caches are not
cleared.

The behaviours that are hard: a change between two critical sections of a
goroutine; a fetch under way while the caches are cleared; a setting assigned in
several steps; a copy written back; iteration over a live map; requests that
fail or time out; files on disk that outlive the server. `PROJECT.json` lists
each at its line.

## The modules

### DocumentSync

One action for each critical section of `FileCache`, network call or
notification. The read loop is `handler`: `DidOpen`, then `DidOpenParse`;
`DidChangeRead` (`applyIncrementalChanges` reads the cached text), then
`DidChangeWrite` (`setChangeInFileCache` stores the result); `DidClose`;
`SetToken`, which spawns diagnoses and then copies and stores each entry
(`SetTokenCopy`, `SetTokenInstall`). A goroutine is a slot of `Workers`: `pc[w]` is
where it is in `notificationMethods` and `getAllEnvVariables`, `job[w]` the file and
version it was started for, `copy[w]` the entry it is about to write back,
`seen[w]` the document it parsed. `pendingChange` is the function the one
change debouncer of the process holds. A text is the set of the edits
it contains: that is what tells a text with a lost edit from one without.
A nil dereference sets `crashed`. So may a write to the map while another thread
ranges over it, which the Go runtime may or may not detect: `RaceOutcomes`.

`lost` and `regressed` are history: files whose entry was overwritten by an older
copy since they were opened, and files whose version ever went back (a
reopened file starts at 1) or that left the cache. They say exactly when the
promises do not hold.

- `InSync`: the cached document of an open file is the editor's, unless lost.
- `PublishedForItsVersion`: diagnostics published for a version were computed
  from it, unless the version regressed. This needs an argument: the code parses what
  is cached *now* and only then compares versions.
- `ChecksLatestUnlessLost`: the comparison lets no other version pass than the
  editor's latest.
- `CrashesExplained`: a nil dereference takes an orb file the editor has closed, a
  write to a map being ranged over takes a change of token.
- `LastChangeDiagnosed` (liveness): the change the debouncer holds is published,
  unless the editor turns to another file, changes or closes it.

### ContextCache

The contexts of one organization. `SetOrganizationContext` is one action, as it is one
critical section; a refresh is `RequestPage`, `StoreContext` for each context
of the page, `NextPage`, `MarkLoaded`, and a second pass for the variables. That one looks for each
context (`FindContext`) and, if it is not cached, stores it in a later critical section
(`AddContext`), by when another goroutine may have. Requests may fail anywhere. A page is any subset of what the
host has not yet listed. `ClearHostData` and `SwitchHost` are separate because
`setToken` clears before it assigns. `crossed`, `tainted` and `promised` are
history: who began before the last clear, whether such a refresh marked the list
loaded, and what the others were listed.

- `ShortNameUnambiguous`: a short name that resolves without the organization's
  slug is not shared by two cached contexts.
- `LoadedContextsResolve`: when the list is loaded, a listed qualified context
  resolves to itself, so the validator does not call it missing.

### OrbCache

Orbs in memory (`orbsCache`) and their sources on disk (`file`), which an earlier
server may have left. A worker is at one orb of `ParseRemoteOrbs` (`StatFile`,
`ReadFile`, `Fetch`, `CheckFile`, `WriteFile`, `SetOrb`; `FetchFails` and `StoreFails`, when the
source does not parse or cannot be written) or in a lookup (`GetOrb`,
`CheckOrb`, `GetOrbAgain`: the three looks of `GetOrFetchOrbInfo` and `GetOrbInfo`).
`RemoveOrbFiles`, `RemoveOrbs` and `SetHost` are the three steps of a change of
settings. `late` and `crossing` are history: orbs stored, and operations begun,
before the last change was complete.

An orb that is already on disk is *not* brought into memory by `ReadFile`:
`GetOrbVersions` does not ask for the id it then requires
(`remoteOrb.go:242-257`), so `AddOrbToCacheWithContent` returns before
`SetOrb`. Such orbs are fetched by the first lookup.

- `MemoryIsOfHost`, `FileBacksMemory`: an orb in memory comes from the present
  host and has a file, unless a fetch overtaken by the change stored it.
- `CrashesOnlyAcrossSwitch`: a nil orb is used only by an overtaken lookup. The
  read loop's own unchecked dereference (`cache.go:177`) never sees nil,
  because only the read loop forgets orbs.

That the file on disk is the source that was parsed is false, and not stated: a
file is never overwritten, so it keeps an older revision of a volatile orb, or the
source another host gave an earlier server.

### AnswerOnce, MachineOfferings and ExecutorChecks

`AnswerOnce` is the promise: one answer, decided once somebody asked, given to
everyone, a failure included. `MachineOfferings` is the code: a mutex held
across the request, a flag set before it, `offerings` set after it.
`Answer` is the refinement mapping: the abstract answer is `NotYet` while the
flag is set but the request is under way. TLC checks the refinement with
fairness, TLAPS proves its safety part.

`ExecutorChecks` composes it with those who ask. A goroutine checks an executor
(`Begin`), asks again if the check needs a second list (`NeedsAnother`, `AskAgain`: the
catalog, not what it got, is read twice), and reports (`Conclude`); or the read loop
completes a field. The catalogs are constants, with Xcode versions as the bare versions they
are trimmed to; a class or an image is a name, a text with a parameter, or, for classes, one
with a slash. A catalog without Xcode versions is taken for none by the check of macOS
(`executor.go:38`), and an executor that is `machine: true` is not compared with the catalog at
all (`executor.go:65`); `Executors` has none of those. `Offered` says independently of the checks whether some values of an
executor's parameters make it one the catalog has.

- `VerdictIsTheCatalogs`: an executor is reported if and only if the one catalog there
  is does not offer it, and without a catalog, or of macOS without Xcode versions, nothing is. Exceptions: Xcode versions
  are not compared with the class, so what passes for macOS may not be offered; a class of
  Docker or macOS that contains a parameter and more, and an Xcode version with a parameter,
  are taken for names.
- `CompletedIsKnown`: what completion fills in is never the unknown part of a later, or
  an earlier, verdict. It may be half of a bad pair, or a runner's class next to an image.

### JobsDAG

`buildJobsDAG`, Kahn's algorithm in `isValidDAG` and the reports of `validateDAG`,
over every workflow of the instance. Go ranges over maps in random order, so the
queue is a set. An invocation is the job it runs, the name it has in the workflow
(`StepName`) and the list of what it requires; a name may be required twice,
which gives two edges.

- `CyclesNeverVisited`, `RestIsCyclic`: what is left is not empty exactly if there
  is a cycle. Cycles are described as sets of nodes each of which is led to from
  the set (`SelfFed`), or, for one node, by the sets closed under the edges
  (`OnCycle`): no recursion is needed.
- `CyclesReported`: an invocation on a cycle that goes by its job's name is
  reported. For one with a name of its own this fails (see below).

A node that only follows a cycle is left over too, and reported in the words of
`job_invocation.go:319` ("is part of a cycle"); `RestIsCyclic` says what is left.

`JobsDAG` maps a required name to what requires it. The comment on the field
(`pkg/ast/workflow.go:11`, also `job_group.go:13`) says the opposite; for the
cycles it makes no difference.

### ConfigDocument, ConfigValidation, ConfigNavigation, ConfigEditing

A configuration is a record of what it defines: jobs and commands with the names of
their steps, executors, orbs, and workflows and job groups, which are sequences of
invocations. A name is a pair of an orb (or `NoOrb`) and a word: the code splits at
the slash wherever it asks about a name. An error is the place it is at,
the name it is about, and whether it says that the name is part of a cycle. Otherwise wording is
left out, but for the messages about requirements (`Message`), which are told apart by what they
say and by the group they name. Everything about parameters is in the modules below.

The validator, go-to-definition, go-to-references and completion each search these
tables on their own. `ConfigValidation` has the validator's rules about names:
undeclared and duplicate invocations, requirements, cycles, steps, executors, and what is
unused. Of cycles it has the result, the largest set of names that feeds itself (`NotVisited`);
`JobsDAG` is the algorithm, and `RestIsTheLargestSelfFed` the proof that it ends with that set.
`ConfigNavigation` has the others' searches. `ConfigEditing` edits the document
one item at a time, so that "what does this edit break" can be asked as an action
property. An edit stands for the change and the parse that follows.

- `DefinitionAgrees`: an invocation is defined where the validator thinks it is,
  although the two look in different orders, unless its word is warned about.
- `NowhereIsReported`: what go-to-definition cannot find is an error and the other
  way round. Exceptions: orbs that cannot be fetched, and steps that name a job group or
  the job of an orb, which definition finds and the validator refuses.
- `VerdictOrderFree`: the order of a Go map decides one thing only about the message for a
  requirement: which group is named, of several that hold the job, and that in workflows
  only. That there is one message whatever the order is false; the third document of
  `config` has two.
- `CompletionAccepted`: what is proposed is accepted. Exceptions: jobs of orbs,
  proposed as steps (`complete/steps.go:22`) but refused there, and, in a group, a job
  whose word is also a group's.
- `UnusedRemovalsAreSafe`: what is reported unused can be deleted without a new
  error. Two uses are overlooked and excepted: a job that is a step of a command
  (`validate/jobs.go:136`) and an orb that only job groups use (`validate/orb.go:160`).
- `RemovalShowsInReferences`: what a deletion breaks is among the references of what was
  deleted. Exceptions: uses in job groups, executors of orbs, and local orbs, of which
  `GetReferences` lists none.
- `AdditionsErrLocally`: a job that is added is wrong only itself; an invocation is wrong
  itself, makes other invocations of its job wrong or, when it is never visited itself
  because it closes a cycle or follows one, those it leads to; a new group turns invocations of
  its name wrong. An invocation on a cycle is reported only if it goes by its job's name, so
  what is newly reported may be an older invocation and not the one added.

The exceptions are real and each was found by TLC refusing the property without it.

### Parameters, ParameterChecks, ParameterEditing

`Parameters` is the data: a value is told from others by its kind in the YAML tree
(`ValueType` gives the type the parser stores), a text by a word, a reference
`<< scope.name >>` by its scope, its name, whether it is the whole text and whether it is
quoted. What does not parse is dropped (`Given`, `Items`, `parseStep`), and the steps of
`when` and `unless` take their place. `ParameterChecks` has, function by function, the
checks of `validate/parameters.go` and of the calls in `steps.go`, `jobs.go` and
`job_invocation.go`, the search of `searchParamDefinition` along the keys above a
position, that of `getParamReferences` through the text, and what completion offers.
`ParameterEditing` edits one declaration, step, argument, executor, text or
invocation at a time; two of its edits take what completion offers.

- `SubstitutionIsSound`: where the validator lets an argument stand that is nothing but
  a parameter, whatever that parameter may be given the callee's may be given. Exceptions:
  one enum stands for another whatever their values (`SameType`), and in a workflow an
  `env_var_name` takes anything.
- `JumpAgrees`: go-to-definition leads to where the validator looks, unless another
  entity whose name is among the keys above declares the same name: the callee, whose
  arguments are keys below its name.
- `RemovalShowsInReferences`: what a deletion breaks is among the references found.
- `DeclarationsErrLocally`: an edit of a declaration shows at its entity, its callers or,
  for the pipeline's, where the name is mentioned.
- `DefaultsOnlyHelp`: a default the declaration takes, those completion offers included,
  causes no error. Exception: a mapping given as default of an executor parameter. As an
  argument it is accepted by its `name` (`parameters.go:227`); as a default its raw text is
  looked up as an executor (`jobs.go:52`), and reported. The proof did not go through there,
  and TLC showed why. `CompletedNamesExist`: nor does a name completed.

### HubSearch and DockerImages

`HubSearch` is a completion of images: the cursor over the repositories of a
namespace, which are kept, and the one over the tags of an image. `HasNextLoads` and
`LoadNext` are the loop of `searchCursor.HasNext`; a request answers with a page, with an error
document, which reads as an empty last page (`LoadNextError`), or not at all
(`LoadNextFails`: what `loadNext` returns is not looked at, and the loop goes on).
`lastLoad` and `cut` are history.

- `ProposalsAreTheHubs`: what is proposed is the hub's list, in order and without gaps
  (the n-th is where n of those that match are listed), whatever was loaded before, unless
  an error document cut it short.
- `SearchesEnd` (liveness): a completion ends, unless from some time on all its requests
  fail. Then it does not: the loop has no other end, and the read loop waits for it.

`DockerImages` is `validateDockerExecutor` for one image at a time per goroutine. Each
read of a cache, each request and each write to a map is an action (`ReadExists`,
`AskExists`, `ReadEntry`, `List`, `Lookup`, `AskTag`, `BeginWrite`, `EndWrite`, `Store`);
`phase` tells the three calls of `GetImageTagInfo` apart. `DockerTagsCache.Get` returns
a copy of an entry whose map is shared, so maps are a heap (`checked`) that entries
point into; an entry may be stored over another's (`Store`). While one
goroutine is writing to a map, another that uses it may stop the program (`MayCrash`).
What the hub holds changes. `confirmed` and `refused` are history: what the hub has said.

- `MissingIsRefused`: an image or a tag is called missing only after the hub has said so or
  a request for it failed.
- `OffersAreConfirmed`: the tags a code action offers were confirmed.

What completion loaded decides `LoadedByCompletion`, so the modules are composed. A behaviour is
either of completions or of checks after some (`session`), since
checks read what completions loaded and change nothing of it. In the code they do overlap: a
completion writes the map `hubNamespaces` and appends to a list (`search.go:25`,
`repositories.go:104`) while a goroutine's check reads them without a lock (`exists.go:12`), which
the Go runtime may stop the program over. This race is not modelled.

### TextEdits and Suppression

A text is a sequence of characters; a word, a comment or an indentation is one. The editor counts
characters; the server counts bytes, of which a wide character has two. A line of a block
scalar is told by its own indentation (`Script`): the validator reports problems there
(`validate/parameters.go:164-190`), but nothing in it is a comment node, and only those are heard
(`suppression.go:42`). The state is the editor's
text, the cached one and the diagnostics published, each with what its actions
were computed from. `UserTypes` replaces a part and sends a change with positions
(`IndexToPos` of the editor's text), which `applyIncrementalChanges` turns into offsets
of the cached one. `Publish` filters (`ParseSuppressionComments`, a fold over the lines as
in the code). `TakeAction` carries out the edits of an action, of the present
diagnostics or of stale ones, as an editor does. `misread`, `stale` and `silenced` are
history.

- `TextAgrees`: the cached text is the editor's, unless a change lay behind a wide
  character of its line: LSP counts UTF-16 units, the server bytes.
- `PositionsRoundTrip`: every offset survives the way to a position and back.
- `StaysSilent`: what an action has silenced stays silent whatever is silenced next.
- `OthersStayAsTheyAre`: an action silences no other problem and brings none back, unless the range
  it ends was another's. Left out of the last two (`Works`): actions of stale
  diagnostics, those for a problem that begins in a script, except the one for the whole file (their
  comments become part of the script and silence nothing), inline ones that
  overwrite code (the action replaces thirteen characters), and range ends that would be appended to
  a comment, a script or the code on the last line of a text without a final new line.

## Runs

| Run | Instance | Shows |
|---|---|---|
| `sync_no_token` | two files, two goroutines, two changes each, no token | `InSync`, `PublishedForItsVersion`, and `LastChangeDiagnosed` under `FairSpec` |
| `sync_token` | one file that becomes an orb file, opened twice, a token set and changed once | the same where goroutines and the read loop write copies back, both refresh rounds, removal on close, crash paths; `ChecksLatestUnlessLost`, `CrashesExplained` |
| `contexts` | three contexts, two of one short name, two hosts, two goroutines, three refreshes, one switch | the two context properties |
| `orbs` | one fixed and one volatile orb, two goroutines, one switch, one publication | the three orb properties |
| `offerings` | two goroutines, nineteen executors, two different catalogs, one of them without macOS, one switch | the refinement with fairness, one request, verdicts and proposals of one catalog |
| `dag` | three names, three invocations, up to two requirements each | the three graph properties |
| `sync_stale_copy` | one file, token | violated: a copy written back makes the comparison pass for an old version |
| `dag_renamed` | two invocations with names of their own | violated: a cycle of them is not reported |
| `config` | two words to define, seven invocations, a remote orb, a local one, one that cannot be fetched; from nothing up to four items, and from two documents that have more: one with a group that is invoked, one with two groups that hold a required job | the seven properties of names |
| `parameters` | a job and a command, of one name or of two, an executor, one parameter name, eight declarations, six values; three items | the six properties of parameters |
| `dockerimages` | two goroutines, a tagged and an untagged image of one repository, one change at the hub; pages of one entry | the four properties of images |
| `text` | five documents, one with a script, three edits, one of them by hand | the four properties of texts and suppression |

Bounds. Two changes of a file let a goroutine hold a version that is neither the
first nor the last; opening twice lets it hold one of the file's earlier life.
Two contexts of one short name and one of another are all that
`SetOrganizationContext` tells apart; a third refresh starts after two have
overlapped. One switch is what an operation can be overtaken by; two would only
overtake it again. Two callers are one that fetches and one that comes in meanwhile; the mutex treats a third
as the second, and the proofs hold for any number. Three nodes allow self-loops, double edges, two- and
three-cycles, and a node after a cycle. Four items are what a disagreement about one name
takes: a place that uses it, what encloses the place, and two definitions; the seven
properties also passed with five items (155,670 states). Counters (`MaxEdits`, `MaxOpens`,
`MaxTokenChanges`, `MaxRefreshes`, `MaxSwitches`, `MaxPublish`, `MaxItems`,
`MaxChanges`, `MaxTyped`) are guards of
the editor's, user's, author's and hub's actions only; the proofs hold for every value.
`MaxMaps`, the number of maps that are ever allocated, holds back `List`: a map is allocated
per list that comes in, and with two goroutines two may come in before either is
stored. `MaxChanges` counts edits by hand and by actions, three of them nest or follow each other in
every way. Three items of `parameters` are a declaration of the caller, one of the callee, and
one of the pipeline, with a call and its argument in the document opened. `Overwritten`
stands for thirteen characters as words stand for many; two are fewer and more than
what follows the problems of the documents.
Except in `config` and `parameters`, deadlock is not checked: the editor may stop, the bounds end the environment, an
algorithm terminates, and goroutine slots may all be busy.

Symmetry is used for goroutines and invocations where only safety is checked.

Fairness. `DocumentSync`: weak fairness of the read loop once it is in a handler,
of the timers and of each goroutine: Go schedules every goroutine, timers expire,
requests return. The editor and the user are never forced. A timer or handler
that finds every slot of `Workers` busy waits for one, as it would not in Go; a slot
frees after finitely many steps, so this delays and does not lose anything. `MachineOfferings`: weak fairness of the mutex' holder (a request ends
after five seconds at most, `machineOfferings.go:59`), strong fairness of taking the
mutex, as `sync.Mutex` hands itself to a waiter that has starved for a
millisecond; in `ExecutorChecks` also weak fairness of a goroutine that has its answer
(`Proceed`): it goes on to its next list or its report. `DockerImages`: weak fairness of the steps of a completion that has begun
(`SearchStep`): it runs on the read loop, and a request is answered or fails. No new
completion, check or change at the hub is forced.

## Proofs

TLAPS proves the following for every value of the constants, from the ASSUMEs of
the modules (which TLC also evaluates). Each proof is: the inductive invariant
holds initially, each action keeps it, it implies the property.

- `DocumentProofs`, of `DocumentSync`: `TypeCorrect`, `CacheInSync`,
  `PublicationsAreConsistent`, `OutdatedIsStopped`, `CrashesAreExplained`. `InSync` alone is not
  inductive: between its two critical sections `DidChange` holds the text in
  `base`, hence `BaseInSync`, and an open file must be cached, hence
  `OpenIsCached`. `PublishedForItsVersion` needs that versions of a file that never
  regressed only grow: every version remembered by a goroutine, a copy or a debouncer
  is at most the cached one, and one parsed after the goroutine was started is at
  least the goroutine's (`VersionsBounded`, `WorkerBounded`). So if the
  comparison finds the goroutine's version still cached, what was parsed in between
  can only be of that version. Crashes need their own part (`CrashInv`): the handler, every
  goroutine and the debouncer hold only files that were opened once, and such a file misses
  from the cache only after `DidClose` took it for an orb file; until a token is set nobody
  ranges over the map.
- `DocumentProofs`, of `TextEdits` and `Suppression`: `TextsAgree`, `OffsetsRoundTrip`. The
  inductive invariant (`TextInv`) is that both texts are sequences of the document's
  characters (`Texts`), that they agree, and that what is published lies in some text and
  carries insertions of characters (`PublishedInv`). For one change: a position of the editor's
  text stands for the offset behind as many bytes as the text before it has
  (`ServerReadsTheIndex`), because bytes are put together piece by piece (`BytesConcat`) and add no line
  (`BytesHaveTheSameLines`), and no wide character is before it on its line. Several
  changes arrive in one message, with positions of the text before all of them: each is
  applied to a text the others may have changed already, which is right because an action edits
  from the end of the text to its beginning (`ActionsEditLastFirst`, `NextChange`,
  `AllChanges`). The offsets survive because the start of a line is the offset behind as many new lines
  (`LineStartsBehindItsNewLine`). Induction is over sets: the naturals at
  which a fact holds are a set that has zero and with each its successor (`SetInduction`), which
  needs no operator for a parameter. The assumptions: a document is a sequence
  (`DocumentsAssumption`), the wide character is not the new line (`WideAssumption`), and an
  inline comment overwrites a natural number of characters (`OverwrittenAssumption`).
  With `TextsAgree`, `DocumentSync` may treat a text as what was last edited, as it does.
- `DocumentProofs`, of `Suppression`: `SilencedStaysSilent`. That a silenced problem has no
  diagnostic is not inductive: a comment put later could come between a comment and its line, end
  a range early or begin one where another is open. The inductive invariant (`SilenceInv`)
  says in what form it is silent: the whole file is ignored, or the line of every silenced
  problem is `Ignored`, which means an ignore on the line, an ignore-next-line alone on the line
  directly above, or an ignore-start above with only comments in between and an ignore-end further
  on. What is published for the text as it is are its diagnostics (`PublishedIsFresh`), and each
  problem is there once (`Once`), so that a silenced problem stands for its line. The argument:
  what is not suppressed is on a line no comment is about (`WhatIsNotSuppressedIsHeard`), and such
  a line is not `Ignored` (`WhatIsHeardIsNotIgnored`); as actions come with diagnostics, their
  comments are put in front of, on or behind such lines, never inside the block another line is
  ignored by, so what was ignored stays so (`InsertedLineKeeps`, `InlineCommentKeeps`,
  `AppendedEndKeeps`); and each of the four actions makes the line of its own problem `Ignored`, or
  the whole file (`TakenNextLine`, `TakenInline`, `TakenRange`, `TakenFile`). The first
  character of a line decides whether it is of a script (`ScriptsOnTheLine`): what an action writes
  there is no comment, and disturbs no line that is `Ignored`. What the parser
  knows of a line is followed through the fold by `SetInduction` (`AllRead`). Two assumptions more:
  a problem's first character occurs once in a document and is nothing the user types, no comment
  and no white space, and its last character is code (`ProblemsAssumption`); a wide
  character is no comment and no indentation (`WideIsCode`). Both describe how texts are written
  down in the model and not what YAML they stand for.
- `ContextCacheProofs`: `ShortNamesAreSafe`, `ListedContextsAreFound`. An
  unmarked short name has an entry (`ShortIndexed`), an entry of a qualified
  context implies an unmarked name and the entry under its own name (`KeysMatch`);
  a refresh has stored what it listed up to its page (`PassStored`).
- `OrbCacheProofs`: `MemoryFollowsHost`, `FilesAreThere`, `NilOnlyAcrossSwitch`.
  An operation that no change has overtaken holds the present host's source, has
  seen the file, and has seen the orb (`WorkerSettled`); between `RemoveOrbs`
  and the assignment only late orbs are in memory (`Emptied`).
- `MachineOfferingsProofs`: `Inductive`, `NoRequestIsRepeated`, `Implements`,
  `ChecksUseTheCache`, `ChecksInductive`, `VerdictsSound`, `CompletionsKnown`.
  Whoever is past `Lock` holds the mutex, so the requester is alone there. Each step maps
  to a step of `AnswerOnce` or to a stutter.
  Every step of `ExecutorChecks` is one of the cache or none (`ChecksAsk`). An answer once
  given is settled (`Given`): the flag is set and no request under way, which no step
  undoes (`SettledStays`); so the list a check kept and the one it asked for later are of one
  catalog (`Kept`), and its outcome is a function of it (`Concluded`). The rest is about
  that function: `OfferedIsClean`, `ProposedClass`, `ProposedImage`.
- `JobsDAGProofs`: `NoCycleIsMissed`, `NoGraphIsRefusedForNothing`,
  `UnrenamedCyclesAreReported`, `RestIsTheLargestSelfFed`. `in_degree` of a node is the number of edges into
  it not yet followed, and zero exactly if the node is queued or visited
  (`DegreesCount`). A node of a self-fed set always has an edge from the set, which
  is not followed until its source is visited: so no node of the set is ever first. The rest feeds
  itself and contains every set that does, so it is the union `NotVisited` of `ConfigValidation`.

- `ConfigProofs`: `TypeCorrect` and the seven properties of names:
  `NavigationAgreesWithValidation`, `NothingGoesUnreported`, `OnlyTheGroupVaries`,
  `ProposalsAreAccepted`, `UnusedCanGo`, `RemovalsAreFound`, `AdditionsStayLocal`. The first
  needs that a word in two tables is warned about (`Ambiguous`). In a group the order of the map does
  not matter because a job of the requiring group is found in that group, so the search through
  the groups can only return others; in a workflow each of them gives the same words with its
  name. The last three are about the errors an edit causes.
  `NewErrorCases` splits them by what is in error: an invocation, a requirement, a cycle, a step or
  an executor that is new, or was there and right.
  One lemma per edit (`JobRemovalErrors`, ..., `InvocationAdditionErrors`) says which
  places that can be; the others are judged alike because nothing they ask about has
  changed (`InvocationsJudgedAlike`, `StepsJudgedAlike`, `ExecutorsJudgedAlike`). What is left
  is that the search for uses, or for references (`UsesAreFound`), covers those places.
- `ParametersProofs`: `TypeCorrect` and the six properties of parameters. `SubstitutionSound`
  holds of every parsed document: what a declaration accepts is decided by its type
  (`AcceptsValue`), except for enums, and a check that lets a reference stand has compared
  the two types (`SameTypeHolds`). `JumpsAgree` too: a position is at one of a few paths of
  keys (`Paths`), and the last of the keys that declares the name is the entity the position
  is in, if no other on the path is in question (`PathLeads`). For `RemovalShown`, only the entity the
  parameter is removed from can have a reference newly undefined, and it has the name that
  was removed; the text that `getParamReferences` searches is that entity's.
  `CompletedNamesResolve` and `DefaultsHelp` rest on `NothingWorse`: if of every declaration
  seen from a place nothing but the default has changed, and that for a better one
  (`Better`, `Improved`), every check at the place finds at most what it found before
  (`ErrorsBetter`, one lemma per kind of check). `DeclarationsStayLocal` applies the same to
  the places that do not see the declaration, in both directions (`OutOfSightStays`).
  Two assumptions: lists have no references (`InvocationsAssumption`), as `Parameters` leaves
  those out, and no keyword of `when` is the model value for no word (`KeywordAssumption`).
- `DockerImagesProofs`: `MissingRefused`, `OffersConfirmed`, `ProposalsFollowTheHub`.
  Neither of the first two is inductive: what
  is said comes from a map that another goroutine filled. The invariant (`IInv`) is that
  every map belongs to one repository, `owner` says which: what a map holds of a tag was
  said of its owner, an entry in the cache or in a goroutine's hands has a map its own
  repository owns. A list that comes in extends `owner` by its new map (`ListStep`), a
  write goes to a map of the repository it is about (`EndWriteStep`), and whatever was
  sound of the others stays so as more is known (`SoundWorkGrows`). The third has an invariant
  of its own (`SearchInv`): what is loaded is the beginning of the hub's list, of as many
  pages as were asked for, or all of it when no page is left unless an error reply cut it
  (`LoadedUpTo`; a page continues it, `PageContinues`), and as many are proposed as match up
  to the cursor's index. So the next match beyond the index is the next of the list
  (`OneMoreSought`), wherever the pages begin.

The inductive invariants are no invariants of runs, as the theorems state them for all
instances; they are named in the modules (`IInv`).

Every safety property of the passing runs is proved, but for one of `text`: the action property
`OthersStayAsTheyAre` is only model-checked. It says which *other* problems one action silences or
brings back, so its proof would need exactly which comments the parser hears before and
after each insertion, where `StaysSilent` gets along with one sufficient form of being ignored.
Liveness is only model-checked too (`LastChangeDiagnosed`, `SearchesEnd`, the fairness part of
`ImplementsAnswerOnce`).
`ContextCache`'s types are part of its `IInv` and no theorem of their own. Termination of
Kahn's algorithm is not stated.

## Known divergences

Two runs expect a violation (see Runs and the findings in `PROJECT.json`). Others that the
models have, and that the properties except by name or leave out:

- The message about a requirement names the first group that a range over a map finds
  (`yamlparser.go:364`, printed at `validate/job_invocation.go:164`): with two groups that hold the
  job, its text changes from one validation to the next, although the same file sorts the names
  in another message for that very reason (`:296`). `VerdictOrderFree` says what does not change.
- In a block scalar a suppression comment is none (`suppression.go:42`), but the actions are
  offered there: what they insert becomes part of the script and silences nothing, except for
  the whole file.
- A change may come in between the comparison of versions and the notification
  (`synchronize.go:121-123`), so an older version's diagnostics are published after
  it. The next diagnosis replaces them.
- A second refresh allocates the contexts anew, and `SetOrganizationContext` compares them by
  pointer (`cache.go:336`): one context listed twice looks like two, and its short name is
  given up.
- Executors of local orbs are looked for in the registry (`validate/orb.go:222`), so
  they are warned about; completion proposes them.
- An Xcode version given by a parameter is reported as unknown (`validate/executor.go:53`), a
  Docker class in part given by one as invalid (`:277`), and a macOS class is not
  compared with the Xcode version (`:45`).
- A position behind a wide character is read in bytes (`indexToPos.go:22`).
- An inline suppression is put over up to thirteen characters (`codeActions.go:81`).
- A mapping is accepted as argument of an executor parameter and reported as its default
  (`parameters.go:227`, `jobs.go:52`).
- The completion of a namespace whose requests fail does not end (`search.go:49`).

## Not modelled, and the plan

Not modelled for good: reading and printing YAML, wording, hover, symbols and semantic
tokens, telemetry, the JSON schema library and the choice among its messages
(`hasAnotherDiagInsideRange` always finds the diagnostic itself), the HTTP and GraphQL clients (a
request answers or fails), the start of the server, the editors, command line tools.

Left out of modules that are there:

- several connections of one process, which share `LsContext` and the caches;
- contexts deleted on the host, which stay in the cache (`envVariables.go:28`);
- which token a diagnostic was computed with (`executeCommand.go:103`);
- `TrimRight(".yml")` on the names of orb files, which takes letters of the version
  too (`synchronize.go:182`);
- the cursor's `Prev`, which tests use only; two completions on one namespace at the same
  time; the cut of what the editor wants inserted (`InsertText`);
- changes without a range, which LSP allows and the code would insert at the front;
- quoted strings and plain scalars of several lines; a line in the middle of a block scalar that
  what the user types separates from its indentation, which would end the scalar;
- `hubNamespaces` and its lists read and written by two threads (see `DockerImages`);
- `ComparePosition`, which nothing uses and which subtracts unsigned numbers.

Planned, in this order:

1. Versions of orbs (`validate/orb.go`) over `OrbCache`; `machine: true` and what the
   parser suggests instead; the cache of a file's own resource classes as a variable.
2. `CompletionOrbs`: the completion's orb cache as a second, weaker implementation of a
   variant of `AnswerOnce` in which failures are not kept; `simpleOrbExistanceCache`, which
   has the shape of `DockerCache`.
3. Diagnostics told apart by the token they were computed with.
4. The parser's merge keys and anchors; terminal statuses of requirements; triggers.
5. Proofs: Kahn's algorithm empties its queue, by a measure that each visit decreases;
   an action leaves the other problems as they are (`OthersStayAsTheyAre`); the safety part of what
   the modules above will say.
