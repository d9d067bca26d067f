----------------------------- MODULE DockerImages -----------------------------
(***************************************************************************)
(* The check of Docker images (pkg/parser/validate/dockerImage.go, executor.go) *)
(* by the goroutines that validate documents, with the two caches they share     *)
(* (pkg/utils/cache.go).  Nothing is ever removed from these caches, and what a   *)
(* request answers, failure included, is kept.                               *)
(*                                                                         *)
(* A cached entry holds a Go map, so the copies that Get returns share it, and    *)
(* no mutex is held while it is read and written: the maps are a heap.          *)
(***************************************************************************)
EXTENDS HubSearch

CONSTANTS
  Checkers,      \* goroutines
  Repositories,  \* of the namespace, and others
  Tags,
  Latest,        \* the tag "latest"
  Versions,      \* the tags semver takes
  Images,        \* what documents name
  Hubs,          \* what the hub may hold to begin with
  MaxMaps,       \* bound: maps allocated
  MaxChanges,    \* bound: changes at the hub
  None

ASSUME TagsAssumption == Latest \in Tags /\ Versions \subseteq Tags

(* A cached entry: its map and the tag recommended.                          *)
Entry(map, recommended) == [map |-> map, recommended |-> recommended]
Entries == [map : Nat \ {0}, recommended : Tags \union {None}]
ASSUME NoneAssumption ==
  /\ None \notin Entries
  /\ None \notin Tags /\ None \notin Repositories /\ None \notin Images /\ None \notin BOOLEAN
  /\ None \notin {"not found", "no tag", "tag", "latest", "actions"}
ASSUME HubsAssumption == \A h \in Hubs : \A r \in DOMAIN h : h[r] \subseteq Tags
ASSUME BoundsAssumption == MaxMaps \in Nat /\ MaxChanges \in Nat

(* A name the parser cannot take apart, or one that needs a login, is no        *)
(* repository it can look up.                                               *)
Image(repo, tag, digest) == [repo |-> repo, tag |-> tag, digest |-> digest]
isDockerImageCheckable(img) == img.repo # None
ImagesAssumption ==
  Images \subseteq [repo : Repositories \union {None}, tag : Tags \union {None}, digest : {"none", "valid", "invalid"}]
ASSUME ImagesAssumption
(* The tag that is checked when none is written.                             *)
Wanted(img) == IF img.tag = None THEN Latest ELSE img.tag

VARIABLES
  session,       \* bound: a behaviour is of completions or of checks
  hub,           \* the tags of every repository; one that does not exist is not in its domain
  changes,
  exists,        \* DockerCache: per image as written
  tagsCache,     \* DockerTagsCache: per repository an entry, or None
  checked,       \* the maps: what is known of each tag
  work,          \* per goroutine, what it is doing
  crashed,
  confirmed,     \* history: the tags the hub has said are there,
  refused        \* and what it has said is not there, or a request for it has failed

checkVars == <<session, hub, changes, exists, tagsCache, checked, work, crashed, confirmed, refused>>

Known == {None, TRUE, FALSE}

(* what: the tag looked for; phase: for which of the calls of                  *)
(* validateDockerExecutor; said and offered: the diagnostic.                   *)
Idle == [at |-> "idle", image |-> None, phase |-> None, what |-> None, entry |-> None,
         answer |-> None, said |-> None, offered |-> {}]

CheckInit ==
  /\ session \in {"completions", "checks"}
  /\ hub \in Hubs
  /\ changes = 0
  /\ exists = [i \in Images |-> None]
  /\ tagsCache = [r \in Repositories |-> None]
  /\ checked = <<>>
  /\ work = [c \in Checkers |-> Idle]
  /\ crashed = FALSE
  /\ confirmed = {} /\ refused = {}

At(c, where) == ~crashed /\ work[c].at = where
Repo(c) == work[c].image.repo
Becomes(c, w) == work' = [work EXCEPT ![c] = w]
Goes(c, where) == Becomes(c, [work[c] EXCEPT !.at = where])

Done(c, what, tags) == Becomes(c, [Idle EXCEPT !.image = work[c].image, !.said = what, !.offered = tags])

Refused(key, there) == IF there THEN refused ELSE refused \union {key}
-----------------------------------------------------------------------------
(* validateDockerExecutor, for one image.                                   *)
Start(c, img) ==
  /\ At(c, "idle") /\ isDockerImageCheckable(img)
  /\ Becomes(c, [Idle EXCEPT !.at = "exists", !.image = img])
  /\ UNCHANGED <<hub, changes, exists, tagsCache, checked, crashed, confirmed, refused>>

(* DoesDockerImageExists, the part that reads the cache; what it leads to.    *)
ReadExists(c) ==
  LET img == work[c].image
  IN  /\ At(c, "exists")
      /\ CASE exists[img] = None -> Goes(c, "ask exists")
           [] exists[img] = FALSE -> Done(c, "not found", {})
           [] img.digest = "invalid" -> Done(c, "digest", {})
           [] img.digest = "valid" /\ img.tag = None -> Done(c, None, {})
           [] OTHER -> Becomes(c, [work[c] EXCEPT !.at = "entry", !.phase = "tag", !.what = Wanted(img)])
      /\ UNCHANGED <<hub, changes, exists, tagsCache, checked, crashed, confirmed, refused>>

(* dockerHubAPI.DoesImageExist: a repository that completion has loaded is not  *)
(* asked for.                                                              *)
LoadedByCompletion(r) == hasLoaded /\ \E i \in DOMAIN repositories : repositories[i] = r
AskExists(c) ==
  /\ At(c, "ask exists")
  /\ \E there \in IF LoadedByCompletion(Repo(c)) THEN {TRUE} ELSE {Repo(c) \in DOMAIN hub, FALSE} :
       /\ exists' = [exists EXCEPT ![work[c].image] = there]
       /\ refused' = Refused(<<Repo(c)>>, there)
  /\ Goes(c, "exists")
  /\ UNCHANGED <<hub, changes, tagsCache, checked, crashed, confirmed>>

(* GetImageTagActions, once it has the entry.                               *)
HasEntry(c, entry) ==
  IF work[c].phase = "actions"
    THEN Becomes(c, [work[c] EXCEPT !.at = "entry", !.phase = "latest", !.what = Latest,
                       !.offered = {entry.recommended} \ {None}])
    ELSE Becomes(c, [work[c] EXCEPT !.at = "lookup", !.entry = entry])

(* DoesTagExist has answered: of the tag that is written, or of `latest' for    *)
(* the actions.                                                            *)
TagIs(c, there) ==
  CASE work[c].phase = "latest" ->
         Done(c, work[c].said, work[c].offered \union (IF there THEN {Latest} ELSE {}))
    [] work[c].phase = "tag" /\ there /\ work[c].image.tag # None -> Done(c, None, {})
    [] OTHER -> Becomes(c, [Idle EXCEPT !.image = work[c].image, !.at = "entry", !.phase = "actions",
                              !.said = IF there THEN "untagged" ELSE "no tag"])

(* GetImageTagInfo.                                                        *)
ReadEntry(c) ==
  /\ At(c, "entry")
  /\ IF tagsCache[Repo(c)] # None THEN HasEntry(c, tagsCache[Repo(c)]) ELSE Goes(c, "list")
  /\ UNCHANGED <<hub, changes, exists, tagsCache, checked, crashed, confirmed, refused>>

\* mutation: any tag may be recommended
RecommendAny(tags, inactive) == Tags
(* A tag that is not active leaves an empty name in the list, which may come    *)
(* first.                                                                  *)
chooseTagToRecommend(tags, inactive) ==
  LET others == tags \ {Latest}
  IN  IF others \intersect Versions # {} THEN others \intersect Versions
      ELSE IF inactive \/ others = {} THEN others \union {None} ELSE others

(* The first page of what the hub lists; the body of an error reply lists none.  *)
List(c) ==
  /\ At(c, "list") /\ Len(checked) < MaxMaps
  /\ \E tags \in SUBSET (IF Repo(c) \in DOMAIN hub THEN hub[Repo(c)] ELSE {}), inactive \in BOOLEAN :
     \E recommended \in chooseTagToRecommend(tags, inactive) :
       LET entry == Entry(Len(checked) + 1, recommended)
       IN  /\ checked' = Append(checked, [t \in Tags |-> IF t \in tags THEN TRUE ELSE None])
           /\ tagsCache' = [tagsCache EXCEPT ![Repo(c)] = entry]
           /\ confirmed' = confirmed \union ({Repo(c)} \X tags)
           /\ HasEntry(c, entry)
  /\ UNCHANGED <<hub, changes, exists, crashed, refused>>

(* Without a list every tag counts as there, and nothing is offered.           *)
ListFails(c) ==
  /\ At(c, "list")
  /\ IF work[c].phase = "actions" THEN Done(c, work[c].said, {}) ELSE TagIs(c, TRUE)
  /\ UNCHANGED <<hub, changes, exists, tagsCache, checked, crashed, confirmed, refused>>

(* Go stops the program when it meets a map another goroutine is writing to;    *)
(* it does not look every time.                                             *)
BeingWritten(c) ==
  \E d \in Checkers \ {c} : work[d].at = "writing" /\ work[d].entry.map = work[c].entry.map
MayCrash(c) == crashed' \in IF BeingWritten(c) THEN BOOLEAN ELSE {FALSE}

\* mutation: a tag that is not in the map is not there
LookupOnly(c) ==
  /\ At(c, "lookup") /\ MayCrash(c)
  /\ TagIs(c, checked[work[c].entry.map][work[c].what] = TRUE)
  /\ UNCHANGED <<hub, changes, exists, tagsCache, checked, confirmed, refused>>
Lookup(c) ==
  LET known == checked[work[c].entry.map][work[c].what]
  IN  /\ At(c, "lookup") /\ MayCrash(c)
      /\ IF known = None THEN Goes(c, "ask tag") ELSE TagIs(c, known)
      /\ UNCHANGED <<hub, changes, exists, tagsCache, checked, confirmed, refused>>

(* ImageHasTag: no answer counts as no.                                     *)
AskTag(c) ==
  /\ At(c, "ask tag")
  /\ \E there \in {Repo(c) \in DOMAIN hub /\ work[c].what \in hub[Repo(c)], FALSE} :
       /\ refused' = Refused(<<Repo(c), work[c].what>>, there)
       /\ confirmed' = confirmed \union (IF there THEN {<<Repo(c), work[c].what>>} ELSE {})
       /\ Becomes(c, [work[c] EXCEPT !.at = "write", !.answer = there])
  /\ UNCHANGED <<hub, changes, exists, tagsCache, checked, crashed>>

BeginWrite(c) ==
  /\ At(c, "write") /\ MayCrash(c)
  /\ Goes(c, "writing")
  /\ UNCHANGED <<hub, changes, exists, tagsCache, checked, confirmed, refused>>

EndWrite(c) ==
  /\ At(c, "writing")
  /\ checked' = [checked EXCEPT ![work[c].entry.map][work[c].what] = work[c].answer]
  /\ Goes(c, "store")
  /\ UNCHANGED <<hub, changes, exists, tagsCache, crashed, confirmed, refused>>

(* The entry is stored again, over whatever another goroutine has stored.       *)
Store(c) ==
  /\ At(c, "store")
  /\ tagsCache' = [tagsCache EXCEPT ![Repo(c)] = work[c].entry]
  /\ TagIs(c, work[c].answer)
  /\ UNCHANGED <<hub, changes, exists, checked, crashed, confirmed, refused>>

(* A tag is pushed, the first one of a repository perhaps, or deleted.          *)
HubChanges(r, t) ==
  LET tags == IF r \in DOMAIN hub THEN hub[r] ELSE {}
  IN  /\ changes < MaxChanges /\ ~crashed
      /\ changes' = changes + 1
      /\ hub' = [s \in DOMAIN hub \union {r} |->
                   IF s # r THEN hub[s] ELSE IF t \in tags THEN tags \ {t} ELSE tags \union {t}]
      /\ UNCHANGED <<exists, tagsCache, checked, work, crashed, confirmed, refused>>
-----------------------------------------------------------------------------
CheckStep(c) ==
  \/ ReadExists(c) \/ AskExists(c) \/ ReadEntry(c) \/ List(c) \/ ListFails(c)
  \/ Lookup(c) \/ AskTag(c) \/ BeginWrite(c) \/ EndWrite(c) \/ Store(c)

SearchStep ==
  \/ TakeNext \/ HasNextLoads \/ SearchDone \/ LoadNext \/ LoadNextError \/ LoadNextFails
  \/ TagsLoaded \/ TagsError \/ TagsFail \/ TagsHasNextLoads \/ TagsNext \/ TagsDone

(* What checks see of completions is the repositories they have loaded.         *)
Init ==
  /\ CheckInit
  /\ \E k \in {0, Len(Hub)} : SearchInit(k) /\ (session = "completions" => k = 0)

Next ==
  \/ /\ session = "completions" /\ UNCHANGED checkVars
     /\ SearchStep \/ SearchTags \/ \E q \in Queries : Search(q)
  \/ /\ session = "checks" /\ UNCHANGED <<session, searchVars>>
     /\ \/ \E c \in Checkers : CheckStep(c) \/ \E img \in Images : Start(c, img)
        \/ \E r \in Repositories, t \in Tags : HubChanges(r, t)

vars == <<searchVars, checkVars>>

(* A completion that has begun goes on, and requests come back.              *)
Spec == Init /\ [][Next]_vars /\ WF_vars(SearchStep /\ UNCHANGED checkVars)
-----------------------------------------------------------------------------
(* An image is reported missing, or a tag, only when the hub has said so or a    *)
(* request for it has failed: never because another document's check has left   *)
(* the shared maps half filled or has overwritten them.                       *)
MissingIsRefused ==
  \A c \in Checkers :
    LET img == work[c].image
    IN  /\ work[c].said = "not found" => <<img.repo>> \in refused
        /\ work[c].said = "no tag" => <<img.repo, Wanted(img)>> \in refused

(* The tags the code actions offer are tags the hub has said are there, however   *)
(* the entry they come from was exchanged meanwhile.                          *)
OffersAreConfirmed ==
  \A c \in Checkers : \A t \in work[c].offered : <<Repo(c), t>> \in confirmed

(* What makes the two inductive.  Every map belongs to one repository: owner     *)
(* says which.                                                             *)
Checking == {"entry", "list", "lookup", "ask tag", "write", "writing", "store"}
WithEntry == {"lookup", "ask tag", "write", "writing", "store"}
WithAnswer == {"write", "writing", "store"}
Steps == [at : Checking \union {"idle", "exists", "ask exists"}, image : Images \union {None},
          phase : {None, "tag", "actions", "latest"}, what : Tags \union {None},
          entry : Entries \union {None}, answer : Known,
          said : {None, "not found", "digest", "no tag", "untagged"}, offered : SUBSET Tags]
CheckTypeOK ==
  /\ \A r \in DOMAIN hub : hub[r] \subseteq Tags
  /\ exists \in [Images -> Known]
  /\ tagsCache \in [Repositories -> Entries \union {None}]
  /\ checked \in Seq([Tags -> Known])
  /\ work \in [Checkers -> Steps]

Listed == {r \in Repositories : tagsCache[r] # None}
SoundEntry(owner, yes, r, entry) ==
  /\ entry.map \in DOMAIN owner /\ owner[entry.map] = r
  /\ entry.recommended # None => <<r, entry.recommended>> \in yes
SoundWork(owner, yes, no, listed, w) ==
  LET repo == w.image.repo
  IN  /\ w.at # "idle" => w.image \in Images /\ repo \in Repositories
      /\ w.said = "not found" => <<repo>> \in no
      /\ w.said = "no tag" => <<repo, Wanted(w.image)>> \in no
      /\ \A t \in w.offered : <<repo, t>> \in yes
      /\ w.at \in Checking /\ w.phase = "tag" => w.what = Wanted(w.image)
      /\ w.at \in Checking /\ w.phase = "latest" => w.what = Latest /\ repo \in listed /\ w.at # "list"
      /\ w.at \in Checking => w.phase \in {"tag", "actions", "latest"}
      /\ w.at \in WithEntry =>
           w.phase # "actions" /\ w.entry # None /\ w.what # None /\ SoundEntry(owner, yes, repo, w.entry)
      /\ w.at \in WithAnswer => w.answer \in BOOLEAN /\ <<repo, w.what>> \in IF w.answer THEN yes ELSE no
SoundMaps(owner, yes, no, maps) ==
  \A k \in DOMAIN owner, t \in Tags :
    /\ maps[k][t] = TRUE => <<owner[k], t>> \in yes
    /\ maps[k][t] = FALSE => <<owner[k], t>> \in no
Owns(owner) ==
  /\ SoundMaps(owner, confirmed, refused, checked)
  /\ \A r \in Listed : SoundEntry(owner, confirmed, r, tagsCache[r])
  /\ \A c \in Checkers : SoundWork(owner, confirmed, refused, Listed, work[c])
FalseIsRefused == \A i \in Images : exists[i] = FALSE => <<i.repo>> \in refused
IInv ==
  /\ CheckTypeOK /\ FalseIsRefused
  /\ \E owner \in [DOMAIN checked -> Repositories] : Owns(owner)

(* The connection is blocked while a completion waits: it ends, unless from some  *)
(* time on every request of it fails.                                       *)
SearchesEnd == []<>(cursor = NoCursor) \/ <>[](lastLoad = "failed")
=============================================================================
