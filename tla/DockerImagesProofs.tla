-------------------------- MODULE DockerImagesProofs --------------------------
(***************************************************************************)
(* Theorems about DockerImages: they hold for any number of goroutines,        *)
(* images, repositories and tags, and lists of any length on the hub.           *)
(***************************************************************************)
EXTENDS DockerImages, SequenceTheorems, FiniteSetTheorems, WellFoundedInduction, TLAPS

(* What was sound of a goroutine stays so while others learn more.             *)
LEMMA SoundEntryGrows ==
  ASSUME NEW owner, NEW more, DOMAIN owner \subseteq DOMAIN more,
         \A k \in DOMAIN owner : more[k] = owner[k],
         NEW yes, NEW yes2, yes \subseteq yes2,
         NEW r, NEW entry, SoundEntry(owner, yes, r, entry)
  PROVE  SoundEntry(more, yes2, r, entry)
BY DEF SoundEntry

LEMMA SoundWorkGrows ==
  ASSUME NEW owner, NEW more, DOMAIN owner \subseteq DOMAIN more,
         \A k \in DOMAIN owner : more[k] = owner[k],
         NEW yes, NEW yes2, yes \subseteq yes2, NEW no, NEW no2, no \subseteq no2,
         NEW listed, NEW listed2, listed \subseteq listed2,
         NEW w, SoundWork(owner, yes, no, listed, w)
  PROVE  SoundWork(more, yes2, no2, listed2, w)
<1>1. \A r, entry : SoundEntry(owner, yes, r, entry) => SoundEntry(more, yes2, r, entry)
  BY SoundEntryGrows
<1> QED
  BY <1>1 DEF SoundWork

(* One goroutine moves, to w; maps are only added; nothing said is taken back.  *)
LEMMA OneMoves ==
  ASSUME IInv, NEW c \in Checkers, NEW w \in Steps, work' = [work EXCEPT ![c] = w],
         hub' = hub, exists' \in [Images -> Known], tagsCache' \in [Repositories -> Entries \union {None}],
         checked' \in Seq([Tags -> Known]), FalseIsRefused',
         confirmed \subseteq confirmed', refused \subseteq refused', Listed \subseteq Listed',
         NEW owner, Owns(owner), NEW more \in [DOMAIN checked' -> Repositories],
         DOMAIN owner \subseteq DOMAIN more, \A k \in DOMAIN owner : more[k] = owner[k],
         SoundMaps(more, confirmed', refused', checked'),
         \A r \in Listed' : SoundEntry(more, confirmed', r, tagsCache'[r]),
         SoundWork(more, confirmed', refused', Listed', w)
  PROVE  IInv'
<1>1. CheckTypeOK'
  BY DEF IInv, CheckTypeOK
<1>2. ASSUME NEW d \in Checkers PROVE SoundWork(more, confirmed', refused', Listed', work'[d])
  <2>1. CASE d = c
    BY <2>1 DEF IInv, CheckTypeOK
  <2>2. CASE d # c
    <3>1. SoundWork(owner, confirmed, refused, Listed, work[d])
      BY DEF Owns
    <3>2. work'[d] = work[d]
      BY <2>2 DEF IInv, CheckTypeOK
    <3>3. SoundWork(more, confirmed', refused', Listed', work[d])
      BY <3>1, SoundWorkGrows
    <3> QED
      BY <3>2, <3>3
  <2> QED
    BY <2>1, <2>2
<1>3. Owns(more)'
  BY <1>2 DEF Owns
<1> QED
  BY <1>1, <1>3 DEF IInv

(* A goroutine moves without writing to a cache or a map.                      *)
LEMMA QuietMove ==
  ASSUME IInv, NEW c \in Checkers, NEW w \in Steps, work' = [work EXCEPT ![c] = w],
         UNCHANGED <<hub, exists, tagsCache, checked>>,
         confirmed \subseteq confirmed', refused \subseteq refused',
         NEW owner \in [DOMAIN checked -> Repositories], Owns(owner),
         SoundWork(owner, confirmed', refused', Listed, w)
  PROVE  IInv'
<1>1. SoundMaps(owner, confirmed', refused', checked')
  BY DEF SoundMaps, Owns
<1>2. ASSUME NEW r \in Listed' PROVE SoundEntry(owner, confirmed', r, tagsCache'[r])
  <2>1. SoundEntry(owner, confirmed, r, tagsCache[r])
    BY DEF Listed, Owns
  <2> QED
    BY <2>1, SoundEntryGrows
<1>3. FalseIsRefused'
  BY DEF IInv, FalseIsRefused
<1>4. Listed' = Listed
  BY DEF Listed
<1>5. /\ exists' \in [Images -> Known] /\ tagsCache' \in [Repositories -> Entries \union {None}]
      /\ checked' \in Seq([Tags -> Known])
  BY DEF IInv, CheckTypeOK
<1>6. SoundWork(owner, confirmed', refused', Listed', w)
  BY <1>4
<1>7. owner \in [DOMAIN checked' -> Repositories]
  OBVIOUS
<1> QED
  BY <1>1, <1>2, <1>3, <1>4, <1>5, <1>6, <1>7, OneMoves
-----------------------------------------------------------------------------
(* The tag looked for is a tag; an image that is checked names a repository.    *)
LEMMA WantedIsATag == \A img \in Images : Wanted(img) \in Tags
BY ImagesAssumption, TagsAssumption DEF Wanted, ImagesAssumption

LEMMA GoesToAStep ==
  ASSUME NEW w \in Steps, NEW where \in Checking \union {"idle", "exists", "ask exists"}
  PROVE  /\ [w EXCEPT !.at = where] \in Steps
         /\ [w EXCEPT !.at = where].at = where
BY DEF Steps

(* DoesTagExist answers what the hub has said, or that a tag is there because     *)
(* there is no list: then nothing is offered.                                *)
LEMMA TagIsSound ==
  ASSUME NEW c \in Checkers, work[c] \in Steps,
         NEW owner, NEW yes, NEW no, NEW listed, SoundWork(owner, yes, no, listed, work[c]),
         work[c].at \in Checking, work[c].phase # "actions",
         NEW there \in BOOLEAN,
         \/ work[c].phase = "tag" /\ there
         \/ <<Repo(c), work[c].what>> \in IF there THEN yes ELSE no,
         TagIs(c, there)
  PROVE  \E w \in Steps : work' = [work EXCEPT ![c] = w] /\ SoundWork(owner, yes, no, listed, w)
<1> DEFINE img == work[c].image
<1>1. /\ img \in Images /\ img.repo \in Repositories
      /\ work[c].phase \in {"tag", "latest"}
      /\ work[c].said = "not found" => <<img.repo>> \in no
      /\ work[c].said = "no tag" => <<img.repo, Wanted(img)>> \in no
      /\ \A t \in work[c].offered : <<img.repo, t>> \in yes
  BY DEF SoundWork, Checking
<1>2. CASE work[c].phase = "latest"
  <2> DEFINE w == [Idle EXCEPT !.image = img, !.said = work[c].said,
                     !.offered = work[c].offered \union (IF there THEN {Latest} ELSE {})]
  <2>1. work' = [work EXCEPT ![c] = w]
    BY <1>2 DEF TagIs, Done, Becomes
  <2>2. work[c].what = Latest
    BY <1>2 DEF SoundWork
  <2>3. \A t \in w.offered : <<img.repo, t>> \in yes
    BY <1>1, <1>2, <2>2 DEF Idle, Repo
  <2>4. /\ w \in Steps /\ w.at = "idle" /\ w.image = img /\ w.said = work[c].said
    BY <1>1, TagsAssumption DEF Steps, Idle, Known
  <2> HIDE DEF w
  <2>5. SoundWork(owner, yes, no, listed, w)
    BY <1>1, <2>3, <2>4 DEF SoundWork, Checking, WithEntry, WithAnswer
  <2> QED
    BY <2>1, <2>4, <2>5
<1>3. CASE work[c].phase = "tag" /\ there /\ img.tag # None
  <2> DEFINE w == [Idle EXCEPT !.image = img, !.said = None, !.offered = {}]
  <2>1. work' = [work EXCEPT ![c] = w]
    BY <1>3 DEF TagIs, Done, Becomes
  <2>2. w \in Steps /\ w.at = "idle" /\ w.image = img /\ w.said = None /\ w.offered = {}
    BY <1>1 DEF Steps, Idle, Known
  <2> HIDE DEF w
  <2>3. SoundWork(owner, yes, no, listed, w)
    BY <2>2, NoneAssumption DEF SoundWork, Checking, WithEntry, WithAnswer
  <2> QED
    BY <2>1, <2>2, <2>3
<1>4. CASE work[c].phase = "tag" /\ ~(there /\ img.tag # None)
  <2> DEFINE said == IF there THEN "untagged" ELSE "no tag"
             w == [Idle EXCEPT !.image = img, !.at = "entry", !.phase = "actions", !.said = said]
  <2>1. work' = [work EXCEPT ![c] = w]
    BY <1>4 DEF TagIs, Becomes
  <2>2. w \in Steps /\ w.at = "entry" /\ w.phase = "actions" /\ w.image = img /\ w.said = said /\ w.offered = {}
    BY <1>1 DEF Steps, Idle, Known, Checking
  <2> HIDE DEF w
  <2>3. work[c].what = Wanted(img)
    BY <1>4 DEF SoundWork
  <2>4. said = "no tag" => <<img.repo, Wanted(img)>> \in no
    BY <1>4, <2>3 DEF Repo
  <2>5. SoundWork(owner, yes, no, listed, w)
    BY <1>1, <2>2, <2>4 DEF SoundWork, Checking, WithEntry, WithAnswer
  <2> QED
    BY <2>1, <2>2, <2>5
<1> QED
  BY <1>1, <1>2, <1>3, <1>4

(* GetImageTagActions goes on with an entry of its repository.                  *)
LEMMA HasEntrySound ==
  ASSUME NEW c \in Checkers, work[c] \in Steps, work[c].at \in {"entry", "list"},
         NEW owner, NEW yes, NEW no, NEW listed, SoundWork(owner, yes, no, listed, work[c]),
         NEW entry \in Entries, SoundEntry(owner, yes, Repo(c), entry), Repo(c) \in listed,
         HasEntry(c, entry)
  PROVE  \E w \in Steps : work' = [work EXCEPT ![c] = w] /\ SoundWork(owner, yes, no, listed, w)
<1>1. /\ work[c].image \in Images /\ Repo(c) \in Repositories
      /\ work[c].phase \in {"tag", "actions", "latest"}
      /\ work[c].phase = "tag" => work[c].what = Wanted(work[c].image)
      /\ work[c].phase = "latest" => work[c].what = Latest
  BY DEF SoundWork, Checking, Repo
<1>2. CASE work[c].phase = "actions"
  <2> DEFINE w == [work[c] EXCEPT !.at = "entry", !.phase = "latest", !.what = Latest,
                                  !.offered = {entry.recommended} \ {None}]
  <2>1. work' = [work EXCEPT ![c] = w]
    BY <1>2 DEF HasEntry, Becomes
  <2>2. /\ w \in Steps /\ w.at = "entry" /\ w.phase = "latest" /\ w.what = Latest
        /\ w.image = work[c].image /\ w.said = work[c].said /\ w.offered = {entry.recommended} \ {None}
    BY TagsAssumption DEF Steps, Entries, Checking
  <2> HIDE DEF w
  <2>3. \A t \in w.offered : <<Repo(c), t>> \in yes
    BY <2>2 DEF SoundEntry
  <2>4. SoundWork(owner, yes, no, listed, w)
    BY <1>1, <2>2, <2>3 DEF SoundWork, Checking, WithEntry, WithAnswer, Repo
  <2> QED
    BY <2>1, <2>2, <2>4
<1>3. CASE work[c].phase # "actions"
  <2> DEFINE w == [work[c] EXCEPT !.at = "lookup", !.entry = entry]
  <2>1. work' = [work EXCEPT ![c] = w]
    BY <1>3 DEF HasEntry, Becomes
  <2>2. /\ w \in Steps /\ w.at = "lookup" /\ w.phase = work[c].phase /\ w.what = work[c].what
        /\ w.image = work[c].image /\ w.said = work[c].said /\ w.offered = work[c].offered /\ w.entry = entry
    BY DEF Steps, Checking
  <2> HIDE DEF w
  <2>3. w.what # None
    BY <1>1, <1>3, <2>2, WantedIsATag, TagsAssumption, NoneAssumption
  <2>4. w.entry # None
    BY <2>2, NoneAssumption
  <2>5. SoundWork(owner, yes, no, listed, w)
    BY <1>1, <1>3, <2>2, <2>3, <2>4 DEF SoundWork, Checking, WithEntry, WithAnswer, Repo
  <2> QED
    BY <2>1, <2>2, <2>5
<1> QED
  BY <1>2, <1>3
-----------------------------------------------------------------------------
(* One lemma per step of validateDockerExecutor.                              *)
LEMMA WorkTyped ==
  ASSUME IInv, NEW c \in Checkers
  PROVE  work[c] \in Steps
BY DEF IInv, CheckTypeOK

LEMMA OwnerIsThere ==
  ASSUME IInv
  PROVE  \E owner \in [DOMAIN checked -> Repositories] : Owns(owner)
BY DEF IInv

(* A goroutine goes on, and all that is known of it holds of its next place.    *)
LEMMA GoesOn ==
  ASSUME IInv, NEW c \in Checkers, NEW where \in Checking \union {"idle", "exists", "ask exists"},
         Goes(c, where), UNCHANGED <<hub, exists, tagsCache, checked, confirmed, refused>>,
         NEW owner \in [DOMAIN checked -> Repositories], Owns(owner),
         where # "idle" => work[c].at # "idle",
         where \in Checking => work[c].at \in Checking,
         where = "list" => work[c].phase # "latest",
         where \in WithEntry => work[c].at \in WithEntry,
         where \in WithAnswer => work[c].at \in WithAnswer
  PROVE  IInv'
<1> DEFINE w == [work[c] EXCEPT !.at = where]
<1>1. /\ work[c] \in Steps /\ w \in Steps /\ w.at = where
      /\ w.image = work[c].image /\ w.phase = work[c].phase /\ w.what = work[c].what
      /\ w.entry = work[c].entry /\ w.answer = work[c].answer
      /\ w.said = work[c].said /\ w.offered = work[c].offered
  <2>1. work[c] \in Steps
    BY WorkTyped
  <2>2. w \in Steps /\ w.at = where
    BY <2>1, GoesToAStep
  <2> QED
    BY <2>1, <2>2 DEF Steps
<1>2. work' = [work EXCEPT ![c] = w]
  BY DEF Goes, Becomes
<1> HIDE DEF w
<1>3. SoundWork(owner, confirmed, refused, Listed, work[c])
  BY DEF Owns
<1>4. SoundWork(owner, confirmed, refused, Listed, w)
  BY <1>1, <1>3 DEF SoundWork
<1> QED
  BY <1>1, <1>2, <1>4, QuietMove

(* DoesTagExist ends, with nothing written.                                  *)
LEMMA TagIsKept ==
  ASSUME IInv, NEW c \in Checkers, NEW there \in BOOLEAN, TagIs(c, there),
         UNCHANGED <<hub, exists, tagsCache, checked, confirmed, refused>>,
         NEW owner \in [DOMAIN checked -> Repositories], Owns(owner),
         work[c].at \in Checking, work[c].phase # "actions",
         \/ work[c].phase = "tag" /\ there
         \/ <<Repo(c), work[c].what>> \in IF there THEN confirmed ELSE refused
  PROVE  IInv'
<1>1. SoundWork(owner, confirmed, refused, Listed, work[c])
  BY DEF Owns
<1>2. PICK w \in Steps : work' = [work EXCEPT ![c] = w] /\ SoundWork(owner, confirmed, refused, Listed, w)
  BY <1>1, WorkTyped, TagIsSound
<1> QED
  BY <1>2, QuietMove

LEMMA StartStep ==
  ASSUME IInv, NEW c \in Checkers, NEW img \in Images, Start(c, img)
  PROVE  IInv'
<1> DEFINE w == [Idle EXCEPT !.at = "exists", !.image = img]
<1>1. PICK owner \in [DOMAIN checked -> Repositories] : Owns(owner)
  BY OwnerIsThere
<1>2. img.repo \in Repositories
  BY ImagesAssumption DEF Start, isDockerImageCheckable, ImagesAssumption
<1>3. w \in Steps /\ w.at = "exists" /\ w.image = img /\ w.said = None /\ w.offered = {}
  BY DEF Steps, Idle, Known
<1>4. work' = [work EXCEPT ![c] = w]
  BY DEF Start, Becomes
<1> HIDE DEF w
<1>5. SoundWork(owner, confirmed, refused, Listed, w)
  BY <1>2, <1>3, NoneAssumption DEF SoundWork, Checking, WithEntry, WithAnswer
<1>6. UNCHANGED <<hub, exists, tagsCache, checked, confirmed, refused>>
  BY DEF Start
<1> QED
  BY <1>1, <1>3, <1>4, <1>5, <1>6, QuietMove

LEMMA ReadExistsStep ==
  ASSUME IInv, NEW c \in Checkers, ReadExists(c)
  PROVE  IInv'
<1> DEFINE img == work[c].image
<1>1. PICK owner \in [DOMAIN checked -> Repositories] : Owns(owner)
  BY OwnerIsThere
<1>2. /\ work[c] \in Steps /\ work[c].at = "exists" /\ img \in Images /\ img.repo \in Repositories
      /\ UNCHANGED <<hub, exists, tagsCache, checked, confirmed, refused>>
  BY <1>1, WorkTyped DEF ReadExists, At, Owns, SoundWork
<1>3. CASE Goes(c, "ask exists")
  <2>1. "ask exists" \notin Checking /\ "ask exists" \notin WithEntry /\ "ask exists" \notin WithAnswer
    BY DEF Checking, WithEntry, WithAnswer
  <2>2. "ask exists" \in Checking \union {"idle", "exists", "ask exists"} /\ work[c].at # "idle"
    BY <1>2
  <2> QED
    BY <1>1, <1>2, <1>3, <2>1, <2>2, GoesOn
<1>4. ASSUME NEW said \in {None, "not found", "digest"}, Done(c, said, {}),
             said = "not found" => <<img.repo>> \in refused
      PROVE  IInv'
  <2> DEFINE w == [Idle EXCEPT !.image = img, !.said = said, !.offered = {}]
  <2>1. work' = [work EXCEPT ![c] = w]
    BY <1>4 DEF Done, Becomes
  <2>2. w \in Steps /\ w.at = "idle" /\ w.image = img /\ w.said = said /\ w.offered = {}
    BY <1>2 DEF Steps, Idle, Known
  <2> HIDE DEF w
  <2>3. SoundWork(owner, confirmed, refused, Listed, w)
    BY <1>4, <2>2, NoneAssumption DEF SoundWork, Checking, WithEntry, WithAnswer
  <2> QED
    BY <1>1, <1>2, <2>1, <2>2, <2>3, QuietMove
<1>5. ASSUME Becomes(c, [work[c] EXCEPT !.at = "entry", !.phase = "tag", !.what = Wanted(img)])
      PROVE  IInv'
  <2> DEFINE w == [work[c] EXCEPT !.at = "entry", !.phase = "tag", !.what = Wanted(img)]
  <2>1. work' = [work EXCEPT ![c] = w]
    BY <1>5 DEF Becomes
  <2>2. /\ w \in Steps /\ w.at = "entry" /\ w.phase = "tag" /\ w.what = Wanted(img)
        /\ w.image = img /\ w.said = work[c].said /\ w.offered = work[c].offered
    BY <1>2, WantedIsATag DEF Steps, Checking
  <2> HIDE DEF w
  <2>3. SoundWork(owner, confirmed, refused, Listed, work[c])
    BY <1>1 DEF Owns
  <2>4. SoundWork(owner, confirmed, refused, Listed, w)
    BY <1>2, <2>2, <2>3 DEF SoundWork, Checking, WithEntry, WithAnswer
  <2> QED
    BY <1>1, <1>2, <2>1, <2>2, <2>4, QuietMove
<1>6. exists[img] = FALSE => <<img.repo>> \in refused
  BY <1>2 DEF IInv, FalseIsRefused
<1>7. \/ Goes(c, "ask exists")
      \/ exists[img] = FALSE /\ Done(c, "not found", {})
      \/ Done(c, "digest", {}) \/ Done(c, None, {})
      \/ Becomes(c, [work[c] EXCEPT !.at = "entry", !.phase = "tag", !.what = Wanted(img)])
  BY NoneAssumption DEF ReadExists
<1> QED
  BY <1>3, <1>4, <1>5, <1>6, <1>7, NoneAssumption

LEMMA AskExistsStep ==
  ASSUME IInv, NEW c \in Checkers, AskExists(c)
  PROVE  IInv'
<1> DEFINE img == work[c].image
           w == [work[c] EXCEPT !.at = "exists"]
<1>1. PICK owner \in [DOMAIN checked -> Repositories] : Owns(owner)
  BY OwnerIsThere
<1>2. /\ work[c] \in Steps /\ work[c].at = "ask exists" /\ img \in Images
      /\ UNCHANGED <<hub, tagsCache, checked, confirmed>>
      /\ SoundWork(owner, confirmed, refused, Listed, work[c])
  BY <1>1, WorkTyped DEF AskExists, At, Owns, SoundWork
<1> DEFINE isThere == Repo(c) \in DOMAIN hub
           answers == IF LoadedByCompletion(Repo(c)) THEN {TRUE} ELSE {isThere, FALSE}
<1>a. answers \subseteq BOOLEAN
  <2>1. isThere \in BOOLEAN
    OBVIOUS
  <2> HIDE DEF isThere
  <2> QED
    BY <2>1
<1>b. \E there \in answers : /\ exists' = [exists EXCEPT ![img] = there]
                             /\ refused' = Refused(<<img.repo>>, there)
  BY DEF AskExists, Repo
<1> HIDE DEF answers
<1>3. PICK there \in BOOLEAN : /\ exists' = [exists EXCEPT ![img] = there]
                               /\ refused' = Refused(<<img.repo>>, there)
  BY <1>a, <1>b
<1>4. refused \subseteq refused' /\ (there = FALSE => <<img.repo>> \in refused')
  BY <1>3 DEF Refused
<1>5. exists' \in [Images -> Known]
  BY <1>3 DEF IInv, CheckTypeOK, Known
<1>6. FalseIsRefused'
  BY <1>2, <1>3, <1>4 DEF IInv, FalseIsRefused, CheckTypeOK
<1>7. work' = [work EXCEPT ![c] = w]
  BY DEF AskExists, Goes, Becomes
<1>8. /\ w \in Steps /\ w.at = "exists" /\ w.image = img /\ w.said = work[c].said /\ w.offered = work[c].offered
  BY <1>2 DEF Steps
<1> HIDE DEF w
<1>9. SoundWork(owner, confirmed', refused', Listed', w)
  <2>1. SoundWork(owner, confirmed, refused, Listed, w)
    BY <1>2, <1>8 DEF SoundWork, Checking, WithEntry, WithAnswer
  <2>2. Listed' = Listed
    BY <1>2 DEF Listed
  <2> QED
    BY <1>2, <1>4, <2>1, <2>2, SoundWorkGrows
<1>10. /\ SoundMaps(owner, confirmed', refused', checked')
       /\ \A r \in Listed' : SoundEntry(owner, confirmed', r, tagsCache'[r])
       /\ Listed' = Listed
  BY <1>1, <1>2, <1>4 DEF SoundMaps, Owns, Listed
<1>11. tagsCache' \in [Repositories -> Entries \union {None}] /\ checked' \in Seq([Tags -> Known])
  BY <1>2 DEF IInv, CheckTypeOK
<1>12. owner \in [DOMAIN checked' -> Repositories] /\ confirmed \subseteq confirmed' /\ hub' = hub
  BY <1>1, <1>2
<1> QED
  BY <1>1, <1>4, <1>5, <1>6, <1>7, <1>8, <1>9, <1>10, <1>11, <1>12, OneMoves

LEMMA ReadEntryStep ==
  ASSUME IInv, NEW c \in Checkers, ReadEntry(c)
  PROVE  IInv'
<1>1. PICK owner \in [DOMAIN checked -> Repositories] : Owns(owner)
  BY OwnerIsThere
<1>2. /\ work[c] \in Steps /\ work[c].at = "entry" /\ Repo(c) \in Repositories
      /\ UNCHANGED <<hub, exists, tagsCache, checked, confirmed, refused>>
      /\ SoundWork(owner, confirmed, refused, Listed, work[c])
  BY <1>1, WorkTyped DEF ReadEntry, At, Owns, SoundWork, Repo
<1>3. CASE tagsCache[Repo(c)] # None
  <2>1. /\ tagsCache[Repo(c)] \in Entries /\ Repo(c) \in Listed
        /\ SoundEntry(owner, confirmed, Repo(c), tagsCache[Repo(c)])
        /\ HasEntry(c, tagsCache[Repo(c)])
    BY <1>1, <1>2, <1>3 DEF IInv, CheckTypeOK, Listed, Owns, ReadEntry
  <2>2. PICK w \in Steps : work' = [work EXCEPT ![c] = w] /\ SoundWork(owner, confirmed, refused, Listed, w)
    BY <1>2, <2>1, HasEntrySound
  <2> QED
    BY <1>1, <1>2, <2>2, QuietMove
<1>4. CASE tagsCache[Repo(c)] = None
  <2>1. Goes(c, "list")
    BY <1>4 DEF ReadEntry
  <2>2. work[c].phase # "latest"
    BY <1>2, <1>4 DEF SoundWork, Listed, Checking, Repo
  <2>3. /\ "list" \in Checking /\ "list" \notin WithEntry /\ "list" \notin WithAnswer
        /\ work[c].at \in Checking /\ work[c].at # "idle"
    BY <1>2 DEF Checking, WithEntry, WithAnswer
  <2> QED
    BY <1>1, <1>2, <2>1, <2>2, <2>3, GoesOn
<1> QED
  BY <1>3, <1>4

LEMMA ListFailsStep ==
  ASSUME IInv, NEW c \in Checkers, ListFails(c)
  PROVE  IInv'
<1>1. PICK owner \in [DOMAIN checked -> Repositories] : Owns(owner)
  BY OwnerIsThere
<1>2. /\ work[c] \in Steps /\ work[c].at = "list" /\ work[c].at \in Checking
      /\ UNCHANGED <<hub, exists, tagsCache, checked, confirmed, refused>>
      /\ SoundWork(owner, confirmed, refused, Listed, work[c])
  BY <1>1, WorkTyped DEF ListFails, At, Owns, Checking
<1>3. CASE work[c].phase = "actions"
  <2> DEFINE w == [Idle EXCEPT !.image = work[c].image, !.said = work[c].said, !.offered = {}]
  <2>1. work' = [work EXCEPT ![c] = w]
    BY <1>3 DEF ListFails, Done, Becomes
  <2>2. w \in Steps /\ w.at = "idle" /\ w.image = work[c].image /\ w.said = work[c].said /\ w.offered = {}
    BY <1>2 DEF Steps, Idle, Known
  <2> HIDE DEF w
  <2>3. SoundWork(owner, confirmed, refused, Listed, w)
    BY <1>2, <2>2 DEF SoundWork, Checking, WithEntry, WithAnswer
  <2> QED
    BY <1>1, <1>2, <2>1, <2>2, <2>3, QuietMove
<1>4. CASE work[c].phase # "actions"
  <2>1. TagIs(c, TRUE)
    BY <1>4 DEF ListFails
  <2>2. work[c].phase = "tag"
    BY <1>2, <1>4 DEF SoundWork
  <2> QED
    BY <1>1, <1>2, <1>4, <2>1, <2>2, TagIsKept
<1> QED
  BY <1>3, <1>4

LEMMA LookupStep ==
  ASSUME IInv, NEW c \in Checkers, Lookup(c)
  PROVE  IInv'
<1> DEFINE known == checked[work[c].entry.map][work[c].what]
<1>1. PICK owner \in [DOMAIN checked -> Repositories] : Owns(owner)
  BY OwnerIsThere
<1>2. /\ work[c] \in Steps /\ work[c].at = "lookup"
      /\ UNCHANGED <<hub, exists, tagsCache, checked, confirmed, refused>>
      /\ SoundWork(owner, confirmed, refused, Listed, work[c])
  BY <1>1, WorkTyped DEF Lookup, At, Owns
<1>3. work[c].at \in Checking /\ work[c].at \in WithEntry
  BY <1>2 DEF Checking, WithEntry
<1>4. /\ work[c].entry.map \in DOMAIN owner /\ owner[work[c].entry.map] = Repo(c)
      /\ work[c].phase # "actions" /\ work[c].what \in Tags
  BY <1>2, <1>3 DEF SoundWork, SoundEntry, Repo, Steps
<1>5. /\ known \in Known
      /\ known = TRUE => <<Repo(c), work[c].what>> \in confirmed
      /\ known = FALSE => <<Repo(c), work[c].what>> \in refused
  BY <1>1, <1>4 DEF IInv, CheckTypeOK, Owns, SoundMaps
<1>6. CASE known = None
  <2>1. Goes(c, "ask tag")
    BY <1>6 DEF Lookup
  <2>2. "ask tag" \in Checking /\ "ask tag" \in WithEntry /\ "ask tag" \notin WithAnswer
    BY DEF Checking, WithEntry, WithAnswer
  <2> QED
    BY <1>1, <1>2, <1>3, <2>1, <2>2, GoesOn
<1>7. CASE known # None
  <2>1. TagIs(c, known)
    BY <1>7 DEF Lookup
  <2>2. known \in BOOLEAN
    BY <1>5, <1>7 DEF Known
  <2>3. <<Repo(c), work[c].what>> \in IF known THEN confirmed ELSE refused
    BY <1>5, <2>2
  <2> QED
    BY <1>1, <1>2, <1>3, <1>4, <2>1, <2>2, <2>3, TagIsKept
<1> QED
  BY <1>6, <1>7

(* A list that comes in gets a map of its own, which belongs to its repository.  *)
LEMMA ListStep ==
  ASSUME IInv, NEW c \in Checkers, List(c)
  PROVE  IInv'
<1> DEFINE repo == Repo(c)
           n == Len(checked) + 1
<1>1. PICK owner \in [DOMAIN checked -> Repositories] : Owns(owner)
  BY OwnerIsThere
<1>2. /\ work[c] \in Steps /\ work[c].at = "list" /\ repo \in Repositories
      /\ UNCHANGED <<hub, exists, refused>>
      /\ SoundWork(owner, confirmed, refused, Listed, work[c])
  BY <1>1, WorkTyped DEF List, At, Owns, SoundWork, Repo
<1>3. PICK tags \in SUBSET (IF repo \in DOMAIN hub THEN hub[repo] ELSE {}), inactive \in BOOLEAN :
        \E recommended \in chooseTagToRecommend(tags, inactive) :
          LET entry == Entry(n, recommended)
          IN  /\ checked' = Append(checked, [t \in Tags |-> IF t \in tags THEN TRUE ELSE None])
              /\ tagsCache' = [tagsCache EXCEPT ![repo] = entry]
              /\ confirmed' = confirmed \union ({repo} \X tags)
              /\ HasEntry(c, entry)
  BY DEF List
<1>4. PICK recommended \in chooseTagToRecommend(tags, inactive) :
          /\ checked' = Append(checked, [t \in Tags |-> IF t \in tags THEN TRUE ELSE None])
          /\ tagsCache' = [tagsCache EXCEPT ![repo] = Entry(n, recommended)]
          /\ confirmed' = confirmed \union ({repo} \X tags)
          /\ HasEntry(c, Entry(n, recommended))
  BY <1>3
<1>5. tags \subseteq Tags
  BY <1>3 DEF IInv, CheckTypeOK
<1>6. recommended \in tags \union {None}
  BY <1>4 DEF chooseTagToRecommend
<1> DEFINE entry == Entry(n, recommended)
           map == [t \in Tags |-> IF t \in tags THEN TRUE ELSE None]
           more == [k \in DOMAIN checked' |-> IF k \in DOMAIN owner THEN owner[k] ELSE repo]
<1>7. checked \in Seq([Tags -> Known]) /\ map \in [Tags -> Known]
  BY DEF IInv, CheckTypeOK, Known
<1>8. /\ checked' \in Seq([Tags -> Known]) /\ DOMAIN checked' = DOMAIN checked \union {n}
      /\ n \in Nat \ {0} /\ n \notin DOMAIN checked /\ checked'[n] = map
      /\ \A k \in DOMAIN checked : checked'[k] = checked[k]
  <2> HIDE DEF map
  <2>1. checked' = Append(checked, map)
    BY <1>4 DEF map
  <2> QED
    BY <1>7, <2>1
<1>9. /\ more \in [DOMAIN checked' -> Repositories] /\ DOMAIN owner \subseteq DOMAIN more
      /\ \A k \in DOMAIN owner : more[k] = owner[k]
      /\ more[n] = repo /\ n \in DOMAIN more /\ n \notin DOMAIN owner
      /\ DOMAIN more = DOMAIN owner \union {n}
  BY <1>1, <1>2, <1>8
<1>10. /\ entry \in Entries /\ entry.map = n /\ entry.recommended = recommended /\ entry # None
  <2> HIDE DEF n
  <2>1. recommended \in Tags \union {None} /\ n \in Nat \ {0}
    BY <1>5, <1>6, <1>8
  <2>2. entry \in Entries /\ entry.map = n /\ entry.recommended = recommended
    BY <2>1 DEF Entry, Entries
  <2> QED
    BY <2>2, NoneAssumption
<1>11. SoundEntry(more, confirmed', repo, entry)
  BY <1>4, <1>6, <1>9, <1>10 DEF SoundEntry
<1>12. tagsCache \in [Repositories -> Entries \union {None}] /\ tagsCache' = [tagsCache EXCEPT ![repo] = entry]
  BY <1>4 DEF IInv, CheckTypeOK
<1> HIDE DEF entry, more, map, n
<1>13. /\ tagsCache' \in [Repositories -> Entries \union {None}]
       /\ Listed \subseteq Listed' /\ repo \in Listed' /\ tagsCache'[repo] = entry
       /\ \A r \in Listed' \ {repo} : r \in Listed /\ tagsCache'[r] = tagsCache[r]
  BY <1>2, <1>10, <1>12 DEF Listed
<1>14. confirmed \subseteq confirmed' /\ refused \subseteq refused' /\ {repo} \X tags \subseteq confirmed'
  BY <1>2, <1>4
<1>15. ASSUME NEW r \in Listed' PROVE SoundEntry(more, confirmed', r, tagsCache'[r])
  <2>1. CASE r = repo
    BY <1>11, <1>13, <2>1
  <2>2. CASE r # repo
    <3>1. r \in Listed /\ tagsCache'[r] = tagsCache[r]
      BY <1>13, <1>15, <2>2
    <3>2. SoundEntry(owner, confirmed, r, tagsCache[r])
      BY <1>1, <3>1 DEF Owns
    <3> QED
      BY <1>9, <1>14, <3>1, <3>2, SoundEntryGrows
  <2> QED
    BY <2>1, <2>2
<1>16. SoundMaps(more, confirmed', refused', checked')
  <2> SUFFICES ASSUME NEW k \in DOMAIN more, NEW t \in Tags
               PROVE  /\ checked'[k][t] = TRUE => <<more[k], t>> \in confirmed'
                      /\ checked'[k][t] = FALSE => <<more[k], t>> \in refused'
    BY DEF SoundMaps
  <2>1. CASE k = n
    <3>1. checked'[k][t] = IF t \in tags THEN TRUE ELSE None
      BY <1>8, <2>1 DEF map
    <3>2. t \in tags => <<repo, t>> \in confirmed'
      BY <1>14
    <3> QED
      BY <1>9, <2>1, <3>1, <3>2, NoneAssumption
  <2>2. CASE k # n
    <3>1. k \in DOMAIN owner /\ k \in DOMAIN checked
      BY <1>1, <1>9, <2>2
    <3>2. checked'[k] = checked[k] /\ more[k] = owner[k]
      BY <1>8, <1>9, <3>1
    <3>3. /\ checked[k][t] = TRUE => <<owner[k], t>> \in confirmed
          /\ checked[k][t] = FALSE => <<owner[k], t>> \in refused
      BY <1>1, <3>1 DEF Owns, SoundMaps
    <3> QED
      BY <1>14, <3>2, <3>3
  <2> QED
    BY <2>1, <2>2
<1>17. SoundWork(more, confirmed', refused', Listed', work[c])
  BY <1>2, <1>9, <1>13, <1>14, SoundWorkGrows
<1>18. PICK w \in Steps : work' = [work EXCEPT ![c] = w] /\ SoundWork(more, confirmed', refused', Listed', w)
  <2>1. HasEntry(c, entry) /\ repo \in Listed' /\ work[c].at \in {"entry", "list"}
    BY <1>2, <1>4, <1>13 DEF entry, n
  <2> QED
    BY <1>2, <1>10, <1>11, <1>17, <2>1, HasEntrySound
<1>19. exists' \in [Images -> Known] /\ FalseIsRefused' /\ hub' = hub
  BY <1>2 DEF IInv, CheckTypeOK, FalseIsRefused
<1> QED
  BY <1>1, <1>8, <1>9, <1>13, <1>14, <1>15, <1>16, <1>18, <1>19, OneMoves

LEMMA AskTagStep ==
  ASSUME IInv, NEW c \in Checkers, AskTag(c)
  PROVE  IInv'
<1> DEFINE key == <<Repo(c), work[c].what>>
           isThere == Repo(c) \in DOMAIN hub /\ work[c].what \in hub[Repo(c)]
<1>1. PICK owner \in [DOMAIN checked -> Repositories] : Owns(owner)
  BY OwnerIsThere
<1>2. /\ work[c] \in Steps /\ work[c].at = "ask tag"
      /\ UNCHANGED <<hub, exists, tagsCache, checked>>
      /\ SoundWork(owner, confirmed, refused, Listed, work[c])
  BY <1>1, WorkTyped DEF AskTag, At, Owns
<1>3. \E there \in {isThere, FALSE} :
        /\ refused' = Refused(key, there)
        /\ confirmed' = confirmed \union (IF there THEN {key} ELSE {})
        /\ Becomes(c, [work[c] EXCEPT !.at = "write", !.answer = there])
  BY DEF AskTag
<1>4. {isThere, FALSE} \subseteq BOOLEAN
  <2>1. isThere \in BOOLEAN
    OBVIOUS
  <2> HIDE DEF isThere
  <2> QED
    BY <2>1
<1> HIDE DEF isThere
<1>5. PICK there \in BOOLEAN :
        /\ refused' = Refused(key, there)
        /\ confirmed' = confirmed \union (IF there THEN {key} ELSE {})
        /\ Becomes(c, [work[c] EXCEPT !.at = "write", !.answer = there])
  BY <1>3, <1>4
<1>6. /\ confirmed \subseteq confirmed' /\ refused \subseteq refused'
      /\ key \in IF there THEN confirmed' ELSE refused'
  BY <1>5 DEF Refused
<1> DEFINE w == [work[c] EXCEPT !.at = "write", !.answer = there]
<1>7. work' = [work EXCEPT ![c] = w]
  BY <1>5 DEF Becomes
<1>8. /\ w \in Steps /\ w.at = "write" /\ w.answer = there /\ w.phase = work[c].phase /\ w.what = work[c].what
      /\ w.image = work[c].image /\ w.said = work[c].said /\ w.offered = work[c].offered /\ w.entry = work[c].entry
  BY <1>2 DEF Steps, Known, Checking
<1> HIDE DEF w
<1>9. SoundWork(owner, confirmed', refused', Listed, work[c])
  BY <1>2, <1>6, SoundWorkGrows
<1>10. SoundWork(owner, confirmed', refused', Listed, w)
  BY <1>2, <1>6, <1>8, <1>9 DEF SoundWork, Checking, WithEntry, WithAnswer, Repo
<1> QED
  BY <1>1, <1>2, <1>6, <1>7, <1>8, <1>10, QuietMove

LEMMA BeginWriteStep ==
  ASSUME IInv, NEW c \in Checkers, BeginWrite(c)
  PROVE  IInv'
<1> DEFINE w == [work[c] EXCEPT !.at = "writing"]
<1>1. PICK owner \in [DOMAIN checked -> Repositories] : Owns(owner)
  BY OwnerIsThere
<1>2. /\ work[c] \in Steps /\ work[c].at = "write"
      /\ UNCHANGED <<hub, exists, tagsCache, checked, confirmed, refused>>
      /\ SoundWork(owner, confirmed, refused, Listed, work[c])
  BY <1>1, WorkTyped DEF BeginWrite, At, Owns
<1>3. work' = [work EXCEPT ![c] = w]
  BY DEF BeginWrite, Goes, Becomes
<1>4. w \in Steps /\ w.at = "writing" /\ \A f \in {"image", "phase", "what", "entry", "answer", "said", "offered"} : w[f] = work[c][f]
  BY <1>2 DEF Steps, Checking
<1> HIDE DEF w
<1>5. SoundWork(owner, confirmed, refused, Listed, w)
  BY <1>2, <1>4 DEF SoundWork, Checking, WithEntry, WithAnswer
<1>6. /\ w \in Steps /\ UNCHANGED <<hub, exists, tagsCache, checked>>
      /\ confirmed \subseteq confirmed' /\ refused \subseteq refused'
      /\ SoundWork(owner, confirmed', refused', Listed, w)
  BY <1>2, <1>4, <1>5
<1> QED
  BY <1>1, <1>3, <1>6, QuietMove

(* The answer is written to a map of the repository it is about, though another   *)
(* goroutine may hold the same map or the cache another.                       *)
LEMMA EndWriteStep ==
  ASSUME IInv, NEW c \in Checkers, EndWrite(c)
  PROVE  IInv'
<1> DEFINE m == work[c].entry.map
           tag == work[c].what
           w == [work[c] EXCEPT !.at = "store"]
<1>1. PICK owner \in [DOMAIN checked -> Repositories] : Owns(owner)
  BY OwnerIsThere
<1>2. /\ work[c] \in Steps /\ work[c].at = "writing"
      /\ UNCHANGED <<hub, exists, tagsCache, confirmed, refused>>
      /\ checked' = [checked EXCEPT ![m][tag] = work[c].answer]
      /\ SoundWork(owner, confirmed, refused, Listed, work[c])
  BY <1>1, WorkTyped DEF EndWrite, At, Owns
<1>3. work[c].at \in WithEntry /\ work[c].at \in WithAnswer
  BY <1>2 DEF WithEntry, WithAnswer
<1>4. /\ m \in DOMAIN checked /\ owner[m] = Repo(c) /\ tag \in Tags /\ work[c].answer \in Known
      /\ <<Repo(c), tag>> \in IF work[c].answer THEN confirmed ELSE refused
  BY <1>1, <1>2, <1>3 DEF SoundWork, SoundEntry, Repo, Steps
<1>5. checked \in Seq([Tags -> Known])
  BY DEF IInv, CheckTypeOK
<1> HIDE DEF m, tag
<1>6. /\ checked' \in Seq([Tags -> Known]) /\ DOMAIN checked' = DOMAIN checked
      /\ \A k \in DOMAIN checked : k # m => checked'[k] = checked[k]
      /\ checked'[m] = [checked[m] EXCEPT ![tag] = work[c].answer]
      /\ checked[m] \in [Tags -> Known]
  <2> DEFINE answer == work[c].answer
             map == [checked[m] EXCEPT ![tag] = answer]
  <2>1. checked[m] \in [Tags -> Known]
    BY <1>4, <1>5
  <2>2. map \in [Tags -> Known]
    BY <1>4, <2>1
  <2>3. checked' = [checked EXCEPT ![m] = map]
    BY <1>2
  <2> HIDE DEF map
  <2>4. checked' \in Seq([Tags -> Known]) /\ DOMAIN checked' = DOMAIN checked
    BY <1>4, <1>5, <2>2, <2>3
  <2>5. checked'[m] = map /\ \A k \in DOMAIN checked : k # m => checked'[k] = checked[k]
    BY <1>4, <1>5, <2>3
  <2> QED
    BY <2>1, <2>4, <2>5 DEF map
<1>7. SoundMaps(owner, confirmed, refused, checked')
  <2> SUFFICES ASSUME NEW k \in DOMAIN owner, NEW t \in Tags
               PROVE  /\ checked'[k][t] = TRUE => <<owner[k], t>> \in confirmed
                      /\ checked'[k][t] = FALSE => <<owner[k], t>> \in refused
    BY DEF SoundMaps
  <2>1. /\ checked[k][t] = TRUE => <<owner[k], t>> \in confirmed
        /\ checked[k][t] = FALSE => <<owner[k], t>> \in refused
    BY <1>1 DEF Owns, SoundMaps
  <2>2. CASE k = m /\ t = tag
    <3>1. checked'[k][t] = work[c].answer
      BY <1>4, <1>6, <2>2
    <3> QED
      BY <1>4, <2>2, <3>1
  <2>3. CASE ~(k = m /\ t = tag)
    <3>1. checked'[k][t] = checked[k][t]
      BY <1>1, <1>6, <2>3
    <3> QED
      BY <2>1, <3>1
  <2> QED
    BY <2>2, <2>3
<1>8. work' = [work EXCEPT ![c] = w]
  BY DEF EndWrite, Goes, Becomes
<1>9. w \in Steps /\ w.at = "store" /\ \A f \in {"image", "phase", "what", "entry", "answer", "said", "offered"} : w[f] = work[c][f]
  BY <1>2 DEF Steps, Checking
<1> HIDE DEF w
<1>10. SoundWork(owner, confirmed, refused, Listed, w)
  BY <1>2, <1>9 DEF SoundWork, Checking, WithEntry, WithAnswer
<1>11. Listed' = Listed /\ confirmed' = confirmed /\ refused' = refused /\ hub' = hub
  BY <1>2 DEF Listed
<1>12. \A r \in Listed' : SoundEntry(owner, confirmed', r, tagsCache'[r])
  BY <1>1, <1>2, <1>11 DEF Owns
<1>13. /\ exists' \in [Images -> Known] /\ tagsCache' \in [Repositories -> Entries \union {None}]
       /\ FalseIsRefused'
  BY <1>2 DEF IInv, CheckTypeOK, FalseIsRefused
<1>14. owner \in [DOMAIN checked' -> Repositories]
  BY <1>1, <1>6
<1> QED
  BY <1>1, <1>6, <1>7, <1>8, <1>9, <1>10, <1>11, <1>12, <1>13, <1>14, OneMoves

(* The entry that is stored again is of the same repository as what it replaces.  *)
LEMMA StoreStep ==
  ASSUME IInv, NEW c \in Checkers, Store(c)
  PROVE  IInv'
<1>1. PICK owner \in [DOMAIN checked -> Repositories] : Owns(owner)
  BY OwnerIsThere
<1>2. /\ work[c] \in Steps /\ work[c].at = "store" /\ Repo(c) \in Repositories
      /\ UNCHANGED <<hub, exists, checked, confirmed, refused>>
      /\ tagsCache' = [tagsCache EXCEPT ![Repo(c)] = work[c].entry]
      /\ TagIs(c, work[c].answer)
      /\ SoundWork(owner, confirmed, refused, Listed, work[c])
  BY <1>1, WorkTyped DEF Store, At, Owns, SoundWork, Repo
<1>3. work[c].at \in Checking /\ work[c].at \in WithEntry /\ work[c].at \in WithAnswer
  BY <1>2 DEF Checking, WithEntry, WithAnswer
<1>4. /\ work[c].entry \in Entries /\ work[c].entry # None /\ work[c].phase # "actions"
      /\ SoundEntry(owner, confirmed, Repo(c), work[c].entry)
      /\ <<Repo(c), work[c].what>> \in IF work[c].answer THEN confirmed ELSE refused
  BY <1>2, <1>3 DEF SoundWork, Repo, Steps
<1>5. tagsCache \in [Repositories -> Entries \union {None}]
  BY DEF IInv, CheckTypeOK
<1>6. /\ tagsCache' \in [Repositories -> Entries \union {None}]
      /\ Listed \subseteq Listed'
      /\ \A r \in Listed' : r # Repo(c) => r \in Listed /\ tagsCache'[r] = tagsCache[r]
      /\ tagsCache'[Repo(c)] = work[c].entry
  BY <1>2, <1>4, <1>5 DEF Listed
<1>7. \A r \in Listed' : SoundEntry(owner, confirmed', r, tagsCache'[r])
  BY <1>1, <1>2, <1>4, <1>6 DEF Owns
<1>8. SoundWork(owner, confirmed', refused', Listed', work[c])
  BY <1>1, <1>2, <1>6, SoundWorkGrows
<1>9. PICK w \in Steps : work' = [work EXCEPT ![c] = w] /\ SoundWork(owner, confirmed', refused', Listed', w)
  <2>1. work[c].answer \in BOOLEAN
    BY <1>2, <1>3 DEF SoundWork, Steps, Known
  <2>2. <<Repo(c), work[c].what>> \in IF work[c].answer THEN confirmed' ELSE refused'
    BY <1>2, <1>4, <2>1
  <2>3. /\ work[c] \in Steps /\ work[c].at \in Checking /\ work[c].phase # "actions"
        /\ TagIs(c, work[c].answer)
    BY <1>2, <1>3, <1>4
  <2> DEFINE there == work[c].answer
             yes == confirmed'
             no == refused'
             listed == Listed'
  <2>4. SoundWork(owner, yes, no, listed, work[c]) /\ there \in BOOLEAN /\ TagIs(c, there)
    BY <1>8, <2>1, <2>3
  <2>5. <<Repo(c), work[c].what>> \in IF there THEN yes ELSE no
    BY <2>2
  <2> HIDE DEF there, yes, no, listed
  <2>6. \E w \in Steps : work' = [work EXCEPT ![c] = w] /\ SoundWork(owner, yes, no, listed, w)
    BY <2>3, <2>4, <2>5, TagIsSound
  <2> QED
    BY <2>6 DEF yes, no, listed
<1>10. /\ exists' \in [Images -> Known] /\ checked' \in Seq([Tags -> Known])
       /\ FalseIsRefused' /\ SoundMaps(owner, confirmed', refused', checked')
  BY <1>1, <1>2 DEF IInv, CheckTypeOK, FalseIsRefused, Owns, SoundMaps
<1>11. owner \in [DOMAIN checked' -> Repositories] /\ hub' = hub /\ confirmed \subseteq confirmed' /\ refused \subseteq refused'
  BY <1>1, <1>2
<1> QED
  BY <1>1, <1>6, <1>7, <1>9, <1>10, <1>11, OneMoves

LEMMA HubChangesStep ==
  ASSUME IInv, NEW r \in Repositories, NEW t \in Tags, HubChanges(r, t)
  PROVE  IInv'
<1> DEFINE tags == IF r \in DOMAIN hub THEN hub[r] ELSE {}
<1>1. tags \subseteq Tags
  BY DEF IInv, CheckTypeOK
<1>2. hub' = [s \in DOMAIN hub \union {r} |->
                IF s # r THEN hub[s] ELSE IF t \in tags THEN tags \ {t} ELSE tags \union {t}]
  BY DEF HubChanges
<1>3. \A s \in DOMAIN hub' : hub'[s] \subseteq Tags
  <2> HIDE DEF tags
  <2> QED
    BY <1>1, <1>2 DEF IInv, CheckTypeOK
<1>4. UNCHANGED <<exists, tagsCache, checked, work, confirmed, refused>>
  BY DEF HubChanges
<1>5. CheckTypeOK' /\ FalseIsRefused'
  BY <1>3, <1>4 DEF IInv, CheckTypeOK, FalseIsRefused
<1>6. PICK owner \in [DOMAIN checked -> Repositories] : Owns(owner)
  BY OwnerIsThere
<1>7. Owns(owner)'
  BY <1>4, <1>6 DEF Owns, Listed, SoundMaps
<1> QED
  BY <1>4, <1>5, <1>6, <1>7 DEF IInv

LEMMA NothingMoves ==
  ASSUME IInv, UNCHANGED <<hub, exists, tagsCache, checked, work, confirmed, refused>>
  PROVE  IInv'
<1>1. PICK owner \in [DOMAIN checked -> Repositories] : Owns(owner)
  BY OwnerIsThere
<1>2. Owns(owner)'
  BY <1>1 DEF Owns, Listed, SoundMaps
<1>3. CheckTypeOK' /\ FalseIsRefused'
  BY DEF IInv, CheckTypeOK, FalseIsRefused
<1> QED
  BY <1>1, <1>2, <1>3 DEF IInv

LEMMA InitIInv == Init => IInv
<1> SUFFICES ASSUME Init PROVE IInv
  OBVIOUS
<1>1. /\ hub \in Hubs /\ exists = [i \in Images |-> None] /\ tagsCache = [r \in Repositories |-> None]
      /\ checked = <<>> /\ work = [c \in Checkers |-> Idle] /\ confirmed = {} /\ refused = {}
  BY DEF Init, CheckInit
<1>2. /\ Idle \in Steps /\ Idle.at = "idle" /\ Idle.said = None /\ Idle.offered = {}
  BY DEF Idle, Steps, Known
<1>3. \A r \in DOMAIN hub : hub[r] \subseteq Tags
  BY <1>1, HubsAssumption DEF HubsAssumption
<1>4. CheckTypeOK /\ FalseIsRefused
  <2>1. checked \in Seq([Tags -> Known])
    BY <1>1
  <2>2. /\ exists \in [Images -> Known] /\ tagsCache \in [Repositories -> Entries \union {None}]
        /\ work \in [Checkers -> Steps]
    BY <1>1, <1>2 DEF Known
  <2>3. FalseIsRefused
    BY <1>1, NoneAssumption DEF FalseIsRefused
  <2> QED
    BY <1>3, <2>1, <2>2, <2>3 DEF CheckTypeOK
<1>5. Listed = {}
  BY <1>1 DEF Listed
<1>6. SoundWork(<<>>, confirmed, refused, Listed, Idle)
  BY <1>2, NoneAssumption DEF SoundWork, Checking, WithEntry, WithAnswer
<1>7. DOMAIN checked = {} /\ <<>> \in [{} -> Repositories] /\ DOMAIN <<>> = {}
  BY <1>1
<1>8. Owns(<<>>)
  BY <1>1, <1>5, <1>6, <1>7 DEF Owns, SoundMaps
<1> QED
  BY <1>4, <1>7, <1>8 DEF IInv

LEMMA NextIInv == IInv /\ [Next]_vars => IInv'
<1> SUFFICES ASSUME IInv, [Next]_vars PROVE IInv'
  OBVIOUS
<1>1. CASE UNCHANGED vars
  BY <1>1, NothingMoves DEF vars, checkVars
<1>2. CASE UNCHANGED checkVars
  BY <1>2, NothingMoves DEF checkVars
<1>3. ASSUME NEW c \in Checkers, NEW img \in Images, Start(c, img) PROVE IInv'
  BY <1>3, StartStep
<1>4. ASSUME NEW c \in Checkers, CheckStep(c) PROVE IInv'
  <2>1. CASE ReadExists(c)
    BY <2>1, ReadExistsStep
  <2>2. CASE AskExists(c)
    BY <2>2, AskExistsStep
  <2>3. CASE ReadEntry(c)
    BY <2>3, ReadEntryStep
  <2>4. CASE List(c)
    BY <2>4, ListStep
  <2>5. CASE ListFails(c)
    BY <2>5, ListFailsStep
  <2>6. CASE Lookup(c)
    BY <2>6, LookupStep
  <2>7. CASE AskTag(c)
    BY <2>7, AskTagStep
  <2>8. CASE BeginWrite(c)
    BY <2>8, BeginWriteStep
  <2>9. CASE EndWrite(c)
    BY <2>9, EndWriteStep
  <2>10. CASE Store(c)
    BY <2>10, StoreStep
  <2> QED
    BY <1>4, <2>1, <2>2, <2>3, <2>4, <2>5, <2>6, <2>7, <2>8, <2>9, <2>10 DEF CheckStep
<1>5. ASSUME NEW r \in Repositories, NEW t \in Tags, HubChanges(r, t) PROVE IInv'
  BY <1>5, HubChangesStep
<1>6. \/ UNCHANGED vars \/ UNCHANGED checkVars
      \/ \E c \in Checkers : CheckStep(c) \/ \E img \in Images : Start(c, img)
      \/ \E r \in Repositories, t \in Tags : HubChanges(r, t)
  BY DEF Next
<1> QED
  BY <1>1, <1>2, <1>3, <1>4, <1>5, <1>6

LEMMA Invariance == Spec => []IInv
<1>1. Init => IInv
  BY InitIInv
<1>2. IInv /\ [Next]_vars => IInv'
  BY NextIInv
<1> QED
  BY <1>1, <1>2, PTL DEF Spec
-----------------------------------------------------------------------------
(* Whatever the goroutines of several documents do to the shared caches at the   *)
(* same time, validateDockerExecutor calls an image or a tag missing only if the *)
(* hub has said so or a request failed.                                      *)
THEOREM MissingRefused == Spec => []MissingIsRefused
<1>1. IInv => MissingIsRefused
  <2> SUFFICES ASSUME IInv, NEW c \in Checkers
               PROVE  /\ work[c].said = "not found" => <<work[c].image.repo>> \in refused
                      /\ work[c].said = "no tag" => <<work[c].image.repo, Wanted(work[c].image)>> \in refused
    BY DEF MissingIsRefused
  <2>1. PICK owner \in [DOMAIN checked -> Repositories] : Owns(owner)
    BY OwnerIsThere
  <2> QED
    BY <2>1 DEF Owns, SoundWork
<1> QED
  BY <1>1, Invariance, PTL

(* GetImageTagActions offers tags the hub has said are there, although it reads    *)
(* the entry after another goroutine may have exchanged it.                     *)
THEOREM OffersConfirmed == Spec => []OffersAreConfirmed
<1>1. IInv => OffersAreConfirmed
  <2> SUFFICES ASSUME IInv, NEW c \in Checkers, NEW t \in work[c].offered
               PROVE  <<work[c].image.repo, t>> \in confirmed
    BY DEF OffersAreConfirmed, Repo
  <2>1. PICK owner \in [DOMAIN checked -> Repositories] : Owns(owner)
    BY OwnerIsThere
  <2> QED
    BY <2>1 DEF Owns, SoundWork
<1> QED
  BY <1>1, Invariance, PTL
-----------------------------------------------------------------------------
(* The cursors.  What is loaded is the beginning of the hub's list, and a page   *)
(* continues it.                                                           *)
LEMMA BeginningProperties ==
  ASSUME NEW S, NEW list \in Seq(S), NEW n \in 0..Len(list)
  PROVE  /\ Beginning(list, n) \in Seq(S) /\ Len(Beginning(list, n)) = n
         /\ \A i \in 1..n : Beginning(list, n)[i] = list[i]
<1>1. \A i \in 1..n : list[i] \in S
  OBVIOUS
<1> QED
  BY <1>1, SubSeqProperties DEF Beginning

LEMMA WholeBeginning ==
  ASSUME NEW S, NEW list \in Seq(S)
  PROVE  Beginning(list, Len(list)) = list
BY SubSeqFull DEF Beginning

LEMMA PageContinues ==
  ASSUME NEW S, NEW list \in Seq(S), NEW k \in Nat \ {0}, (k - 1) * PageSize <= Len(list)
  PROVE  Beginning(list, (k - 1) * PageSize) \o Page(list, k)
           = Beginning(list, IF k * PageSize < Len(list) THEN k * PageSize ELSE Len(list))
<1> DEFINE a == (k - 1) * PageSize
           b == IF k * PageSize < Len(list) THEN k * PageSize ELSE Len(list)
<1>1. a \in Nat /\ k * PageSize \in Nat /\ k * PageSize = a + PageSize /\ PageSize \in Nat /\ Len(list) \in Nat
  BY PagesAssumption DEF PagesAssumption
<1>2. a \in 0..Len(list) /\ b \in a..Len(list)
  BY <1>1
<1>3. Page(list, k) = SubSeq(list, a + 1, b)
  BY DEF Page
<1> HIDE DEF a, b
<1>4. 1 \in 1..Len(list) + 1 /\ a \in 1 - 1..Len(list)
  BY <1>1, <1>2
<1>5. SubSeq(list, 1, a) \o SubSeq(list, a + 1, b) = SubSeq(list, 1, b)
  BY <1>2, <1>4, ConcatAdjacentSubSeq
<1> QED
  BY <1>3, <1>5 DEF a, b, Beginning

(* loadNext keeps what is loaded a beginning of the list.                      *)
LEMMA PageLoads ==
  ASSUME NEW S, NEW list \in Seq(S), NEW loaded, NEW k \in Nat \ {0}, NEW isCut \in BOOLEAN, NEW isCutNow \in BOOLEAN,
         LoadedUpTo(list, loaded, k, isCut)
  PROVE  /\ LoadedUpTo(list, loaded \o Page(list, k), NextPage(list, k), isCutNow)
         /\ NextPage(list, k) \in Nat
         /\ Len(loaded) <= Len(loaded \o Page(list, k))
<1> DEFINE a == (k - 1) * PageSize
           b == IF k * PageSize < Len(list) THEN k * PageSize ELSE Len(list)
<1>1. /\ a \in Nat /\ k * PageSize \in Nat /\ k * PageSize = a + PageSize /\ PageSize \in Nat /\ Len(list) \in Nat
      /\ ((k + 1) - 1) * PageSize = k * PageSize
  BY PagesAssumption DEF PagesAssumption
<1>2. a <= Len(list) /\ loaded = Beginning(list, a)
  BY DEF LoadedUpTo
<1>3. loaded \o Page(list, k) = Beginning(list, b)
  BY <1>2, PageContinues
<1>4. a \in 0..Len(list) /\ b \in 0..Len(list) /\ a <= b
  BY <1>1, <1>2
<1>5. Len(loaded) = a /\ Len(loaded \o Page(list, k)) = b
  <2> HIDE DEF a, b
  <2> QED
    BY <1>2, <1>3, <1>4, BeginningProperties
<1>6. NextPage(list, k) \in Nat
  BY DEF NextPage
<1>7. CASE k * PageSize < Len(list)
  <2>1. b = ((k + 1) - 1) * PageSize /\ NextPage(list, k) = k + 1 /\ k + 1 # 0
    BY <1>1, <1>7 DEF NextPage
  <2> HIDE DEF a, b
  <2> QED
    BY <1>3, <1>4, <1>5, <1>6, <2>1 DEF LoadedUpTo
<1>8. CASE ~(k * PageSize < Len(list))
  <2>1. b = Len(list) /\ NextPage(list, k) = 0
    BY <1>8 DEF NextPage
  <2> HIDE DEF a, b
  <2>2. loaded \o Page(list, k) = list
    BY <1>3, <2>1, WholeBeginning
  <2> QED
    BY <1>3, <1>4, <1>5, <1>6, <2>1, <2>2 DEF LoadedUpTo
<1> QED
  BY <1>7, <1>8

LEMMA LoadedProperties ==
  ASSUME NEW S, NEW list \in Seq(S), NEW loaded, NEW next, NEW isCut, LoadedUpTo(list, loaded, next, isCut)
  PROVE  /\ loaded \in Seq(S) /\ Len(loaded) \in 0..Len(list) /\ DOMAIN loaded = 1..Len(loaded)
         /\ \A i \in DOMAIN loaded : loaded[i] = list[i]
<1>1. PICK n \in 0..Len(list) : loaded = Beginning(list, n)
  BY DEF LoadedUpTo
<1>2. loaded \in Seq(S) /\ Len(loaded) = n /\ \A i \in 1..n : loaded[i] = list[i]
  BY <1>1, BeginningProperties
<1> QED
  BY <1>2
-----------------------------------------------------------------------------
(* What a cursor looks for: finitely much, and one more when the next is found.  *)
LEMMA ListingIsASequence ==
  Listing \in Seq({Listing[i] : i \in DOMAIN Listing})
BY ListsAssumption DEF Listing, ListsAssumption

LEMMA SoughtIsFinite ==
  /\ IsFiniteSet(Sought) /\ Sought \subseteq 1..Len(Listing) /\ Cardinality(Sought) \in Nat
  /\ \A i : IsFiniteSet(SoughtUpTo(i)) /\ Cardinality(SoughtUpTo(i)) \in Nat
<1>1. Sought \subseteq 1..Len(Listing) /\ Len(Listing) \in Nat
  BY ListingIsASequence DEF Sought
<1>2. IsFiniteSet(1..Len(Listing))
  BY <1>1, FS_Interval
<1>3. IsFiniteSet(Sought)
  BY <1>1, <1>2, FS_Subset
<1>4. \A i : SoughtUpTo(i) \subseteq Sought
  BY DEF SoughtUpTo
<1>5. \A i : IsFiniteSet(SoughtUpTo(i))
  BY <1>3, <1>4, FS_Subset
<1> QED
  BY <1>1, <1>3, <1>5, FS_CardinalityType

LEMMA PositionsAreNatural == \A m \in Sought : m \in Nat /\ m > 0
BY ListingIsASequence DEF Sought

LEMMA OneMoreSought ==
  ASSUME NEW i \in Nat, NEW j \in Sought, i < j, \A m \in Sought : ~(i < m /\ m < j)
  PROVE  Cardinality(SoughtUpTo(j)) = Cardinality(SoughtUpTo(i)) + 1
<1>1. ~(j <= i) /\ \A m \in Sought : m <= j <=> m <= i \/ m = j
  BY PositionsAreNatural
<1>2. SoughtUpTo(j) = SoughtUpTo(i) \union {j} /\ j \notin SoughtUpTo(i)
  BY <1>1 DEF SoughtUpTo
<1> QED
  BY <1>2, SoughtIsFinite, FS_AddElement

LEMMA LeastNatural ==
  ASSUME NEW T, T \subseteq Nat, T # {}
  PROVE  \E i \in T : \A j \in T : i <= j
<1> DEFINE R == OpToRel(<, Nat)
<1>1. IsWellFoundedOn(R, Nat)
  BY NatLessThanWellFounded
<1>2. \A i, j \in T : j < i => <<j, i>> \in R
  BY DEF OpToRel
<1>3. ASSUME NEW i \in T, NEW j \in T PROVE i <= j \/ j < i
  <2>1. i \in Nat /\ j \in Nat
    OBVIOUS
  <2> QED
    BY <2>1
<1> HIDE DEF R
<1>4. \E i \in T : \A j \in T : <<j, i>> \notin R
  BY <1>1, WFMin
<1> QED
  BY <1>2, <1>3, <1>4

(* findFirstMatch finds the first one beyond the index.                        *)
LEMMA FirstMatchIsNext ==
  ASSUME SearchInv, cursor.kind = "repositories", Matches # {}
  PROVE  /\ FirstMatch \in DOMAIN repositories /\ FirstMatch > cursor.index
         /\ repositories[FirstMatch] \in cursor.query
         /\ \A i \in Matches : FirstMatch <= i
<1>1. DOMAIN repositories \subseteq Nat
  BY ListsAssumption, LoadedProperties DEF ListsAssumption, SearchInv, RepositoriesLoaded
<1>2. Matches \subseteq Nat
  BY <1>1 DEF Matches
<1>3. \E i \in Matches : \A j \in Matches : i <= j
  BY <1>2, LeastNatural
<1>4. FirstMatch \in Matches /\ \A i \in Matches : FirstMatch <= i
  BY <1>3 DEF FirstMatch
<1> QED
  BY <1>4 DEF Matches
-----------------------------------------------------------------------------
(* What a step leaves alone stays as it is.                                   *)
LEMMA SameCursorSeeksTheSame ==
  ASSUME cursor'.kind = cursor.kind, cursor.kind # "tags" => cursor'.query = cursor.query
  PROVE  Listing' = Listing /\ Sought' = Sought /\ Most' = Most /\ \A i : SoughtUpTo(i)' = SoughtUpTo(i)
<1>1. Listing' = Listing /\ Most' = Most
  BY DEF Listing, Most
<1>2. Sought' = Sought
  <2>1. CASE cursor.kind = "tags"
    BY <1>1, <2>1 DEF Sought
  <2>2. CASE cursor.kind # "tags"
    BY <1>1, <2>2 DEF Sought
  <2> QED
    BY <2>1, <2>2
<1> QED
  BY <1>1, <1>2 DEF SoughtUpTo

LEMMA LoadedIsABeginning ==
  ASSUME SearchInv, cursor # NoCursor
  PROVE  /\ Len(Loaded) \in 0..Len(Listing) /\ DOMAIN Loaded = 1..Len(Loaded)
         /\ \A i \in DOMAIN Loaded : Loaded[i] = Listing[i]
<1>1. CASE cursor.kind = "tags"
  <2>1. LoadedUpTo(HubTags, cursor.results, cursor.next, "tags" \in cut)
    BY <1>1 DEF SearchInv, TagsAreLoaded
  <2> QED
    BY <1>1, <2>1, ListsAssumption, LoadedProperties DEF ListsAssumption, Loaded, Listing
<1>2. CASE cursor.kind # "tags"
  <2>1. LoadedUpTo(Hub, repositories, IF hasLoaded THEN nextPage ELSE 1, "repositories" \in cut)
    BY DEF SearchInv, RepositoriesLoaded
  <2> QED
    BY <1>2, <2>1, ListsAssumption, LoadedProperties DEF ListsAssumption, Loaded, Listing
<1> QED
  BY <1>1, <1>2

LEMMA ProposedStays ==
  ASSUME SearchInv, cursor # NoCursor, proposed' = proposed,
         cursor'.kind = cursor.kind, cursor.kind # "tags" => cursor'.query = cursor.query,
         cursor'.index = cursor.index, Len(Loaded') \in Nat, Len(Loaded) <= Len(Loaded')
  PROVE  ProposedUpToIndex'
<1>1. Listing' = Listing /\ Sought' = Sought /\ Most' = Most /\ \A i : SoughtUpTo(i)' = SoughtUpTo(i)
  BY SameCursorSeeksTheSame
<1>2. Len(Loaded) \in Nat
  BY LoadedIsABeginning, ListingIsASequence
<1>3. /\ cursor.index \in 0..Len(Loaded)
      /\ proposed \in Seq({Listing[i] : i \in DOMAIN Listing})
      /\ Len(proposed) = Cardinality(SoughtUpTo(cursor.index)) /\ Len(proposed) <= Most
      /\ \A n \in DOMAIN proposed :
           \E i \in Sought : proposed[n] = Listing[i] /\ Cardinality(SoughtUpTo(i)) = n
  BY DEF SearchInv, ProposedUpToIndex
<1>4. cursor.index \in 0..Len(Loaded')
  BY <1>2, <1>3
<1> QED
  BY <1>1, <1>3, <1>4 DEF ProposedUpToIndex

(* The cursor goes on to the next of what it looks for, which is proposed.      *)
LEMMA NextIsProposed ==
  ASSUME SearchInv, cursor # NoCursor, NEW j \in Sought, j \in DOMAIN Loaded,
         cursor.index < j, \A m \in Sought : ~(cursor.index < m /\ m < j),
         Len(proposed) < Most, proposed' = Append(proposed, Listing[j]),
         cursor'.kind = cursor.kind, cursor.kind # "tags" => cursor'.query = cursor.query,
         cursor'.index = j, Loaded' = Loaded
  PROVE  ProposedUpToIndex'
<1> DEFINE S == {Listing[i] : i \in DOMAIN Listing}
<1>1. Listing' = Listing /\ Sought' = Sought /\ Most' = Most /\ \A i : SoughtUpTo(i)' = SoughtUpTo(i)
  BY SameCursorSeeksTheSame
<1>2. Len(Loaded) \in Nat /\ DOMAIN Loaded = 1..Len(Loaded)
  BY LoadedIsABeginning, ListingIsASequence
<1>3. /\ cursor.index \in 0..Len(Loaded)
      /\ proposed \in Seq(S)
      /\ Len(proposed) = Cardinality(SoughtUpTo(cursor.index)) /\ Len(proposed) <= Most
      /\ \A n \in DOMAIN proposed :
           \E i \in Sought : proposed[n] = Listing[i] /\ Cardinality(SoughtUpTo(i)) = n
  BY DEF SearchInv, ProposedUpToIndex
<1>4. cursor.index \in Nat /\ j \in 0..Len(Loaded)
  BY <1>2, <1>3
<1>5. Cardinality(SoughtUpTo(j)) = Len(proposed) + 1
  BY <1>3, <1>4, OneMoreSought
<1>6. Listing[j] \in S
  BY DEF Sought
<1>7. Len(proposed) + 1 <= Most /\ Len(proposed) \in Nat
  <2>1. Len(proposed) \in Nat /\ Most \in Nat
    BY <1>3, PagesAssumption DEF PagesAssumption, Most
  <2> QED
    BY <2>1
<1> HIDE DEF S
<1>8. /\ proposed' \in Seq(S) /\ Len(proposed') = Len(proposed) + 1
      /\ proposed'[Len(proposed) + 1] = Listing[j]
      /\ \A n \in 1..Len(proposed) : proposed'[n] = proposed[n]
  BY <1>3, <1>6, AppendProperties
<1>9. ASSUME NEW n \in DOMAIN proposed'
      PROVE  \E i \in Sought : proposed'[n] = Listing[i] /\ Cardinality(SoughtUpTo(i)) = n
  <2>1. n \in 1..Len(proposed) + 1
    BY <1>8
  <2>2. CASE n = Len(proposed) + 1
    BY <1>5, <1>8, <2>2
  <2>3. CASE n # Len(proposed) + 1
    <3>1. n \in DOMAIN proposed /\ n \in 1..Len(proposed)
      BY <1>3, <1>7, <2>1, <2>3
    <3> QED
      BY <1>3, <1>8, <3>1
  <2> QED
    BY <2>2, <2>3
<1> QED
  BY <1>1, <1>4, <1>5, <1>7, <1>8, <1>9 DEF ProposedUpToIndex, S

LEMMA RepositoriesStay ==
  ASSUME SearchInv, UNCHANGED <<repositories, nextPage, hasLoaded>>,
         "repositories" \in cut' <=> "repositories" \in cut, loading' = "repositories" => MoreToLoad
  PROVE  RepositoriesLoaded'
BY DEF SearchInv, RepositoriesLoaded, LoadedUpTo, MoreToLoad

LEMMA TagsStay ==
  ASSUME SearchInv, cursor'.kind = cursor.kind,
         cursor.kind = "tags" => cursor'.results = cursor.results /\ cursor'.next = cursor.next,
         "tags" \in cut' <=> "tags" \in cut, loading' = "tags" => cursor.next # 0
  PROVE  TagsAreLoaded'
BY DEF SearchInv, TagsAreLoaded, LoadedUpTo

(* A completion ends.                                                      *)
LEMMA EndsKeeps ==
  ASSUME SearchInv, Ends, UNCHANGED <<repositories, nextPage, hasLoaded>>,
         "repositories" \in cut' <=> "repositories" \in cut
  PROVE  SearchInv'
<1>1. RepositoriesLoaded'
  BY RepositoriesStay DEF Ends
<1> QED
  BY <1>1 DEF Ends, NoCursor, SearchInv, CursorTyped, TagsAreLoaded, ProposedUpToIndex
-----------------------------------------------------------------------------
(* One lemma per step of a completion.                                        *)
LEMMA InitSearchInv == Init => SearchInv
<1> SUFFICES ASSUME NEW k \in {0, Len(Hub)}, SearchInit(k) PROVE SearchInv
  BY DEF Init
<1>1. Len(Hub) \in Nat /\ Hub \in Seq({Hub[i] : i \in DOMAIN Hub})
  BY ListsAssumption DEF ListsAssumption
<1> DEFINE n == IF k * PageSize < Len(Hub) THEN k * PageSize ELSE Len(Hub)
<1>2. n = k
  <2>1. CASE k = 0
    <3>1. k * PageSize = 0
      BY <2>1, PagesAssumption DEF PagesAssumption
    <3> QED
      BY <1>1, <2>1, <3>1
  <2>2. CASE k = Len(Hub)
    <3>1. k * PageSize \in Nat /\ k <= k * PageSize
      BY <1>1, <2>2, PagesAssumption DEF PagesAssumption
    <3> QED
      BY <1>1, <2>2, <3>1
  <2> QED
    BY <2>1, <2>2
<1>3. Beginning(Hub, Len(Hub)) = Hub
  BY <1>1, WholeBeginning
<1>4. repositories = Beginning(Hub, k)
  <2>1. repositories = Beginning(Hub, n)
    BY DEF SearchInit, Beginning
  <2> QED
    BY <1>2, <2>1
<1>5. nextPage = 0 /\ (hasLoaded <=> k > 0) /\ hasLoaded \in BOOLEAN
  <2>1. k # 0 => NextPage(Hub, k) = 0
    <3>1. k # 0 => ~(k * PageSize < Len(Hub))
      <4>1. k # 0 => k = Len(Hub) /\ k \in Nat /\ PageSize \in Nat \ {0}
        BY <1>1, PagesAssumption DEF PagesAssumption
      <4>2. k # 0 => k * PageSize \in Nat /\ k <= k * PageSize
        BY <4>1
      <4> QED
        BY <4>1, <4>2
    <3> QED
      BY <3>1 DEF NextPage
  <2>2. nextPage = 0
    BY <2>1 DEF SearchInit
  <2>3. hasLoaded = (k > 0)
    BY DEF SearchInit
  <2>4. (k > 0) \in BOOLEAN
    OBVIOUS
  <2> QED
    BY <2>2, <2>3, <2>4
<1>6. CASE k = 0
  <2>1. repositories = Beginning(Hub, 0) /\ nextPage = 0 /\ ~hasLoaded /\ hasLoaded \in BOOLEAN
    BY <1>1, <1>4, <1>5, <1>6
  <2>2. LoadedUpTo(Hub, repositories, 1, "repositories" \in cut)
    BY <1>1, <2>1, PagesAssumption DEF LoadedUpTo, PagesAssumption
  <2> QED
    BY <2>1, <2>2 DEF SearchInit, SearchInv, CursorTyped, RepositoriesLoaded, TagsAreLoaded, ProposedUpToIndex, NoCursor
<1>7. CASE k # 0
  <2>1. repositories = Hub /\ nextPage = 0 /\ hasLoaded /\ hasLoaded \in BOOLEAN
    BY <1>1, <1>3, <1>4, <1>5, <1>7
  <2>2. LoadedUpTo(Hub, repositories, 0, "repositories" \in cut)
    BY <1>1, <1>3, <2>1 DEF LoadedUpTo
  <2> QED
    BY <2>1, <2>2 DEF SearchInit, SearchInv, CursorTyped, RepositoriesLoaded, TagsAreLoaded, ProposedUpToIndex, NoCursor
<1> QED
  BY <1>6, <1>7

(* A new cursor has looked at nothing, and proposed nothing.                   *)
LEMMA NothingProposedYet ==
  ASSUME proposed' = <<>>, cursor'.index = 0, Len(Loaded') \in Nat
  PROVE  ProposedUpToIndex'
<1>1. Cardinality(SoughtUpTo(0))' = 0
  <2>1. Listing' \in Seq({Listing[i] : i \in DOMAIN Listing})'
    BY ListsAssumption DEF ListsAssumption, Listing
  <2>2. \A m \in Sought' : ~(m <= 0)
    BY <2>1 DEF Sought
  <2>3. SoughtUpTo(0)' = {}
    BY <2>2 DEF SoughtUpTo
  <2> QED
    BY <2>3, FS_EmptySet
<1>2. Most' \in Nat
  BY PagesAssumption DEF PagesAssumption, Most
<1> QED
  BY <1>1, <1>2 DEF ProposedUpToIndex

LEMMA SearchStarts ==
  ASSUME SearchInv, NEW q, Search(q)
  PROVE  SearchInv'
<1>1. /\ cursor' = SearchCursor(q) /\ cursor'.kind = "repositories" /\ cursor'.index = 0
      /\ proposed' = <<>> /\ loading = "no"
      /\ UNCHANGED <<repositories, nextPage, hasLoaded, loading, cut>>
  BY DEF Search, SearchCursor, SearchInv, CursorTyped, NoCursor
<1>2. CursorTyped'
  BY <1>1 DEF CursorTyped, SearchCursor
<1>3. RepositoriesLoaded'
  BY <1>1, RepositoriesStay
<1>4. TagsAreLoaded'
  BY <1>1 DEF TagsAreLoaded
<1>5. Len(repositories) \in Nat /\ Loaded' = repositories
  BY <1>1, ListsAssumption, LoadedProperties DEF ListsAssumption, Loaded, SearchInv, RepositoriesLoaded
<1>6. ProposedUpToIndex'
  BY <1>1, <1>5, NothingProposedYet
<1> QED
  BY <1>2, <1>3, <1>4, <1>6 DEF SearchInv

LEMMA TakeNextStep ==
  ASSUME SearchInv, TakeNext
  PROVE  SearchInv'
<1>1. /\ cursor.kind = "repositories" /\ cursor # NoCursor /\ Matches # {} /\ Len(proposed) < Most
      /\ proposed' = Append(proposed, repositories[FirstMatch])
      /\ cursor' = [cursor EXCEPT !.index = FirstMatch]
      /\ UNCHANGED <<repositories, nextPage, hasLoaded, loading, cut>>
  BY DEF TakeNext, Searching, Most, NoCursor
<1>2. DOMAIN cursor = {"kind", "query", "index"} /\ loading \in {"no", "repositories"}
  BY <1>1 DEF SearchInv, CursorTyped, NoCursor
<1>3. /\ cursor'.kind = cursor.kind /\ cursor'.query = cursor.query /\ cursor'.index = FirstMatch
      /\ DOMAIN cursor' = DOMAIN cursor
  BY <1>1, <1>2
<1>4. /\ FirstMatch \in DOMAIN repositories /\ FirstMatch > cursor.index
      /\ repositories[FirstMatch] \in cursor.query
      /\ \A i \in Matches : FirstMatch <= i
  BY <1>1, FirstMatchIsNext
<1>5. /\ Loaded = repositories /\ Loaded' = repositories /\ Listing = Hub
      /\ Len(Loaded) \in 0..Len(Listing) /\ DOMAIN Loaded = 1..Len(Loaded)
      /\ \A i \in DOMAIN Loaded : Loaded[i] = Listing[i]
      /\ Len(Listing) \in Nat /\ DOMAIN Listing = 1..Len(Listing)
  BY <1>1, <1>3, LoadedIsABeginning, ListingIsASequence DEF Loaded, Listing
<1>6. FirstMatch \in Sought /\ repositories[FirstMatch] = Listing[FirstMatch] /\ FirstMatch \in 1..Len(Loaded)
  BY <1>1, <1>4, <1>5 DEF Sought
<1>7. ASSUME NEW m \in Sought, cursor.index < m, m < FirstMatch PROVE FALSE
  <2>1. m \in Nat /\ m > 0
    BY PositionsAreNatural
  <2>2. m \in DOMAIN repositories /\ repositories[m] \in cursor.query
    BY <1>1, <1>5, <1>6, <1>7, <2>1 DEF Sought
  <2>3. m \in Matches
    BY <1>7, <2>1, <2>2, <1>1 DEF SearchInv, ProposedUpToIndex, Matches
  <2> QED
    BY <1>4, <1>6, <1>7, <2>1, <2>3
<1>8. cursor.index < FirstMatch
  <2>1. cursor.index \in Nat /\ FirstMatch \in Nat
    BY <1>1, <1>5, <1>6 DEF SearchInv, ProposedUpToIndex
  <2> QED
    BY <1>4, <2>1
<1> HIDE DEF FirstMatch
<1>9. ProposedUpToIndex'
  BY <1>1, <1>3, <1>4, <1>5, <1>6, <1>7, <1>8, NextIsProposed
<1>10. CursorTyped' /\ TagsAreLoaded'
  BY <1>1, <1>2, <1>3 DEF CursorTyped, TagsAreLoaded
<1>11. RepositoriesLoaded'
  BY <1>1, RepositoriesStay DEF SearchInv, RepositoriesLoaded
<1> QED
  BY <1>9, <1>10, <1>11 DEF SearchInv

LEMMA LoadingBegins ==
  ASSUME SearchInv, HasNextLoads \/ TagsHasNextLoads
  PROVE  SearchInv'
<1>1. /\ UNCHANGED <<repositories, nextPage, hasLoaded, cursor, proposed, cut>> /\ cursor # NoCursor
      /\ \/ cursor.kind = "repositories" /\ loading' = "repositories" /\ MoreToLoad
         \/ cursor.kind = "tags" /\ loading' = "tags" /\ cursor.next # 0
  BY DEF HasNextLoads, TagsHasNextLoads, Searching, ReadingTags, NoCursor
<1>2. CursorTyped'
  BY <1>1 DEF SearchInv, CursorTyped, NoCursor
<1>3. RepositoriesLoaded'
  BY <1>1, RepositoriesStay
<1>4. TagsAreLoaded'
  BY <1>1, TagsStay
<1>5. Loaded' = Loaded /\ Len(Loaded) \in Nat
  BY <1>1, LoadedIsABeginning, ListingIsASequence DEF Loaded
<1>6. ProposedUpToIndex'
  BY <1>1, <1>5, ProposedStays
<1> QED
  BY <1>2, <1>3, <1>4, <1>6 DEF SearchInv

LEMMA LoadNextStep ==
  ASSUME SearchInv, LoadNext
  PROVE  SearchInv'
<1> DEFINE k == IF hasLoaded THEN nextPage ELSE 1
<1>1. /\ loading = "repositories" /\ repositories' = repositories \o Page(Hub, k)
      /\ nextPage' = NextPage(Hub, k) /\ hasLoaded' = TRUE
      /\ loading' = IF nextPage' = 0 THEN "no" ELSE loading
      /\ UNCHANGED <<cursor, proposed, cut>>
  BY DEF LoadNext
<1>2. cursor # NoCursor /\ cursor.kind = "repositories"
  BY <1>1 DEF SearchInv, CursorTyped, NoCursor
<1>3. k \in Nat \ {0} /\ LoadedUpTo(Hub, repositories, k, "repositories" \in cut)
  BY <1>1 DEF SearchInv, RepositoriesLoaded, MoreToLoad
<1> HIDE DEF k
<1>4. Hub \in Seq({Hub[i] : i \in DOMAIN Hub})
  BY ListsAssumption DEF ListsAssumption
<1>5. /\ LoadedUpTo(Hub, repositories \o Page(Hub, k), NextPage(Hub, k), "repositories" \in cut)
      /\ NextPage(Hub, k) \in Nat
      /\ Len(repositories) <= Len(repositories \o Page(Hub, k))
  <2>1. ("repositories" \in cut) \in BOOLEAN
    OBVIOUS
  <2> QED
    BY <1>3, <1>4, <2>1, PageLoads
<1>6. RepositoriesLoaded'
  BY <1>1, <1>5 DEF RepositoriesLoaded, MoreToLoad
<1>7. Len(repositories') \in Nat
  BY <1>1, <1>4, <1>5, LoadedProperties
<1>8. Loaded = repositories /\ Loaded' = repositories'
  BY <1>1, <1>2 DEF Loaded
<1>9. ProposedUpToIndex'
  BY <1>1, <1>2, <1>5, <1>7, <1>8, ProposedStays
<1>10. CursorTyped' /\ TagsAreLoaded'
  BY <1>1, <1>2 DEF SearchInv, CursorTyped, TagsAreLoaded, NoCursor
<1> QED
  BY <1>6, <1>9, <1>10 DEF SearchInv

LEMMA LoadNextErrorStep ==
  ASSUME SearchInv, LoadNextError
  PROVE  SearchInv'
<1>1. /\ loading = "repositories" /\ UNCHANGED <<repositories, cursor, proposed>>
      /\ nextPage' = 0 /\ hasLoaded' = TRUE /\ loading' = "no" /\ cut' = cut \union {"repositories"}
  BY DEF LoadNextError
<1>2. cursor # NoCursor /\ cursor.kind = "repositories"
  BY <1>1 DEF SearchInv, CursorTyped, NoCursor
<1>3. RepositoriesLoaded'
  BY <1>1 DEF SearchInv, RepositoriesLoaded, LoadedUpTo
<1>4. Loaded' = Loaded /\ Len(Loaded) \in Nat
  BY <1>1, <1>2, LoadedIsABeginning, ListingIsASequence DEF Loaded
<1>5. ProposedUpToIndex'
  BY <1>1, <1>2, <1>4, ProposedStays
<1>6. CursorTyped' /\ TagsAreLoaded'
  BY <1>1, <1>2 DEF SearchInv, CursorTyped, TagsAreLoaded, NoCursor
<1> QED
  BY <1>3, <1>5, <1>6 DEF SearchInv

LEMMA SearchTagsStep ==
  ASSUME SearchInv, SearchTags
  PROVE  SearchInv'
<1>1. /\ cursor' = TagsSearchCursor /\ cursor'.kind = "tags" /\ cursor'.index = 0 /\ cursor'.results = <<>>
      /\ cursor'.next = 1 /\ loading' = "tags" /\ proposed' = <<>> /\ cut' = cut \ {"tags"}
      /\ UNCHANGED <<repositories, nextPage, hasLoaded>>
  BY DEF SearchTags, TagsSearchCursor
<1>2. CursorTyped'
  BY <1>1 DEF CursorTyped, TagsSearchCursor
<1>3. RepositoriesLoaded'
  BY <1>1, RepositoriesStay
<1>4. HubTags \in Seq({HubTags[i] : i \in DOMAIN HubTags})
  BY ListsAssumption DEF ListsAssumption
<1>5. Len(HubTags) \in Nat /\ Beginning(HubTags, 0) = <<>> /\ (1 - 1) * PageSize = 0
  BY <1>4, PagesAssumption DEF Beginning, PagesAssumption
<1>6. TagsAreLoaded'
  BY <1>1, <1>5 DEF TagsAreLoaded, LoadedUpTo
<1>7. Len(Loaded') \in Nat
  BY <1>1 DEF Loaded
<1>8. ProposedUpToIndex'
  BY <1>1, <1>7, NothingProposedYet
<1> QED
  BY <1>2, <1>3, <1>6, <1>8 DEF SearchInv

(* A page of tags comes in, or an error reply.                                 *)
LEMMA TagsPageStep ==
  ASSUME SearchInv, TagsLoaded \/ TagsError
  PROVE  SearchInv'
<1>1. /\ loading = "tags" /\ loading' = "no" /\ proposed' = proposed
      /\ UNCHANGED <<repositories, nextPage, hasLoaded>>
      /\ "repositories" \in cut' <=> "repositories" \in cut
  BY DEF TagsLoaded, TagsError
<1>2. cursor # NoCursor /\ cursor.kind = "tags" /\ DOMAIN cursor = {"kind", "results", "next", "index"}
  BY <1>1 DEF SearchInv, CursorTyped, NoCursor
<1>3. cursor.next \in Nat \ {0} /\ LoadedUpTo(HubTags, cursor.results, cursor.next, "tags" \in cut)
  BY <1>1, <1>2 DEF SearchInv, TagsAreLoaded
<1>4. HubTags \in Seq({HubTags[i] : i \in DOMAIN HubTags})
  BY ListsAssumption DEF ListsAssumption
<1>5. Len(cursor.results) \in Nat
  BY <1>3, <1>4, LoadedProperties
<1> DEFINE grown == cursor.results \o Page(HubTags, cursor.next)
<1>6. /\ cursor'.kind = "tags" /\ cursor'.index = cursor.index /\ DOMAIN cursor' = DOMAIN cursor
      /\ \/ TagsLoaded /\ cursor'.results = grown /\ cursor'.next = NextPage(HubTags, cursor.next)
         \/ TagsError /\ cursor'.results = cursor.results /\ cursor'.next = 0
  BY <1>2 DEF TagsLoaded, TagsError
<1>7. /\ LoadedUpTo(HubTags, cursor'.results, cursor'.next, "tags" \in cut')
      /\ cursor'.next \in Nat
      /\ Len(cursor'.results) \in Nat /\ Len(cursor.results) <= Len(cursor'.results)
  <2>1. CASE TagsLoaded
    <3>1. ("tags" \in cut) \in BOOLEAN /\ ("tags" \in cut') \in BOOLEAN
      OBVIOUS
    <3>2. /\ LoadedUpTo(HubTags, grown, NextPage(HubTags, cursor.next), "tags" \in cut')
          /\ NextPage(HubTags, cursor.next) \in Nat /\ Len(cursor.results) <= Len(grown)
      BY <1>3, <1>4, <3>1, PageLoads
    <3>3. cursor'.results = grown /\ cursor'.next = NextPage(HubTags, cursor.next)
      BY <1>2, <2>1 DEF TagsLoaded
    <3> HIDE DEF grown
    <3>4. Len(grown) \in Nat
      BY <1>4, <3>2, LoadedProperties
    <3> QED
      BY <3>2, <3>3, <3>4
  <2>2. CASE TagsError
    <3>1. cursor'.results = cursor.results /\ cursor'.next = 0 /\ "tags" \in cut'
      BY <1>2, <2>2 DEF TagsError
    <3>2. Len(cursor.results) <= Len(cursor.results)
      BY <1>5
    <3> QED
      BY <1>3, <1>5, <3>1, <3>2 DEF LoadedUpTo
  <2> QED
    BY <2>1, <2>2
<1> HIDE DEF grown
<1>8. Loaded = cursor.results /\ Loaded' = cursor'.results
  BY <1>2, <1>6 DEF Loaded
<1>9. ProposedUpToIndex'
  BY <1>1, <1>2, <1>6, <1>7, <1>8, ProposedStays
<1>10. CursorTyped' /\ TagsAreLoaded'
  BY <1>1, <1>2, <1>6, <1>7 DEF CursorTyped, TagsAreLoaded
<1>11. RepositoriesLoaded'
  BY <1>1, RepositoriesStay
<1> QED
  BY <1>9, <1>10, <1>11 DEF SearchInv

LEMMA TagsNextStep ==
  ASSUME SearchInv, TagsNext
  PROVE  SearchInv'
<1> DEFINE j == cursor.index + 1
<1>1. /\ cursor.kind = "tags" /\ cursor # NoCursor /\ loading = "no" /\ Len(proposed) < Most
      /\ cursor.index < Len(cursor.results) /\ proposed' = Append(proposed, cursor.results[j])
      /\ cursor' = [cursor EXCEPT !.index = j]
      /\ UNCHANGED <<repositories, nextPage, hasLoaded, loading, cut>>
  BY DEF TagsNext, ReadingTags, Most, NoCursor
<1>2. DOMAIN cursor = {"kind", "results", "next", "index"}
  BY <1>1 DEF SearchInv, CursorTyped, NoCursor
<1>3. /\ cursor'.kind = cursor.kind /\ cursor'.results = cursor.results /\ cursor'.next = cursor.next
      /\ cursor'.index = j /\ DOMAIN cursor' = DOMAIN cursor
  BY <1>1, <1>2
<1>4. /\ Loaded = cursor.results /\ Loaded' = cursor.results /\ Listing = HubTags
      /\ Len(Loaded) \in 0..Len(Listing) /\ DOMAIN Loaded = 1..Len(Loaded)
      /\ \A i \in DOMAIN Loaded : Loaded[i] = Listing[i]
      /\ Len(Listing) \in Nat /\ DOMAIN Listing = 1..Len(Listing)
  BY <1>1, <1>3, LoadedIsABeginning, ListingIsASequence DEF Loaded, Listing
<1>5. cursor.index \in Nat
  BY <1>1, <1>4 DEF SearchInv, ProposedUpToIndex
<1>6. j \in DOMAIN Loaded /\ j \in DOMAIN Listing /\ cursor.index < j
  BY <1>1, <1>4, <1>5
<1>7. j \in Sought /\ cursor.results[j] = Listing[j]
  BY <1>1, <1>4, <1>6 DEF Sought
<1>8. \A m \in Sought : ~(cursor.index < m /\ m < j)
  BY <1>5, PositionsAreNatural
<1> HIDE DEF j
<1>9. ProposedUpToIndex'
  BY <1>1, <1>3, <1>4, <1>6, <1>7, <1>8, NextIsProposed
<1>10. CursorTyped'
  BY <1>1, <1>2, <1>3 DEF CursorTyped
<1>11. RepositoriesLoaded' /\ TagsAreLoaded'
  BY <1>1, <1>3, RepositoriesStay, TagsStay
<1> QED
  BY <1>9, <1>10, <1>11 DEF SearchInv

LEMMA NothingIsRead ==
  ASSUME SearchInv, UNCHANGED <<repositories, nextPage, hasLoaded, cursor, loading, proposed, cut>>
  PROVE  SearchInv'
<1>1. Listing' = Listing /\ Sought' = Sought /\ Most' = Most /\ \A i : SoughtUpTo(i)' = SoughtUpTo(i)
  BY SameCursorSeeksTheSame
<1>2. ProposedUpToIndex'
  BY <1>1 DEF SearchInv, ProposedUpToIndex, Loaded
<1> QED
  BY <1>2 DEF SearchInv, CursorTyped, RepositoriesLoaded, TagsAreLoaded, MoreToLoad

LEMMA NextSearchInv == SearchInv /\ [Next]_vars => SearchInv'
<1> SUFFICES ASSUME SearchInv, [Next]_vars PROVE SearchInv'
  OBVIOUS
<1>1. CASE UNCHANGED searchVars
  BY <1>1, NothingIsRead DEF searchVars
<1>2. CASE SearchStep
  <2>1. CASE TakeNext
    BY <2>1, TakeNextStep
  <2>2. CASE HasNextLoads \/ TagsHasNextLoads
    BY <2>2, LoadingBegins
  <2>3. CASE SearchDone \/ TagsDone \/ TagsFail
    BY <2>3, EndsKeeps DEF SearchDone, TagsDone, TagsFail
  <2>4. CASE LoadNext
    BY <2>4, LoadNextStep
  <2>5. CASE LoadNextError
    BY <2>5, LoadNextErrorStep
  <2>6. CASE LoadNextFails
    BY <2>6, NothingIsRead DEF LoadNextFails
  <2>7. CASE TagsLoaded \/ TagsError
    BY <2>7, TagsPageStep
  <2>8. CASE TagsNext
    BY <2>8, TagsNextStep
  <2> QED
    BY <1>2, <2>1, <2>2, <2>3, <2>4, <2>5, <2>6, <2>7, <2>8 DEF SearchStep
<1>3. CASE SearchTags
  BY <1>3, SearchTagsStep
<1>4. ASSUME NEW q \in Queries, Search(q) PROVE SearchInv'
  BY <1>4, SearchStarts
<1>5. UNCHANGED searchVars \/ SearchStep \/ SearchTags \/ \E q \in Queries : Search(q)
  BY DEF Next, vars
<1> QED
  BY <1>1, <1>2, <1>3, <1>4, <1>5
-----------------------------------------------------------------------------
(* Completion proposes the first of what the hub lists and the query matches, in   *)
(* the hub's order, however the pages come in, whatever earlier completions have  *)
(* loaded and wherever a request failed: HasNext neither skips nor repeats one at  *)
(* the edge of a page, and a completion that ends has proposed them all, or as     *)
(* many as it may, unless an error reply has cut the list.                       *)
THEOREM ProposalsFollowTheHub == Spec => []ProposalsAreTheHubs
<1>1. SearchInv => ProposalsAreTheHubs
  <2> SUFFICES ASSUME SearchInv, cursor # NoCursor
               PROVE  /\ \A n \in DOMAIN proposed :
                           \E i \in Sought : proposed[n] = Listing[i] /\ Cardinality(SoughtUpTo(i)) = n
                      /\ Len(proposed) <= Most
                      /\ SearchIsOver \/ TagsAreOver =>
                           cursor.kind \in cut \/ Len(proposed) \in {Most, Cardinality(Sought)}
    BY DEF ProposalsAreTheHubs
  <2>1. ProposedUpToIndex /\ cursor.kind \in {"repositories", "tags"}
    BY DEF SearchInv, CursorTyped
  <2>2. Len(Loaded) \in Nat /\ DOMAIN Loaded = 1..Len(Loaded)
    BY LoadedIsABeginning, ListingIsASequence
  <2>3. cursor.index \in Nat /\ cursor.index <= Len(Loaded) /\ Len(proposed) = Cardinality(SoughtUpTo(cursor.index))
    BY <2>1, <2>2 DEF ProposedUpToIndex
  <2>4. ASSUME SearchIsOver, Len(proposed) # Most, "repositories" \notin cut
        PROVE  Len(proposed) = Cardinality(Sought) /\ cursor.kind = "repositories"
    <3>1. cursor.kind = "repositories" /\ Matches = {} /\ hasLoaded /\ nextPage = 0
      BY <2>4 DEF SearchIsOver, Searching, Most, MoreToLoad, SearchInv, RepositoriesLoaded
    <3>2. repositories = Hub
      BY <2>4, <3>1 DEF SearchInv, RepositoriesLoaded, LoadedUpTo
    <3>3. ASSUME NEW m \in Sought PROVE m <= cursor.index
      <4>1. m \in Nat /\ m \in DOMAIN repositories /\ repositories[m] \in cursor.query
        BY <3>1, <3>2, PositionsAreNatural DEF Sought, Listing
      <4> QED
        BY <2>3, <3>1, <4>1 DEF Matches
    <3>4. SoughtUpTo(cursor.index) = Sought
      BY <3>3 DEF SoughtUpTo
    <3> QED
      BY <2>3, <3>1, <3>4
  <2>5. ASSUME TagsAreOver, Len(proposed) # Most, "tags" \notin cut
        PROVE  Len(proposed) = Cardinality(Sought) /\ cursor.kind = "tags"
    <3>1. /\ cursor.kind = "tags" /\ ~(OneTagLeft /\ cursor.next # 0)
          /\ cursor.index >= Len(cursor.results) /\ Loaded = cursor.results
      BY <2>5 DEF TagsAreOver, ReadingTags, Most, Loaded
    <3>2. OneTagLeft
      BY <2>2, <2>3, <3>1 DEF OneTagLeft
    <3>3. cursor.results = HubTags
      BY <2>5, <3>1, <3>2 DEF SearchInv, TagsAreLoaded, LoadedUpTo
    <3>4. ASSUME NEW m \in Sought PROVE m <= cursor.index
      <4>1. m \in 1..Len(Loaded)
        BY <2>2, <3>1, <3>3 DEF Sought, Listing
      <4> QED
        BY <2>2, <2>3, <3>1, <4>1
    <3>5. SoughtUpTo(cursor.index) = Sought
      BY <3>4 DEF SoughtUpTo
    <3> QED
      BY <2>3, <3>1, <3>5
  <2>6. SearchIsOver => cursor.kind = "repositories"
    BY DEF SearchIsOver, Searching
  <2>7. TagsAreOver => cursor.kind = "tags"
    BY DEF TagsAreOver, ReadingTags
  <2> QED
    BY <2>1, <2>4, <2>5, <2>6, <2>7 DEF ProposedUpToIndex
<1>2. Init => SearchInv
  BY InitSearchInv
<1>3. SearchInv /\ [Next]_vars => SearchInv'
  BY NextSearchInv
<1> QED
  BY <1>1, <1>2, <1>3, PTL DEF Spec
=============================================================================
