------------------------------ MODULE HubSearch ------------------------------
(***************************************************************************)
(* Completion of Docker images (pkg/services/complete/executors.go) and the  *)
(* cursors it reads Docker Hub with (pkg/dockerhub).  The repositories of a   *)
(* namespace are kept for the life of the process; the tags of an image are   *)
(* fetched for every completion.  One namespace, and one completion at a time  *)
(* as on one connection; the hub's lists do not change while they are read.    *)
(***************************************************************************)
EXTENDS Naturals, Sequences, FiniteSets

CONSTANTS
  Hub,           \* the names of the namespace's repositories, as the hub lists them
  HubTags,       \* the tags of an image, as the hub lists them
  PageSize,      \* of the hub's pages
  Queries,       \* a query is the set of the names that begin with it
  MaxImages,     \* repositories, and
  MaxTags        \* tags proposed at once

ASSUME ListsAssumption ==
  Hub \in Seq({Hub[i] : i \in DOMAIN Hub}) /\ HubTags \in Seq({HubTags[i] : i \in DOMAIN HubTags})
ASSUME PagesAssumption == PageSize \in Nat \ {0} /\ MaxImages \in Nat /\ MaxTags \in Nat

VARIABLES
  repositories,  \* HubNamespace.allRepositories
  nextPage,      \* its nextURL; 0 for none
  hasLoaded,
  cursor,        \* the cursor being read: what it looks for, among what, where it is
  loading,       \* "no", "repositories" or "tags": in HasNext's loadNext
  proposed,      \* the completion's items
  lastLoad,      \* how the last request ended
  cut            \* the hub has answered with an error: a list taken to end there

searchVars == <<repositories, nextPage, hasLoaded, cursor, loading, proposed, lastLoad, cut>>

Page(list, k) == SubSeq(list, (k - 1) * PageSize + 1, IF k * PageSize < Len(list) THEN k * PageSize ELSE Len(list))
NextPage(list, k) == IF k * PageSize < Len(list) THEN k + 1 ELSE 0

NoCursor == [kind |-> "none"]
SearchCursor(q) == [kind |-> "repositories", query |-> q, index |-> 0]
TagsSearchCursor == [kind |-> "tags", results |-> <<>>, next |-> 1, index |-> 0]

(* k pages of the namespace were loaded by earlier completions.                *)
SearchInit(k) ==
  /\ repositories = SubSeq(Hub, 1, IF k * PageSize < Len(Hub) THEN k * PageSize ELSE Len(Hub))
  /\ nextPage = (IF k = 0 THEN 0 ELSE NextPage(Hub, k)) /\ hasLoaded = (k > 0)
  /\ cursor = NoCursor /\ loading = "no" /\ proposed = <<>> /\ lastLoad = "none"
  /\ cut = {}

Ends == cursor' = NoCursor /\ loading' = "no"
-----------------------------------------------------------------------------
Search(q) ==
  /\ cursor = NoCursor
  /\ cursor' = SearchCursor(q) /\ proposed' = <<>>
  /\ UNCHANGED <<repositories, nextPage, hasLoaded, loading, lastLoad, cut>>

(* findFirstMatch, beyond the index.                                        *)
Matches == {i \in DOMAIN repositories : i > cursor.index /\ repositories[i] \in cursor.query}
FirstMatch == CHOOSE i \in Matches : \A j \in Matches : i <= j

Searching == cursor.kind = "repositories" /\ loading = "no"

\* mutation: one repository is skipped
TakeNextAfter ==
  /\ Searching /\ Len(proposed) < MaxImages /\ Matches # {}
  /\ proposed' = Append(proposed, repositories[FirstMatch])
  /\ cursor' = [cursor EXCEPT !.index = FirstMatch + 1]
  /\ UNCHANGED <<repositories, nextPage, hasLoaded, loading, lastLoad, cut>>
(* HasNext finds a match, and Next takes it.                                *)
TakeNext ==
  /\ Searching /\ Len(proposed) < MaxImages /\ Matches # {}
  /\ proposed' = Append(proposed, repositories[FirstMatch])
  /\ cursor' = [cursor EXCEPT !.index = FirstMatch]
  /\ UNCHANGED <<repositories, nextPage, hasLoaded, loading, lastLoad, cut>>

MoreToLoad == nextPage # 0 \/ ~hasLoaded

(* HasNext finds none: it loads every page there is.                         *)
HasNextLoads ==
  /\ Searching /\ Len(proposed) < MaxImages /\ Matches = {} /\ MoreToLoad
  /\ loading' = "repositories"
  /\ UNCHANGED <<repositories, nextPage, hasLoaded, cursor, proposed, lastLoad, cut>>

SearchIsOver == Searching /\ (Len(proposed) = MaxImages \/ (Matches = {} /\ ~MoreToLoad))
SearchDone ==
  /\ SearchIsOver
  /\ Ends
  /\ UNCHANGED <<repositories, nextPage, hasLoaded, proposed, lastLoad, cut>>

(* loadNext; HasNext's loop ends when there is nothing more to load.         *)
LoadNext ==
  LET k == IF hasLoaded THEN nextPage ELSE 1
  IN  /\ loading = "repositories"
      /\ repositories' = repositories \o Page(Hub, k)
      /\ nextPage' = NextPage(Hub, k) /\ hasLoaded' = TRUE
      /\ loading' = IF nextPage' = 0 THEN "no" ELSE loading
      /\ lastLoad' = "loaded"
      /\ UNCHANGED <<cursor, proposed, cut>>

\* mutation: an error reply is asked for again
LoadNextRetries ==
  /\ loading = "repositories"
  /\ lastLoad' = "error" /\ cut' = cut \union {"repositories"}
  /\ UNCHANGED <<repositories, nextPage, hasLoaded, cursor, loading, proposed>>
(* The body of an error reply has no results and no next page.               *)
LoadNextError ==
  /\ loading = "repositories"
  /\ nextPage' = 0 /\ hasLoaded' = TRUE /\ loading' = "no"
  /\ lastLoad' = "error" /\ cut' = cut \union {"repositories"}
  /\ UNCHANGED <<repositories, cursor, proposed>>

(* What loadNext returns is not looked at.                                  *)
LoadNextFails ==
  /\ loading = "repositories"
  /\ lastLoad' = "failed"
  /\ UNCHANGED <<repositories, nextPage, hasLoaded, cursor, loading, proposed, cut>>
-----------------------------------------------------------------------------
(* SearchTags fetches the first page; without it nothing is proposed.         *)
SearchTags ==
  /\ cursor = NoCursor
  /\ cursor' = TagsSearchCursor /\ loading' = "tags" /\ proposed' = <<>> /\ cut' = cut \ {"tags"}
  /\ UNCHANGED <<repositories, nextPage, hasLoaded, lastLoad>>

TagsLoaded ==
  /\ loading = "tags"
  /\ cursor' = [cursor EXCEPT !.results = @ \o Page(HubTags, cursor.next), !.next = NextPage(HubTags, @)]
  /\ loading' = "no" /\ lastLoad' = "loaded"
  /\ UNCHANGED <<repositories, nextPage, hasLoaded, proposed, cut>>

TagsError ==
  /\ loading = "tags"
  /\ cursor' = [cursor EXCEPT !.next = 0]
  /\ loading' = "no" /\ lastLoad' = "error" /\ cut' = cut \union {"tags"}
  /\ UNCHANGED <<repositories, nextPage, hasLoaded, proposed>>

(* The first page, or HasNext, fails: the tags proposed so far are the items.  *)
TagsFail ==
  /\ loading = "tags"
  /\ Ends
  /\ lastLoad' = "failed" /\ cut' = cut \union {"tags"}
  /\ UNCHANGED <<repositories, nextPage, hasLoaded, proposed>>

ReadingTags == cursor.kind = "tags" /\ loading = "no"
(* HasNext fetches the next page when one tag is left.                       *)
OneTagLeft == cursor.index + 1 >= Len(cursor.results)

TagsHasNextLoads ==
  /\ ReadingTags /\ Len(proposed) < MaxTags /\ OneTagLeft /\ cursor.next # 0
  /\ loading' = "tags"
  /\ UNCHANGED <<repositories, nextPage, hasLoaded, cursor, proposed, lastLoad, cut>>

TagsNext ==
  /\ ReadingTags /\ Len(proposed) < MaxTags /\ ~(OneTagLeft /\ cursor.next # 0)
  /\ cursor.index < Len(cursor.results)
  /\ proposed' = Append(proposed, cursor.results[cursor.index + 1])
  /\ cursor' = [cursor EXCEPT !.index = @ + 1]
  /\ UNCHANGED <<repositories, nextPage, hasLoaded, loading, lastLoad, cut>>

TagsAreOver ==
  /\ ReadingTags
  /\ \/ Len(proposed) = MaxTags
     \/ ~(OneTagLeft /\ cursor.next # 0) /\ cursor.index >= Len(cursor.results)
TagsDone ==
  /\ TagsAreOver
  /\ Ends
  /\ UNCHANGED <<repositories, nextPage, hasLoaded, proposed, lastLoad, cut>>
-----------------------------------------------------------------------------
(* What the cursor reads, where in it what it looks for is, and how much of it is  *)
(* proposed.                                                               *)
Listing == IF cursor.kind = "tags" THEN HubTags ELSE Hub
Sought == {i \in DOMAIN Listing : cursor.kind = "tags" \/ Listing[i] \in cursor.query}
SoughtUpTo(i) == {j \in Sought : j <= i}
Most == IF cursor.kind = "tags" THEN MaxTags ELSE MaxImages

(* Completion proposes what the hub lists, in its order: the first of those that   *)
(* match, whatever was loaded before, or fewer after an error reply.             *)
ProposalsAreTheHubs ==
  cursor # NoCursor =>
    /\ \A n \in DOMAIN proposed :
         \E i \in Sought : proposed[n] = Listing[i] /\ Cardinality(SoughtUpTo(i)) = n
    /\ Len(proposed) <= Most
    /\ SearchIsOver \/ TagsAreOver =>
         cursor.kind \in cut \/ Len(proposed) \in {Most, Cardinality(Sought)}

(* What makes it inductive: as many pages are loaded as were asked for, and what    *)
(* is proposed is what is sought up to the cursor's index.                       *)
Beginning(list, n) == SubSeq(list, 1, n)
LoadedUpTo(list, loaded, next, isCut) ==
  /\ \E n \in 0..Len(list) : loaded = Beginning(list, n)
  /\ next # 0 => (next - 1) * PageSize <= Len(list) /\ loaded = Beginning(list, (next - 1) * PageSize)
  /\ next = 0 => isCut \/ loaded = list

CursorTyped ==
  \/ cursor = NoCursor /\ loading = "no"
  \/ /\ cursor.kind = "repositories" /\ DOMAIN cursor = {"kind", "query", "index"}
     /\ loading \in {"no", "repositories"}
  \/ /\ cursor.kind = "tags" /\ DOMAIN cursor = {"kind", "results", "next", "index"}
     /\ loading \in {"no", "tags"}

RepositoriesLoaded ==
  /\ nextPage \in Nat /\ hasLoaded \in BOOLEAN
  /\ LoadedUpTo(Hub, repositories, IF hasLoaded THEN nextPage ELSE 1, "repositories" \in cut)
  /\ loading = "repositories" => MoreToLoad
TagsAreLoaded ==
  cursor.kind = "tags" =>
    /\ cursor.next \in Nat
    /\ LoadedUpTo(HubTags, cursor.results, cursor.next, "tags" \in cut)
    /\ loading = "tags" => cursor.next # 0
Loaded == IF cursor.kind = "tags" THEN cursor.results ELSE repositories
ProposedUpToIndex ==
  cursor # NoCursor =>
    /\ cursor.index \in 0..Len(Loaded)
    /\ proposed \in Seq({Listing[i] : i \in DOMAIN Listing})
    /\ Len(proposed) = Cardinality(SoughtUpTo(cursor.index)) /\ Len(proposed) <= Most
    /\ \A n \in DOMAIN proposed :
         \E i \in Sought : proposed[n] = Listing[i] /\ Cardinality(SoughtUpTo(i)) = n
SearchInv == CursorTyped /\ RepositoriesLoaded /\ TagsAreLoaded /\ ProposedUpToIndex
=============================================================================
