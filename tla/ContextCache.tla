---------------------------- MODULE ContextCache ----------------------------
(***************************************************************************)
(* The contexts of one organization as the server caches them              *)
(* (ContextCache in pkg/utils/cache.go, pkg/utils/context.go), filled by   *)
(* the goroutines that run getAllEnvVariables                              *)
(* (pkg/server/methods/envVariables.go) and emptied by setToken and        *)
(* setSelfHostedUrl (executeCommand.go).                                   *)
(*                                                                         *)
(* A name is a pair <<namespace, short>>: <<"org", "ctx">> is "org/ctx" and *)
(* <<Bare, "ctx">> is "ctx".  Goroutines interleave at the cache's mutex:  *)
(* one action for each request and for each context stored.                *)
(***************************************************************************)
EXTENDS Naturals

CONSTANTS
  Namespaces, Bare,  \* the part of a name before its last "/"; Bare is none
  Shorts,            \* the part after it
  Hosts, InitHost,   \* the (host, token) pairs the user may set
  Remote,            \* [Hosts -> SUBSET Names]: what each lists
  NoContext,         \* nil
  Workers,           \* goroutines that refresh the cache
  MaxRefreshes,      \* bound: refreshes started
  MaxSwitches        \* bound: changes of token or host

Names       == (Namespaces \union {Bare}) \X Shorts
Qualified   == Namespaces \X Shorts
BareName(s) == <<Bare, s>>
Contexts    == [name : Names, host : Hosts]

ASSUME NameAssumption == Bare \notin Namespaces /\ NoContext \notin Contexts
ASSUME HostAssumption == InitHost \in Hosts /\ Remote \in [Hosts -> SUBSET Names]
ASSUME BoundAssumption == MaxRefreshes \in Nat /\ MaxSwitches \in Nat

VARIABLES
  orgMap,     \* contextCache[org]: name -> context, or NoContext
  ambiguous,  \* ambiguousShortNames[org]
  loaded,     \* listLoadedOrgs[org]
  host,       \* LsContext.Api
  switching,  \* {} or {h}: the handler has cleared the cache, h is yet to be set
  pc, listed, page, missing, last, source, \* the workers: names received in
              \* this pass, of which still to store, the one just found not to be
              \* cached, whether there is no next page, the page's host
  refreshes, switches, \* counters for the bounds
  crossed,    \* history: workers whose refresh began before the last clear
  promised,   \* history: names listed by the refreshes that marked the list
              \* loaded, none of which crossed a clear
  tainted     \* history: a refresh that crossed a clear marked it loaded

cacheVars   == <<orgMap, ambiguous, loaded>>
hostVars    == <<host, switching, switches>>
passVars    == <<listed, page, missing, last, source>>
historyVars == <<crossed, promised, tainted>>
vars == <<cacheVars, hostVars, pc, passVars, refreshes, historyVars>>

PCs == {"idle", "list", "store", "listVars", "storeVars", "addVars"}

Init ==
  /\ orgMap = [n \in Names |-> NoContext] /\ ambiguous = {} /\ loaded = FALSE
  /\ host = InitHost /\ switching = {} /\ switches = 0
  /\ pc = [w \in Workers |-> "idle"]
  /\ listed = [w \in Workers |-> {}] /\ page = [w \in Workers |-> {}]
  /\ missing = [w \in Workers |-> {}]
  /\ last = [w \in Workers |-> FALSE] /\ source = [w \in Workers |-> InitHost]
  /\ refreshes = 0 /\ crossed = {} /\ promised = {} /\ tainted = FALSE
-----------------------------------------------------------------------------
IgnoreAmbiguity(s) == FALSE              \* mutation: the mark is not looked at
IsAmbiguous(s) == s \in ambiguous
MarkedShort(n) == ambiguous \union {n[2]}

(* SetOrganizationContext.  Both callers allocate the context they store, so *)
(* an entry found under the short name is always another pointer.            *)
SetOrganizationContext(n, h) ==
  LET s      == n[2]
      ctx    == [name |-> n, host |-> h]
      stored == [orgMap EXCEPT ![n] = ctx]
  IN IF n[1] = Bare \/ IsAmbiguous(s)
       THEN orgMap' = stored /\ UNCHANGED ambiguous
       ELSE IF orgMap[BareName(s)] # NoContext
         THEN /\ orgMap' = [stored EXCEPT ![BareName(s)] = NoContext]
              /\ ambiguous' = MarkedShort(n)
         ELSE /\ orgMap' = [stored EXCEPT ![BareName(s)] = ctx]
              /\ UNCHANGED ambiguous

(* A goroutine of notificationMethods reaches GetAllContext. *)
StartRefresh(w) ==
  /\ pc[w] = "idle" /\ refreshes < MaxRefreshes
  /\ refreshes' = refreshes + 1
  /\ pc' = [pc EXCEPT ![w] = "list"]
  /\ listed' = [listed EXCEPT ![w] = {}]
  /\ crossed' = crossed \ {w}
  /\ UNCHANGED <<cacheVars, hostVars, page, missing, last, source, promised, tainted>>

(* getContext: one page of the list, from the host the settings name by now. *)
RequestPage(w) ==
  /\ pc[w] \in {"list", "listVars"}
  /\ \E p \in SUBSET (Remote[host] \ listed[w]) :
       LET all == Remote[host] \subseteq (listed[w] \union p) IN
       /\ p # {} \/ all
       /\ page' = [page EXCEPT ![w] = p]
       /\ listed' = [listed EXCEPT ![w] = @ \union p]
       /\ last' = [last EXCEPT ![w] = all]
  /\ source' = [source EXCEPT ![w] = host]
  /\ pc' = [pc EXCEPT ![w] = IF @ = "list" THEN "store" ELSE "storeVars"]
  /\ UNCHANGED <<cacheVars, hostVars, missing, refreshes, historyVars>>

(* An error ends the refresh; what earlier pages stored stays. *)
RequestFails(w) ==
  /\ pc[w] \in {"list", "listVars"}
  /\ pc' = [pc EXCEPT ![w] = "idle"]
  /\ UNCHANGED <<cacheVars, hostVars, passVars, refreshes, historyVars>>

(* GetAllContext stores every context ...                                    *)
StoreContext(w) ==
  /\ pc[w] = "store"
  /\ \E n \in page[w] :
       /\ page' = [page EXCEPT ![w] = @ \ {n}]
       /\ SetOrganizationContext(n, source[w])
  /\ UNCHANGED <<loaded, hostVars, pc, listed, missing, last, source, refreshes, historyVars>>

(* ... GetAllContextWithEnvVars updates the variables of those that are      *)
(* cached in place, and stores the others, which by then may be cached.      *)
FindContext(w) ==
  /\ pc[w] = "storeVars"
  /\ \E n \in page[w] :
       /\ page' = [page EXCEPT ![w] = @ \ {n}]
       /\ IF orgMap[n] # NoContext THEN UNCHANGED <<pc, missing>>
          ELSE /\ pc' = [pc EXCEPT ![w] = "addVars"]
               /\ missing' = [missing EXCEPT ![w] = {n}]
  /\ UNCHANGED <<cacheVars, hostVars, listed, last, source, refreshes, historyVars>>

AddContext(w) ==
  /\ pc[w] = "addVars"
  /\ \E n \in missing[w] : SetOrganizationContext(n, source[w])
  /\ pc' = [pc EXCEPT ![w] = "storeVars"]
  /\ missing' = [missing EXCEPT ![w] = {}]
  /\ UNCHANGED <<loaded, hostVars, listed, page, last, source, refreshes, historyVars>>

NextPage(w) ==
  /\ pc[w] \in {"store", "storeVars"} /\ page[w] = {} /\ ~last[w]
  /\ pc' = [pc EXCEPT ![w] = IF @ = "store" THEN "list" ELSE "listVars"]
  /\ UNCHANGED <<cacheVars, hostVars, passVars, refreshes, historyVars>>

AllReceived(w) == last[w]   \* mutation: does not wait for the last page's contexts
PassDone(w) == page[w] = {} /\ last[w]

(* MarkOrganizationContextListLoaded, after which the second pass begins. *)
MarkLoaded(w) ==
  /\ pc[w] = "store" /\ PassDone(w)
  /\ loaded' = TRUE
  /\ pc' = [pc EXCEPT ![w] = "listVars"]
  /\ listed' = [listed EXCEPT ![w] = {}]
  /\ IF w \in crossed
       THEN tainted' = TRUE /\ UNCHANGED promised
       ELSE promised' = promised \union listed[w] /\ UNCHANGED tainted
  /\ UNCHANGED <<orgMap, ambiguous, hostVars, page, missing, last, source, refreshes, crossed>>

EndRefresh(w) ==
  /\ pc[w] = "storeVars" /\ PassDone(w)
  /\ pc' = [pc EXCEPT ![w] = "idle"]
  /\ UNCHANGED <<cacheVars, hostVars, passVars, refreshes, historyVars>>

(* setToken, setSelfHostedUrl: clearContextCache if the setting differs ...  *)
ClearHostData(h) ==
  /\ switching = {} /\ switches < MaxSwitches /\ h # host
  /\ switches' = switches + 1
  /\ orgMap' = [n \in Names |-> NoContext] /\ ambiguous' = {} /\ loaded' = FALSE
  /\ switching' = {h}
  /\ crossed' = Workers /\ promised' = {} /\ tainted' = FALSE
  /\ UNCHANGED <<host, pc, passVars, refreshes>>

(* ... and only then the assignment.                                         *)
SwitchHost ==
  /\ switching # {}
  /\ host' \in switching /\ switching' = {}
  /\ UNCHANGED <<cacheVars, switches, pc, passVars, refreshes, historyVars>>

Next ==
  \/ \E w \in Workers :
       \/ StartRefresh(w) \/ RequestPage(w) \/ RequestFails(w) \/ NextPage(w)
       \/ StoreContext(w) \/ FindContext(w) \/ AddContext(w)
       \/ MarkLoaded(w) \/ EndRefresh(w)
  \/ \E h \in Hosts : ClearHostData(h)
  \/ SwitchHost

Spec == Init /\ [][Next]_vars
-----------------------------------------------------------------------------
(* ResolveWorkflowContext(org, slug, n): the exact name, the part after its  *)
(* "/", or the organization's slug in front of it.                           *)
Resolve(slug, n) ==
  IF orgMap[n] # NoContext THEN orgMap[n]
  ELSE IF n[1] # Bare THEN orgMap[BareName(n[2])]
  ELSE IF slug # Bare THEN orgMap[<<slug, n[2]>>]
  ELSE NoContext

(* Every variable keeps its type. *)
TypeOK ==
  /\ orgMap \in [Names -> Contexts \union {NoContext}]
  /\ ambiguous \subseteq Shorts /\ loaded \in BOOLEAN
  /\ host \in Hosts /\ switching \subseteq Hosts /\ switches \in Nat
  /\ pc \in [Workers -> PCs]
  /\ listed \in [Workers -> SUBSET Names] /\ page \in [Workers -> SUBSET Names]
  /\ missing \in [Workers -> SUBSET Names]
  /\ last \in [Workers -> BOOLEAN] /\ source \in [Workers -> Hosts]
  /\ refreshes \in Nat
  /\ crossed \subseteq Workers /\ promised \subseteq Names /\ tainted \in BOOLEAN

(* A short name never stands for one of several contexts, in whatever order  *)
(* goroutines store and re-store them: if it resolves without the slug to a  *)
(* qualified context, that is the only one cached with this short name       *)
(* (cache.go:325-343).                                                       *)
ShortNameUnambiguous ==
  \A s \in Shorts :
    LET c == Resolve(Bare, BareName(s)) IN
    c # NoContext /\ c.name # BareName(s) =>
      \A q \in Qualified : q[2] = s /\ orgMap[q] # NoContext => q = c.name

(* Once a list is marked loaded, the validator reports what does not resolve *)
(* as missing (job_invocation.go:254-266).  It never does so for a qualified *)
(* context that was listed, unless the refresh that marked the list loaded   *)
(* had begun before the cache was cleared.                                   *)
LoadedContextsResolve ==
  loaded /\ ~tainted =>
    \A n \in promised \intersect Qualified : \A slug \in Namespaces \union {Bare} :
      Resolve(slug, n) # NoContext /\ Resolve(slug, n).name = n

-----------------------------------------------------------------------------
(* What makes the two properties inductive. *)
KeysMatch ==
  /\ \A q \in Qualified : orgMap[q] # NoContext => orgMap[q].name = q
  /\ \A s \in Shorts : orgMap[BareName(s)] # NoContext =>
       LET c == orgMap[BareName(s)] IN
       /\ c.name[2] = s
       /\ c.name[1] # Bare =>
            s \notin ambiguous /\ orgMap[c.name] # NoContext

(* A short name that is not marked stands for each context that has it. *)
ShortIndexed ==
  \A q \in Qualified : orgMap[q] # NoContext /\ q[2] \notin ambiguous =>
    orgMap[BareName(q[2])] # NoContext

(* In its first pass a refresh that crossed no clear has stored what it      *)
(* listed, up to the page it is storing.                                     *)
PassStored ==
  \A w \in Workers \ crossed : pc[w] \in {"list", "store"} =>
    \A q \in (listed[w] \ page[w]) \intersect Qualified : orgMap[q] # NoContext

(* A page is dealt with before the next one is asked for. *)
PageEmpty ==
  \A w \in Workers : pc[w] \in {"idle", "list", "listVars"} => page[w] = {}

PromiseKept ==
  \A q \in promised \intersect Qualified : orgMap[q] # NoContext

(* The inductive invariant. *)
IInv ==
  /\ TypeOK /\ KeysMatch /\ ShortIndexed /\ ShortNameUnambiguous
  /\ PassStored /\ PageEmpty /\ PromiseKept
=============================================================================
