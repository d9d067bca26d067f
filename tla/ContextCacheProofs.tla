------------------------- MODULE ContextCacheProofs -------------------------
(***************************************************************************)
(* Proofs about ContextCache for every set of names, hosts and workers.    *)
(***************************************************************************)
EXTENDS ContextCache, TLAPS

(* What is cached, as far as the names are concerned. *)
Consistent == KeysMatch /\ ShortIndexed /\ ShortNameUnambiguous

(* Storing one context keeps the short names right, loses no qualified       *)
(* context, and caches the one it is given under its own name.               *)
LEMMA StoringIsSafe ==
  ASSUME TypeOK, Consistent, NEW n \in Names, NEW h \in Hosts,
         SetOrganizationContext(n, h)
  PROVE  /\ Consistent'
         /\ orgMap' \in [Names -> Contexts \union {NoContext}]
         /\ ambiguous' \subseteq Shorts
         /\ \A q \in Qualified : orgMap[q] # NoContext => orgMap'[q] # NoContext
         /\ n \in Qualified => orgMap'[n] # NoContext
PROOF
  <1> DEFINE s   == n[2]
             ctx == [name |-> n, host |-> h]
  <1>1. /\ ctx \in Contexts /\ ctx # NoContext /\ ctx.name = n
        /\ s \in Shorts /\ n = <<n[1], s>> /\ n[1] \in Namespaces \union {Bare}
    BY NameAssumption DEF Contexts, Names
  <1>2. /\ \A t \in Shorts : BareName(t) \in Names /\ BareName(t) \notin Qualified
        /\ \A q \in Qualified : q \in Names /\ q[1] # Bare /\ q[2] \in Shorts
        /\ \A t, u \in Shorts : BareName(t) = BareName(u) => t = u
    BY NameAssumption DEF BareName, Names, Qualified
  <1>3. \A c \in Contexts : \A t \in Shorts :
          c.name[2] = t /\ c.name # BareName(t) => c.name[1] # Bare /\ c.name \in Qualified
    BY DEF Contexts, Names, Qualified, BareName
  <1>4. \A c \in Contexts : c.name \in Names /\ c.name[2] \in Shorts
    BY DEF Contexts, Names
  <1>5. CASE n[1] = Bare
    <2>1. n = BareName(s) /\ n \notin Qualified
      BY <1>1, <1>2, <1>5 DEF BareName
    <2>2. orgMap' = [orgMap EXCEPT ![n] = ctx] /\ ambiguous' = ambiguous
      BY <1>5 DEF SetOrganizationContext, IsAmbiguous, MarkedShort
    <2>3. KeysMatch'
      BY <1>5, <2>1, <2>2, <1>1, <1>2, <1>3, <1>4 DEF TypeOK, Consistent, KeysMatch, ShortIndexed,
         ShortNameUnambiguous, Resolve, BareName
    <2>4. ShortIndexed'
      BY <1>5, <2>1, <2>2, <1>1, <1>2, <1>3, <1>4 DEF TypeOK, Consistent, KeysMatch, ShortIndexed,
         ShortNameUnambiguous, Resolve, BareName
    <2>5. ShortNameUnambiguous'
      BY <1>5, <2>1, <2>2, <1>1, <1>2, <1>3, <1>4 DEF TypeOK, Consistent, KeysMatch, ShortIndexed,
         ShortNameUnambiguous, Resolve, BareName
    <2>6. orgMap' \in [Names -> Contexts \union {NoContext}] /\ ambiguous' \subseteq Shorts
          /\ (\A q \in Qualified : orgMap[q] # NoContext => orgMap'[q] # NoContext)
          /\ (n \in Qualified => orgMap'[n] # NoContext)
      BY <1>5, <2>1, <2>2, <1>1, <1>2 DEF TypeOK
    <2> QED BY <2>3, <2>4, <2>5, <2>6 DEF Consistent
  <1>6. CASE n[1] # Bare /\ s \in ambiguous
    <2>1. n \in Qualified
      BY <1>1, <1>6 DEF Qualified
    <2>2. orgMap' = [orgMap EXCEPT ![n] = ctx] /\ ambiguous' = ambiguous
      BY <1>6 DEF SetOrganizationContext, IsAmbiguous, MarkedShort
    <2>3. KeysMatch'
      BY <1>6, <2>1, <2>2, <1>1, <1>2, <1>3, <1>4 DEF TypeOK, Consistent, KeysMatch, ShortIndexed,
         ShortNameUnambiguous, Resolve, BareName
    <2>4. ShortIndexed'
      BY <1>6, <2>1, <2>2, <1>1, <1>2, <1>3, <1>4 DEF TypeOK, Consistent, KeysMatch, ShortIndexed,
         ShortNameUnambiguous, Resolve, BareName
    <2>5. ShortNameUnambiguous'
      BY <1>6, <2>1, <2>2, <1>1, <1>2, <1>3, <1>4 DEF TypeOK, Consistent, KeysMatch, ShortIndexed,
         ShortNameUnambiguous, Resolve, BareName
    <2>6. orgMap' \in [Names -> Contexts \union {NoContext}] /\ ambiguous' \subseteq Shorts
          /\ (\A q \in Qualified : orgMap[q] # NoContext => orgMap'[q] # NoContext)
          /\ (n \in Qualified => orgMap'[n] # NoContext)
      BY <1>6, <2>1, <2>2, <1>1, <1>2 DEF TypeOK
    <2> QED BY <2>3, <2>4, <2>5, <2>6 DEF Consistent
  <1>7. CASE n[1] # Bare /\ s \notin ambiguous /\ orgMap[BareName(s)] # NoContext
    <2>1. n \in Qualified
      BY <1>1, <1>7 DEF Qualified
    <2>2. orgMap' = [[orgMap EXCEPT ![n] = ctx] EXCEPT ![BareName(s)] = NoContext]
          /\ ambiguous' = ambiguous \union {s}
      BY <1>7 DEF SetOrganizationContext, IsAmbiguous, MarkedShort
    <2>3. KeysMatch'
      <3>1. \A q \in Qualified : orgMap'[q] # NoContext => orgMap'[q].name = q
        BY <1>7, <2>1, <2>2, <1>1, <1>2 DEF TypeOK, Consistent, KeysMatch
      <3>2. ASSUME NEW t \in Shorts, orgMap'[BareName(t)] # NoContext
            PROVE  /\ t # s /\ orgMap'[BareName(t)] = orgMap[BareName(t)]
                   /\ t \notin ambiguous => t \notin ambiguous'
        BY <3>2, <2>1, <2>2, <1>1, <1>2 DEF TypeOK
      <3>3. \A q \in Qualified : orgMap[q] # NoContext => orgMap'[q] # NoContext
        BY <2>1, <2>2, <1>1, <1>2 DEF TypeOK
      <3>4. ASSUME NEW t \in Shorts, orgMap'[BareName(t)] # NoContext
            PROVE  LET c == orgMap'[BareName(t)] IN
                   c.name[2] = t /\ (c.name[1] # Bare =>
                                       t \notin ambiguous' /\ orgMap'[c.name] # NoContext)
        <4>1. orgMap[BareName(t)] \in Contexts /\ orgMap[BareName(t)].name[2] = t
          BY <3>2, <3>4, <1>2 DEF TypeOK, Consistent, KeysMatch
        <4> QED BY <3>2, <3>3, <3>4, <4>1, <1>3 DEF Consistent, KeysMatch, BareName
      <3> QED BY <3>1, <3>4 DEF KeysMatch
    <2>4. ShortIndexed'
      BY <1>7, <2>1, <2>2, <1>1, <1>2, <1>3, <1>4 DEF TypeOK, Consistent, KeysMatch, ShortIndexed,
         ShortNameUnambiguous, Resolve, BareName
    <2>5. ShortNameUnambiguous'
      BY <1>7, <2>1, <2>2, <1>1, <1>2, <1>3, <1>4 DEF TypeOK, Consistent, KeysMatch, ShortIndexed,
         ShortNameUnambiguous, Resolve, BareName
    <2>6. orgMap' \in [Names -> Contexts \union {NoContext}] /\ ambiguous' \subseteq Shorts
          /\ (\A q \in Qualified : orgMap[q] # NoContext => orgMap'[q] # NoContext)
          /\ (n \in Qualified => orgMap'[n] # NoContext)
      BY <1>7, <2>1, <2>2, <1>1, <1>2 DEF TypeOK
    <2> QED BY <2>3, <2>4, <2>5, <2>6 DEF Consistent
  <1>8. CASE n[1] # Bare /\ s \notin ambiguous /\ orgMap[BareName(s)] = NoContext
    <2>1. n \in Qualified
      BY <1>1, <1>8 DEF Qualified
    <2>2. orgMap' = [[orgMap EXCEPT ![n] = ctx] EXCEPT ![BareName(s)] = ctx]
          /\ ambiguous' = ambiguous
      BY <1>8 DEF SetOrganizationContext, IsAmbiguous, MarkedShort
    <2>3. KeysMatch'
      <3>1. \A q \in Qualified : orgMap'[q] # NoContext => orgMap'[q].name = q
        BY <1>8, <2>1, <2>2, <1>1, <1>2 DEF TypeOK, Consistent, KeysMatch
      <3>2. orgMap'[BareName(s)] = ctx /\ orgMap'[n] # NoContext
        BY <2>1, <2>2, <1>1, <1>2 DEF TypeOK
      <3>3. ASSUME NEW t \in Shorts, t # s
            PROVE  orgMap'[BareName(t)] = orgMap[BareName(t)]
        BY <3>3, <2>1, <2>2, <1>1, <1>2 DEF TypeOK
      <3>4. \A q \in Qualified : orgMap[q] # NoContext => orgMap'[q] # NoContext
        BY <2>1, <2>2, <1>1, <1>2 DEF TypeOK
      <3>5. ASSUME NEW t \in Shorts, orgMap'[BareName(t)] # NoContext
            PROVE  LET c == orgMap'[BareName(t)] IN
                   c.name[2] = t /\ (c.name[1] # Bare =>
                                       t \notin ambiguous' /\ orgMap'[c.name] # NoContext)
        <4>1. CASE t = s
          BY <1>8, <4>1, <3>2, <2>2, <1>1
        <4>2. CASE t # s
          <5>1. orgMap[BareName(t)] \in Contexts /\ orgMap[BareName(t)].name[2] = t
            BY <3>3, <3>5, <4>2, <1>2 DEF TypeOK, Consistent, KeysMatch
          <5> QED BY <2>2, <3>3, <3>4, <3>5, <4>2, <5>1, <1>3 DEF Consistent, KeysMatch, BareName
        <4> QED BY <4>1, <4>2
      <3> QED BY <3>1, <3>5 DEF KeysMatch
    <2>4. ShortIndexed'
      BY <1>8, <2>1, <2>2, <1>1, <1>2, <1>3, <1>4 DEF TypeOK, Consistent, KeysMatch, ShortIndexed,
         ShortNameUnambiguous, Resolve, BareName
    <2>5. ShortNameUnambiguous'
      BY <1>8, <2>1, <2>2, <1>1, <1>2, <1>3, <1>4 DEF TypeOK, Consistent, KeysMatch, ShortIndexed,
         ShortNameUnambiguous, Resolve, BareName
    <2>6. orgMap' \in [Names -> Contexts \union {NoContext}] /\ ambiguous' \subseteq Shorts
          /\ (\A q \in Qualified : orgMap[q] # NoContext => orgMap'[q] # NoContext)
          /\ (n \in Qualified => orgMap'[n] # NoContext)
      BY <1>8, <2>1, <2>2, <1>1, <1>2 DEF TypeOK
    <2> QED BY <2>3, <2>4, <2>5, <2>6 DEF Consistent
  <1> QED BY <1>5, <1>6, <1>7, <1>8

LEMMA InitIInv == Init => IInv
PROOF
  <1> SUFFICES ASSUME Init PROVE IInv OBVIOUS
  <1> USE HostAssumption, NameAssumption, BoundAssumption
  <1>1. \A s \in Shorts : BareName(s) \in Names
    BY DEF BareName, Names
  <1>2. Qualified \subseteq Names
    BY DEF Qualified, Names
  <1> QED BY <1>1, <1>2 DEF Init, IInv, TypeOK, PCs, KeysMatch, ShortIndexed,
            ShortNameUnambiguous, Resolve, PassStored, PageEmpty, PromiseKept

(* Names, hosts and pages keep their types. *)
LEMMA TypeStep == TypeOK /\ Consistent /\ [Next]_vars => TypeOK'
PROOF
  <1> SUFFICES ASSUME TypeOK, Consistent, [Next]_vars PROVE TypeOK'
    OBVIOUS
  <1> USE HostAssumption DEF TypeOK, PCs, cacheVars, hostVars, passVars, historyVars
  <1>1. ASSUME NEW w \in Workers, StartRefresh(w) PROVE TypeOK'
    BY <1>1 DEF StartRefresh
  <1>2. ASSUME NEW w \in Workers, RequestPage(w) PROVE TypeOK'
    BY <1>2 DEF RequestPage
  <1>3. ASSUME NEW w \in Workers, RequestFails(w) PROVE TypeOK'
    BY <1>3 DEF RequestFails
  <1>4. ASSUME NEW w \in Workers, StoreContext(w) PROVE TypeOK'
    <2>1. PICK n \in page[w] :
            /\ page' = [page EXCEPT ![w] = @ \ {n}]
            /\ SetOrganizationContext(n, source[w])
      BY <1>4 DEF StoreContext
    <2>2. n \in Names /\ source[w] \in Hosts
      BY <2>1
    <2>3. orgMap' \in [Names -> Contexts \union {NoContext}] /\ ambiguous' \subseteq Shorts
      BY <2>1, <2>2, StoringIsSafe
    <2> QED BY <1>4, <2>1, <2>3 DEF StoreContext
  <1>11. ASSUME NEW w \in Workers, FindContext(w) PROVE TypeOK'
    BY <1>11 DEF FindContext
  <1>12. ASSUME NEW w \in Workers, AddContext(w) PROVE TypeOK'
    <2>1. PICK n \in missing[w] : SetOrganizationContext(n, source[w])
      BY <1>12 DEF AddContext
    <2>2. n \in Names /\ source[w] \in Hosts
      BY <2>1
    <2>3. orgMap' \in [Names -> Contexts \union {NoContext}] /\ ambiguous' \subseteq Shorts
      BY <2>1, <2>2, StoringIsSafe
    <2> QED BY <1>12, <2>3 DEF AddContext
  <1>5. ASSUME NEW w \in Workers, NextPage(w) PROVE TypeOK'
    BY <1>5 DEF NextPage
  <1>6. ASSUME NEW w \in Workers, MarkLoaded(w) PROVE TypeOK'
    BY <1>6 DEF MarkLoaded
  <1>7. ASSUME NEW w \in Workers, EndRefresh(w) PROVE TypeOK'
    BY <1>7 DEF EndRefresh
  <1>8. ASSUME NEW h \in Hosts, ClearHostData(h) PROVE TypeOK'
    <2>1. orgMap' \in [Names -> Contexts \union {NoContext}]
      BY <1>8 DEF ClearHostData
    <2>2. loaded' \in BOOLEAN /\ tainted' \in BOOLEAN
      BY <1>8 DEF ClearHostData
    <2> QED BY <1>8, <2>1, <2>2 DEF ClearHostData
  <1>9. CASE SwitchHost
    BY <1>9 DEF SwitchHost
  <1>10. CASE UNCHANGED vars
    BY <1>10 DEF vars
  <1> QED BY <1>1, <1>2, <1>3, <1>4, <1>5, <1>6, <1>7, <1>8, <1>9, <1>10, <1>11, <1>12 DEF Next

(* A worker stores a context of its page, or one it has not found cached.    *)
LEMMA StoreStep ==
  ASSUME TypeOK, Consistent, NEW w \in Workers, StoreContext(w)
  PROVE  /\ Consistent'
         /\ \A q \in Qualified : orgMap[q] # NoContext => orgMap'[q] # NoContext
         /\ \E n \in page[w] : /\ page' = [page EXCEPT ![w] = @ \ {n}]
                               /\ n \in Qualified => orgMap'[n] # NoContext
PROOF
  <1>1. PICK n \in page[w] :
          /\ page' = [page EXCEPT ![w] = @ \ {n}]
          /\ SetOrganizationContext(n, source[w])
    BY DEF StoreContext
  <1>2. n \in Names /\ source[w] \in Hosts
    BY <1>1 DEF TypeOK
  <1> QED BY <1>1, <1>2, StoringIsSafe

LEMMA AddStep ==
  ASSUME TypeOK, Consistent, NEW w \in Workers, AddContext(w)
  PROVE  /\ Consistent'
         /\ \A q \in Qualified : orgMap[q] # NoContext => orgMap'[q] # NoContext
PROOF
  <1>1. PICK n \in missing[w] : SetOrganizationContext(n, source[w])
    BY DEF AddContext
  <1>2. n \in Names /\ source[w] \in Hosts
    BY <1>1 DEF TypeOK
  <1> QED BY <1>1, <1>2, StoringIsSafe

(* The conjuncts of IInv that speak of the passes of the workers. *)
Passes == PassStored /\ PageEmpty /\ PromiseKept

LEMMA ConsistentStep == TypeOK /\ Consistent /\ [Next]_vars => Consistent'
PROOF
  <1> SUFFICES ASSUME TypeOK, Consistent, [Next]_vars PROVE Consistent'
    OBVIOUS
  <1>1. ASSUME UNCHANGED <<orgMap, ambiguous>> PROVE Consistent'
    BY <1>1 DEF Consistent, KeysMatch, ShortIndexed, ShortNameUnambiguous, Resolve
  <1>2. ASSUME NEW w \in Workers, StoreContext(w) PROVE Consistent'
    BY <1>2, StoreStep
  <1>4. ASSUME NEW w \in Workers, AddContext(w) PROVE Consistent'
    BY <1>4, AddStep
  <1>3. ASSUME NEW h \in Hosts, ClearHostData(h) PROVE Consistent'
    <2>1. orgMap' = [n \in Names |-> NoContext]
      BY <1>3 DEF ClearHostData
    <2>2. \A n \in Names : orgMap'[n] = NoContext
      BY <2>1
    <2>3. Qualified \subseteq Names /\ \A s \in Shorts : BareName(s) \in Names
      BY DEF Qualified, Names, BareName
    <2> QED BY <2>2, <2>3 DEF Consistent, KeysMatch, ShortIndexed,
              ShortNameUnambiguous, Resolve, BareName
  <1> QED BY <1>1, <1>2, <1>3, <1>4 DEF Next, vars, cacheVars, StartRefresh, RequestPage,
            RequestFails, FindContext, NextPage, MarkLoaded, EndRefresh, SwitchHost

LEMMA PassesStep == IInv /\ [Next]_vars => Passes'
PROOF
  <1> SUFFICES ASSUME IInv, [Next]_vars PROVE Passes'
    OBVIOUS
  <1> USE DEF Passes, PassStored, PageEmpty, PromiseKept, cacheVars, hostVars,
          passVars, historyVars
  <1>1. TypeOK /\ Consistent /\ Passes
    BY DEF IInv, Consistent
  <1>2. ASSUME NEW w \in Workers, StartRefresh(w) PROVE Passes'
    BY <1>1, <1>2 DEF StartRefresh, TypeOK
  <1>3. ASSUME NEW w \in Workers, RequestPage(w) PROVE Passes'
    BY <1>1, <1>3 DEF RequestPage, TypeOK, PCs
  <1>4. ASSUME NEW w \in Workers, RequestFails(w) PROVE Passes'
    BY <1>1, <1>4 DEF RequestFails, TypeOK
  <1>5. ASSUME NEW w \in Workers, StoreContext(w) PROVE Passes'
    <2>1. PICK n \in page[w] : /\ page' = [page EXCEPT ![w] = @ \ {n}]
                               /\ n \in Qualified => orgMap'[n] # NoContext
      BY <1>1, <1>5, StoreStep
    <2>2. \A q \in Qualified : orgMap[q] # NoContext => orgMap'[q] # NoContext
      BY <1>1, <1>5, StoreStep
    <2> QED BY <1>1, <1>5, <2>1, <2>2 DEF StoreContext, TypeOK
  <1>12. ASSUME NEW w \in Workers, FindContext(w) PROVE Passes'
    BY <1>1, <1>12 DEF FindContext, TypeOK
  <1>13. ASSUME NEW w \in Workers, AddContext(w) PROVE Passes'
    <2>1. \A q \in Qualified : orgMap[q] # NoContext => orgMap'[q] # NoContext
      BY <1>1, <1>13, AddStep
    <2> QED BY <1>1, <1>13, <2>1 DEF AddContext, TypeOK
  <1>6. ASSUME NEW w \in Workers, NextPage(w) PROVE Passes'
    BY <1>1, <1>6 DEF NextPage, TypeOK
  <1>7. ASSUME NEW w \in Workers, MarkLoaded(w) PROVE Passes'
    BY <1>1, <1>7 DEF MarkLoaded, PassDone, TypeOK
  <1>8. ASSUME NEW w \in Workers, EndRefresh(w) PROVE Passes'
    BY <1>1, <1>8 DEF EndRefresh, PassDone, TypeOK
  <1>9. ASSUME NEW h \in Hosts, ClearHostData(h) PROVE Passes'
    BY <1>1, <1>9 DEF ClearHostData, TypeOK
  <1>10. CASE SwitchHost
    BY <1>1, <1>10 DEF SwitchHost
  <1>11. CASE UNCHANGED vars
    BY <1>1, <1>11 DEF vars
  <1> QED BY <1>2, <1>3, <1>4, <1>5, <1>6, <1>7, <1>8, <1>9, <1>10, <1>11, <1>12, <1>13 DEF Next
-----------------------------------------------------------------------------
(* IInv holds in every reachable state. *)
LEMMA Invariance == Spec => []IInv
PROOF
  <1>1. IInv /\ [Next]_vars => IInv'
    BY TypeStep, ConsistentStep, PassesStep DEF IInv, Consistent, Passes
  <1> QED BY InitIInv, <1>1, PTL DEF Spec

(* However many goroutines store contexts in whatever order, a short name    *)
(* that resolves without the organization's slug is not one that several     *)
(* cached contexts share (cache.go:325-343).                                 *)
THEOREM ShortNamesAreSafe == Spec => []ShortNameUnambiguous
PROOF
  <1>1. IInv => ShortNameUnambiguous
    BY DEF IInv
  <1> QED BY Invariance, <1>1, PTL

(* The validator never calls a listed qualified context missing, unless the  *)
(* refresh that marked the list loaded began before the cache was cleared    *)
(* (envVariables.go:23-28, job_invocation.go:254-266).                       *)
THEOREM ListedContextsAreFound == Spec => []LoadedContextsResolve
PROOF
  <1>1. IInv => LoadedContextsResolve
    BY DEF IInv, TypeOK, PromiseKept, KeysMatch, LoadedContextsResolve, Resolve
  <1> QED BY Invariance, <1>1, PTL
=============================================================================
