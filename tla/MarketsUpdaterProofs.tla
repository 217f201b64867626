------------------------ MODULE MarketsUpdaterProofs ------------------------
(***************************************************************************)
(* Theorems of MarketsUpdater for any tiers, names and ranges of pages and *)
(* any number of fetches and page handlers at a time.                      *)
(*                                                                         *)
(* FetchHasTier ties a goroutine to its tier; UpdatesCached says that what *)
(* a handler is about to list it has cached before, FinalIsListed that a   *)
(* fetch past its final update has its pages listed, and FirstIsListed     *)
(* carries that over to the tiers that have completed.  CompletedNames     *)
(* says what completedTiers is: the names of those tiers, fewer than they  *)
(* are when tiers share one.                                               *)
(***************************************************************************)
EXTENDS MarketsUpdater, TLAPS

\* A fetch goroutine has a tier, and asks for a page there is.
FetchHasTier ==
  \A f \in Fetches :
    /\ fetch[f].state # "idle" => fetch[f].tier \in Tiers
    /\ fetch[f].state = "page" =>
         fetch[f].page \in Pages /\ fetch[f].page <= PageTo[fetch[f].tier]

\* Whoever is about to list pages has cached them.
UpdatesCached ==
  /\ \A f \in Fetches : fetch[f].state = "top" => Got(fetch[f].got) \subseteq cached
  /\ \A h \in Handlers :
       handler[h].state = "top" => Got(handler[h].pages) \subseteq cached

\* S is cached in c and listed in s, unless Stop has cleared the list.
Listed(S, c, s, p) == S \subseteq c /\ (p # "cleared" => S \subseteq Got(s))

\* completedTiers has the name of every tier that has completed, no other.
CompletedNames == completed = {Name[t] : t \in loaded}

\* The tiers of the configuration have names of their own.
DistinctNames == \A t, u \in Tiers : Name[t] = Name[u] => t = u

\* A fetch past its final update has its pages listed.
FinalIsListed ==
  \A f \in Fetches :
    fetch[f].state \in {"emit", "check"} =>
      Listed(Got(fetch[f].got), cached, served, phase)

\* So has a tier that has completed, and the event waits for all of them.
FirstIsListed ==
  /\ \A t \in loaded : Listed(first[t], cached, served, phase)
  /\ initialized # "no" => loaded = Tiers /\ DistinctNames

IInv == /\ TypeOK /\ FetchHasTier /\ MarkHasFetch
        /\ UpdatesCached /\ ListedIsCached /\ ChangeIsAnnounced
        /\ FinalIsListed /\ CompletedNames /\ FirstIsListed

-----------------------------------------------------------------------------
\* The constants the goroutines start from have their types.
LEMMA StartStates ==
  /\ NoPages \in Versions /\ NoFetch \in FetchState /\ NoHandler \in HandlerState
  /\ \A t \in Tiers :
       /\ t \in 0 .. NTiers /\ PageFrom[t] \in 0 .. NPages + 1
       /\ (IF t = NTiers THEN 0 ELSE t + 1) \in 0 .. NTiers
<1>1. 0 \in 0 .. MaxVersion /\ 0 \in 0 .. NTiers /\ 0 \in 0 .. NPages + 1
  BY MarketsAssumption
<1>2. NoPages \in Versions
  BY <1>1 DEF NoPages, Versions
<1>3. \A t \in Tiers :
        /\ t \in 0 .. NTiers /\ PageFrom[t] \in 0 .. NPages + 1
        /\ (IF t = NTiers THEN 0 ELSE t + 1) \in 0 .. NTiers
  BY MarketsAssumption DEF Tiers, Pages
<1> QED
  BY <1>1, <1>2, <1>3 DEF NoFetch, NoHandler, FetchState, HandlerState

\* A fetch that only moves on is a fetch.
LEMMA FetchMoves ==
  \A r \in FetchState, x \in {"page", "store", "extra", "cache", "top", "emit",
                              "check", "return"} :
    [r EXCEPT !.state = x] \in FetchState
  BY DEF FetchState

\* A spawned handler is a handler.
LEMMA SpawnsHandlers ==
  ASSUME TypeOK, NEW x \in {"cache", "emit"}, NEW pages \in Versions,
         SpawnHandler(x, pages)
  PROVE  handler' \in [Handlers -> HandlerState]
  BY DEF TypeOK, SpawnHandler, HandlerState

\* Spawning does not put a handler between its cache and its listing.
LEMMA SpawnedIsNotListing ==
  ASSUME TypeOK, NEW x \in {"cache", "emit"}, NEW pages, SpawnHandler(x, pages)
  PROVE  \A h \in Handlers :
           /\ handler'[h].state = "top" => handler'[h] = handler[h]
           /\ handler[h].state = "emit" => handler'[h] = handler[h]
  BY DEF TypeOK, SpawnHandler, NoHandler

\* A check spawns at most one fetch, of the tier it looks at, under a name
\* that is free.
LEMMA CheckSpawns ==
  ASSUME CheckTier
  PROVE  \/ UNCHANGED fetch
         \/ \E f \in Fetches :
              /\ fetch[f] = NoFetch
              /\ fetch' = [fetch EXCEPT ![f] =
                             [state |-> "spawned", tier |-> next,
                              page |-> 0, got |-> NoPages]]
  BY DEF CheckTier, Spawn

\* A page lists its version and no other.
LEMMA OnePage ==
  \A p \in Pages, v \in 0 .. MaxVersion, s \in Versions :
    [s EXCEPT ![p] = v] \in Versions
  BY DEF Versions

\* An update lists its pages beside those that were.
LEMMA UpdateLists ==
  ASSUME NEW pages \in Versions, served \in Versions,
         UpdatePagesFromPageData(pages)
  PROVE  /\ served' \in Versions
         /\ Got(served') = Got(served) \cup Got(pages)
  BY DEF UpdatePagesFromPageData, Versions, Got

-----------------------------------------------------------------------------
\* Every step keeps the types.
LEMMA TypeOKStep ==
  TypeOK /\ FetchHasTier /\ [Next]_vars => TypeOK'
<1> SUFFICES ASSUME TypeOK, FetchHasTier, [Next]_vars
    PROVE TypeOK'
  OBVIOUS
<1> USE DEF TypeOK, tierVars, dataVars, initVars
<1>1. CASE CancelCtx
  BY <1>1 DEF CancelCtx
<1>2. CASE Stop
  BY <1>2, StartStates DEF Stop
<1>3. CASE CheckBegin
  BY <1>3, MarketsAssumption DEF CheckBegin
<1>4. CASE CheckTier
  <2>1. next \in Tiers
    BY <1>4, MarketsAssumption DEF CheckTier, Tiers
  <2>2. Name[next] \in Names
    BY <2>1, MarketsAssumption
  <2>3. fetch' \in [Fetches -> FetchState]
    <3>1. [state |-> "spawned", tier |-> next, page |-> 0, got |-> NoPages]
            \in FetchState
      BY <2>1, StartStates DEF FetchState, NoFetch
    <3> QED
      BY <1>4, <3>1, CheckSpawns
  <2>4. next' \in 0 .. NTiers
    BY <1>4, <2>1, StartStates DEF CheckTier
  <2>5. resets' \in [Names -> 0 .. MaxResets]
    BY <1>4, <2>2, MarketsAssumption DEF CheckTier
  <2> QED
    BY <1>4, <2>3, <2>4, <2>5 DEF CheckTier
<1>5. CASE EmitInitialized
  BY <1>5 DEF EmitInitialized
<1>6. ASSUME NEW n \in Names, BecomeDue(n) PROVE TypeOK'
  BY <1>6 DEF BecomeDue
<1>7. ASSUME NEW n \in Names, GetStuck(n) PROVE TypeOK'
  BY <1>7 DEF GetStuck
<1>8. ASSUME NEW n \in Names, Reset(n) PROVE TypeOK'
  BY <1>8, MarketsAssumption DEF Reset
<1>9. ASSUME NEW f \in Fetches, FetchMark(f) PROVE TypeOK'
  <2>1. fetch[f].tier \in Tiers
    BY <1>9 DEF FetchMark, FetchHasTier
  <2>2. [state |-> "page", tier |-> fetch[f].tier, page |-> PageFrom[fetch[f].tier],
         got |-> NoPages] \in FetchState
    BY <2>1, StartStates DEF FetchState
  <2> QED
    BY <1>9, <2>2 DEF FetchMark
<1>10. ASSUME NEW f \in Fetches, FetchPage(f) PROVE TypeOK'
  <2> DEFINE p == fetch[f].page
             t == fetch[f].tier
  <2>1. /\ p \in Pages /\ t \in 0 .. NTiers /\ fetch[f].got \in Versions
    BY <1>10, MarketsAssumption DEF FetchPage, FetchHasTier, FetchState
  <2>2. PICK v \in 1 .. MaxVersion :
          /\ SpawnHandler("cache", [NoPages EXCEPT ![p] = v])
          /\ fetch' = [fetch EXCEPT ![f] =
                         [state |-> IF p < PageTo[t] THEN "page" ELSE "store",
                          tier |-> t, page |-> p + 1,
                          got |-> [fetch[f].got EXCEPT ![p] = v]]]
    BY <1>10 DEF FetchPage
  <2>3. v \in 0 .. MaxVersion /\ p + 1 \in 0 .. NPages + 1
    BY <2>1, MarketsAssumption DEF Pages
  <2>4. /\ [fetch[f].got EXCEPT ![p] = v] \in Versions
        /\ [NoPages EXCEPT ![p] = v] \in Versions
    BY <2>1, <2>3, OnePage, StartStates
  <2>5. \A x \in {"page", "store"} :
          [state |-> x, tier |-> t, page |-> p + 1,
           got |-> [fetch[f].got EXCEPT ![p] = v]] \in FetchState
    BY <2>1, <2>3, <2>4 DEF FetchState
  <2>6. fetch' \in [Fetches -> FetchState]
    BY <2>2, <2>5
  <2>7. handler' \in [Handlers -> HandlerState]
    BY <2>2, <2>4, SpawnsHandlers
  <2> QED
    BY <1>10, <2>6, <2>7 DEF FetchPage
<1>11. ASSUME NEW f \in Fetches, FetchEmptyPage(f) PROVE TypeOK'
  BY <1>11, FetchMoves DEF FetchEmptyPage
<1>12. ASSUME NEW f \in Fetches, FetchError(f) PROVE TypeOK'
  BY <1>12, FetchMoves DEF FetchError
<1>13. ASSUME NEW f \in Fetches, FetchStore(f) PROVE TypeOK'
  <2>1. fetch[f].got \in Versions
    BY DEF FetchState
  <2>2. fetch' \in [Fetches -> FetchState]
    BY <1>13, FetchMoves DEF FetchStore
  <2> QED
    BY <1>13, <2>1, <2>2 DEF FetchStore
<1>14. ASSUME NEW f \in Fetches, FetchExtra(f) PROVE TypeOK'
  <2>1. fetch' \in [Fetches -> FetchState]
    BY <1>14, FetchMoves DEF FetchExtra
  <2>2. handler' \in [Handlers -> HandlerState]
    BY <1>14, StartStates, SpawnsHandlers DEF FetchExtra
  <2> QED
    BY <1>14, <2>1, <2>2 DEF FetchExtra
<1>15. ASSUME NEW f \in Fetches, FetchHandle(f) PROVE TypeOK'
  <2>1. fetch' \in [Fetches -> FetchState]
    <3>1. PICK x \in {"top", "emit", "check"} :
            fetch' = [fetch EXCEPT ![f].state = x]
      BY <1>15 DEF FetchHandle
    <3>2. [fetch[f] EXCEPT !.state = x] \in FetchState
      BY FetchMoves
    <3> QED
      BY <3>1, <3>2
  <2>2. CASE fetch[f].state = "cache"
    <3>1. CachePages(fetch[f].got)
      BY <1>15, <2>2 DEF FetchHandle
    <3>2. cached' \subseteq Pages
      BY <3>1 DEF CachePages, Got
    <3> QED
      BY <1>15, <2>1, <3>1, <3>2 DEF FetchHandle, CachePages
  <2>3. CASE fetch[f].state = "top"
    <3>1. fetch[f].got \in Versions /\ UpdatePagesFromPageData(fetch[f].got)
      BY <1>15, <2>3 DEF FetchHandle, FetchState
    <3>2. served' \in Versions
      BY <3>1, UpdateLists
    <3> QED
      BY <1>15, <2>1, <3>1, <3>2 DEF FetchHandle, UpdatePagesFromPageData
  <2>4. CASE fetch[f].state = "emit"
    BY <1>15, <2>1, <2>4 DEF FetchHandle, Emit
  <2> QED
    BY <1>15, <2>2, <2>3, <2>4 DEF FetchHandle
<1>16. ASSUME NEW f \in Fetches, checkAndTriggerInitialLoadCompleted(f) PROVE TypeOK'
  <2>1. fetch' \in [Fetches -> FetchState]
    BY <1>16, FetchMoves DEF checkAndTriggerInitialLoadCompleted
  <2>2. fetch[f].tier \in Tiers /\ Name[fetch[f].tier] \in Names
    BY <1>16, MarketsAssumption
    DEF checkAndTriggerInitialLoadCompleted, FetchHasTier
  <2>3. completed' \subseteq Names /\ initialized' \in {"no", "spawned", "emitted"}
    BY <1>16, <2>2 DEF checkAndTriggerInitialLoadCompleted
  <2>4. loaded' \subseteq Tiers /\ first' \in [Tiers -> SUBSET Pages]
    BY <1>16, <2>2 DEF checkAndTriggerInitialLoadCompleted, Got
  <2> QED
    BY <1>16, <2>1, <2>3, <2>4 DEF checkAndTriggerInitialLoadCompleted
<1>17. ASSUME NEW f \in Fetches, FetchReturn(f) PROVE TypeOK'
  BY <1>17, StartStates DEF FetchReturn
<1>18. ASSUME NEW h \in Handlers, HandlerStep(h) PROVE TypeOK'
  <2>1. handler[h].pages \in Versions
    BY DEF HandlerState
  <2>2. handler' \in [Handlers -> HandlerState]
    BY <1>18, StartStates DEF HandlerStep, HandlerState
  <2>3. CASE handler[h].state = "cache"
    BY <1>18, <2>2, <2>3 DEF HandlerStep, CachePages, Got
  <2>4. CASE handler[h].state = "top"
    <3>1. UpdatePagesFromPageData(handler[h].pages)
      BY <1>18, <2>4 DEF HandlerStep
    <3>2. served' \in Versions
      BY <2>1, <3>1, UpdateLists
    <3> QED
      BY <1>18, <2>2, <3>1, <3>2 DEF HandlerStep, UpdatePagesFromPageData
  <2>5. CASE handler[h].state = "emit"
    BY <1>18, <2>2, <2>5 DEF HandlerStep, Emit
  <2> QED
    BY <1>18, <2>3, <2>4, <2>5 DEF HandlerStep
<1>19. CASE UNCHANGED vars
  BY <1>19 DEF vars
<1> QED
  BY <1>1, <1>2, <1>3, <1>4, <1>5, <1>6, <1>7, <1>8, <1>9, <1>10, <1>11,
     <1>12, <1>13, <1>14, <1>15, <1>16, <1>17, <1>18, <1>19
  DEF Next, FetchStep

\* Every step keeps the goroutines to their tiers and ranges.
LEMMA FetchHasTierStep ==
  TypeOK /\ FetchHasTier /\ [Next]_vars => FetchHasTier'
<1> SUFFICES ASSUME TypeOK, FetchHasTier, [Next]_vars
    PROVE FetchHasTier'
  OBVIOUS
<1> USE DEF TypeOK, FetchHasTier, NoFetch
<1>1. CASE CancelCtx
  BY <1>1 DEF CancelCtx
<1>2. CASE Stop
  BY <1>2 DEF Stop
<1>3. CASE CheckBegin
  BY <1>3 DEF CheckBegin
<1>4. CASE CheckTier
  <2>1. next \in Tiers
    BY <1>4, MarketsAssumption DEF CheckTier, Tiers
  <2> QED
    BY <1>4, <2>1, CheckSpawns
<1>5. CASE EmitInitialized
  BY <1>5 DEF EmitInitialized
<1>6. ASSUME NEW n \in Names, BecomeDue(n) PROVE FetchHasTier'
  BY <1>6 DEF BecomeDue
<1>7. ASSUME NEW n \in Names, GetStuck(n) PROVE FetchHasTier'
  BY <1>7 DEF GetStuck
<1>8. ASSUME NEW n \in Names, Reset(n) PROVE FetchHasTier'
  BY <1>8 DEF Reset
<1>9. ASSUME NEW f \in Fetches, FetchMark(f) PROVE FetchHasTier'
  BY <1>9, MarketsAssumption DEF FetchMark
<1>10. ASSUME NEW f \in Fetches, FetchPage(f) PROVE FetchHasTier'
  <2> DEFINE p == fetch[f].page
             t == fetch[f].tier
  <2>1. t \in Tiers /\ p \in Pages /\ PageTo[t] \in Pages
    BY <1>10, MarketsAssumption DEF FetchPage
  <2>2. p < PageTo[t] => p + 1 \in Pages /\ p + 1 <= PageTo[t]
    BY <2>1, MarketsAssumption DEF Pages
  <2> QED
    BY <1>10, <2>1, <2>2 DEF FetchPage
<1>11. ASSUME NEW f \in Fetches, FetchEmptyPage(f) PROVE FetchHasTier'
  BY <1>11 DEF FetchEmptyPage, FetchState
<1>12. ASSUME NEW f \in Fetches, FetchError(f) PROVE FetchHasTier'
  BY <1>12 DEF FetchError, FetchState
<1>13. ASSUME NEW f \in Fetches, FetchStore(f) PROVE FetchHasTier'
  BY <1>13 DEF FetchStore, FetchState
<1>14. ASSUME NEW f \in Fetches, FetchExtra(f) PROVE FetchHasTier'
  BY <1>14 DEF FetchExtra, FetchState
<1>15. ASSUME NEW f \in Fetches, FetchHandle(f) PROVE FetchHasTier'
  BY <1>15 DEF FetchHandle, FetchState
<1>16. ASSUME NEW f \in Fetches, checkAndTriggerInitialLoadCompleted(f)
       PROVE  FetchHasTier'
  BY <1>16 DEF checkAndTriggerInitialLoadCompleted, FetchState
<1>17. ASSUME NEW f \in Fetches, FetchReturn(f) PROVE FetchHasTier'
  BY <1>17 DEF FetchReturn
<1>18. ASSUME NEW h \in Handlers, HandlerStep(h) PROVE FetchHasTier'
  BY <1>18 DEF HandlerStep
<1>19. CASE UNCHANGED vars
  BY <1>19 DEF vars
<1> QED
  BY <1>1, <1>2, <1>3, <1>4, <1>5, <1>6, <1>7, <1>8, <1>9, <1>10, <1>11,
     <1>12, <1>13, <1>14, <1>15, <1>16, <1>17, <1>18, <1>19
  DEF Next, FetchStep

\* No step leaves a mark without a fetch.
LEMMA MarkHasFetchStep ==
  TypeOK /\ FetchHasTier /\ MarkHasFetch /\ [Next]_vars => MarkHasFetch'
<1> SUFFICES ASSUME TypeOK, FetchHasTier, MarkHasFetch, [Next]_vars
    PROVE MarkHasFetch'
  OBVIOUS
<1> USE DEF TypeOK, MarkHasFetch, tierVars
<1>1. CASE CancelCtx
  BY <1>1 DEF CancelCtx
<1>2. CASE Stop
  BY <1>2 DEF Stop
<1>3. CASE CheckBegin
  BY <1>3 DEF CheckBegin
<1>4. CASE CheckTier
  <2> SUFFICES ASSUME NEW n \in Names, mark[n] # "none"
      PROVE \E f \in Fetches : /\ fetch'[f].state \notin {"idle", "spawned"}
                               /\ Name[fetch'[f].tier] = n
    BY <1>4 DEF CheckTier
  <2>1. PICK f \in Fetches : /\ fetch[f].state \notin {"idle", "spawned"}
                             /\ Name[fetch[f].tier] = n
    OBVIOUS
  <2>2. fetch'[f] = fetch[f]
    BY <1>4, <2>1, CheckSpawns DEF NoFetch
  <2> QED
    BY <2>1, <2>2
<1>5. CASE EmitInitialized
  BY <1>5 DEF EmitInitialized
<1>6. ASSUME NEW n \in Names, BecomeDue(n) PROVE MarkHasFetch'
  BY <1>6 DEF BecomeDue
<1>7. ASSUME NEW n \in Names, GetStuck(n) PROVE MarkHasFetch'
  BY <1>7 DEF GetStuck
<1>8. ASSUME NEW n \in Names, Reset(n) PROVE MarkHasFetch'
  BY <1>8 DEF Reset
<1>9. ASSUME NEW f \in Fetches, FetchMark(f) PROVE MarkHasFetch'
  BY <1>9 DEF FetchMark
<1>10. ASSUME NEW f \in Fetches, FetchPage(f) PROVE MarkHasFetch'
  BY <1>10 DEF FetchPage
<1>11. ASSUME NEW f \in Fetches, FetchEmptyPage(f) PROVE MarkHasFetch'
  BY <1>11 DEF FetchEmptyPage, FetchState
<1>12. ASSUME NEW f \in Fetches, FetchError(f) PROVE MarkHasFetch'
  BY <1>12 DEF FetchError, FetchState
<1>13. ASSUME NEW f \in Fetches, FetchStore(f) PROVE MarkHasFetch'
  BY <1>13 DEF FetchStore, FetchState
<1>14. ASSUME NEW f \in Fetches, FetchExtra(f) PROVE MarkHasFetch'
  BY <1>14 DEF FetchExtra, FetchState
<1>15. ASSUME NEW f \in Fetches, FetchHandle(f) PROVE MarkHasFetch'
  BY <1>15 DEF FetchHandle, FetchState
<1>16. ASSUME NEW f \in Fetches, checkAndTriggerInitialLoadCompleted(f)
       PROVE  MarkHasFetch'
  BY <1>16 DEF checkAndTriggerInitialLoadCompleted, FetchState
<1>17. ASSUME NEW f \in Fetches, FetchReturn(f) PROVE MarkHasFetch'
  BY <1>17 DEF FetchReturn
<1>18. ASSUME NEW h \in Handlers, HandlerStep(h) PROVE MarkHasFetch'
  BY <1>18 DEF HandlerStep
<1>19. CASE UNCHANGED vars
  BY <1>19 DEF vars
<1> QED
  BY <1>1, <1>2, <1>3, <1>4, <1>5, <1>6, <1>7, <1>8, <1>9, <1>10, <1>11,
     <1>12, <1>13, <1>14, <1>15, <1>16, <1>17, <1>18, <1>19
  DEF Next, FetchStep

-----------------------------------------------------------------------------
\* A step that has nothing to do with what is cached, listed or completed:
\* no fetch gets to its final update or to the check after it, no handler to
\* its listing, and none of them leaves before its Emit.
Aside ==
  /\ UNCHANGED <<phase, dataVars, initVars>>
  /\ \A f \in Fetches :
       \/ fetch'[f] = fetch[f]
       \/ /\ fetch[f].state # "emit"
          /\ fetch'[f].state \notin {"top", "emit", "check"}
  /\ \A h \in Handlers :
       /\ handler'[h].state = "top" => handler'[h] = handler[h]
       /\ handler[h].state = "emit" => handler'[h] = handler[h]

\* The other steps are few.
LEMMA StepKinds ==
  ASSUME TypeOK, FetchHasTier, [Next]_vars
  PROVE  \/ Aside \/ CancelCtx \/ Stop \/ EmitInitialized
         \/ \E f \in Fetches :
              FetchHandle(f) \/ checkAndTriggerInitialLoadCompleted(f)
         \/ \E h \in Handlers : HandlerStep(h)
<1> USE DEF TypeOK, Aside, NoFetch
<1>1. CASE CheckBegin
  BY <1>1 DEF CheckBegin
<1>2. CASE CheckTier
  <2>1. UNCHANGED <<phase, dataVars, initVars, handler>>
    BY <1>2 DEF CheckTier
  <2> QED
    BY <2>1, <1>2, CheckSpawns
<1>3. ASSUME NEW n \in Names, BecomeDue(n) PROVE Aside
  BY <1>3 DEF BecomeDue
<1>4. ASSUME NEW n \in Names, GetStuck(n) PROVE Aside
  BY <1>4 DEF GetStuck
<1>5. ASSUME NEW n \in Names, Reset(n) PROVE Aside
  BY <1>5 DEF Reset
<1>6. ASSUME NEW f \in Fetches, FetchMark(f) PROVE Aside
  BY <1>6 DEF FetchMark
<1>7. ASSUME NEW f \in Fetches, FetchPage(f) PROVE Aside
  <2>1. \A h \in Handlers :
          /\ handler'[h].state = "top" => handler'[h] = handler[h]
          /\ handler[h].state = "emit" => handler'[h] = handler[h]
    BY <1>7, SpawnedIsNotListing DEF FetchPage
  <2> QED
    BY <1>7, <2>1 DEF FetchPage
<1>8. ASSUME NEW f \in Fetches, FetchEmptyPage(f) PROVE Aside
  BY <1>8 DEF FetchEmptyPage, FetchState
<1>9. ASSUME NEW f \in Fetches, FetchError(f) PROVE Aside
  BY <1>9 DEF FetchError, FetchState
<1>10. ASSUME NEW f \in Fetches, FetchStore(f) PROVE Aside
  BY <1>10 DEF FetchStore, FetchState
<1>11. ASSUME NEW f \in Fetches, FetchExtra(f) PROVE Aside
  <2>1. \A h \in Handlers :
          /\ handler'[h].state = "top" => handler'[h] = handler[h]
          /\ handler[h].state = "emit" => handler'[h] = handler[h]
    BY <1>11, SpawnedIsNotListing DEF FetchExtra
  <2> QED
    BY <1>11, <2>1 DEF FetchExtra, FetchState
<1>12. ASSUME NEW f \in Fetches, FetchReturn(f) PROVE Aside
  BY <1>12 DEF FetchReturn
<1>13. CASE UNCHANGED vars
  BY <1>13 DEF vars
<1> QED
  BY <1>1, <1>2, <1>3, <1>4, <1>5, <1>6, <1>7, <1>8, <1>9, <1>10, <1>11,
     <1>12, <1>13
  DEF Next, FetchStep

\* What an update or a handler lists was cached before.
LEMMA CachedStep ==
  /\ TypeOK /\ FetchHasTier /\ UpdatesCached /\ ListedIsCached /\ [Next]_vars
  => UpdatesCached' /\ ListedIsCached'
<1> SUFFICES ASSUME TypeOK, FetchHasTier, UpdatesCached, ListedIsCached, [Next]_vars
    PROVE UpdatesCached' /\ ListedIsCached'
  OBVIOUS
<1> USE DEF TypeOK, UpdatesCached, ListedIsCached, dataVars
<1>1. CASE Aside
  BY <1>1 DEF Aside, Got
<1>2. CASE CancelCtx
  BY <1>2 DEF CancelCtx, Got
<1>3. CASE Stop
  BY <1>3 DEF Stop, Got, NoPages
<1>4. CASE EmitInitialized
  BY <1>4 DEF EmitInitialized, Got
<1>5. ASSUME NEW f \in Fetches, FetchHandle(f)
      PROVE  UpdatesCached' /\ ListedIsCached'
  <2>1. CASE fetch[f].state = "cache"
    <3>1. /\ CachePages(fetch[f].got) /\ UNCHANGED handler
          /\ fetch' = [fetch EXCEPT ![f].state = "top"]
      BY <1>5, <2>1 DEF FetchHandle
    <3>2. fetch'[f].got = fetch[f].got
      BY <3>1 DEF FetchState
    <3> QED
      BY <3>1, <3>2 DEF CachePages, Got
  <2>2. CASE fetch[f].state = "top"
    <3>1. /\ UpdatePagesFromPageData(fetch[f].got) /\ UNCHANGED handler
          /\ fetch' = [fetch EXCEPT ![f].state = "emit"]
      BY <1>5, <2>2 DEF FetchHandle
    <3>2. fetch'[f].state = "emit"
      BY <3>1 DEF FetchState
    <3>3. Got(served') = Got(served) \cup Got(fetch[f].got) /\ UNCHANGED cached
      BY <3>1, UpdateLists DEF UpdatePagesFromPageData, FetchState
    <3>4. ListedIsCached'
      BY <2>2, <3>3 DEF Got
    <3> QED
      BY <3>1, <3>2, <3>3, <3>4
  <2>3. CASE fetch[f].state = "emit"
    <3>1. /\ Emit /\ UNCHANGED handler
          /\ fetch' = [fetch EXCEPT ![f].state = "check"]
      BY <1>5, <2>3 DEF FetchHandle
    <3> QED
      BY <3>1 DEF Emit, Got, FetchState
  <2> QED
    BY <1>5, <2>1, <2>2, <2>3 DEF FetchHandle
<1>6. ASSUME NEW f \in Fetches, checkAndTriggerInitialLoadCompleted(f)
      PROVE  UpdatesCached' /\ ListedIsCached'
  BY <1>6 DEF checkAndTriggerInitialLoadCompleted, Got, FetchState
<1>7. ASSUME NEW h \in Handlers, HandlerStep(h)
      PROVE  UpdatesCached' /\ ListedIsCached'
  <2>1. CASE handler[h].state = "cache"
    <3>1. /\ CachePages(handler[h].pages) /\ UNCHANGED fetch
          /\ handler' = [handler EXCEPT ![h].state = "top"]
      BY <1>7, <2>1 DEF HandlerStep
    <3>2. handler'[h].pages = handler[h].pages
      BY <3>1 DEF HandlerState
    <3> QED
      BY <3>1, <3>2 DEF CachePages, Got
  <2>2. CASE handler[h].state = "top"
    <3>1. /\ UpdatePagesFromPageData(handler[h].pages) /\ UNCHANGED fetch
          /\ handler' = [handler EXCEPT ![h] = [state |-> "emit", pages |-> NoPages]]
      BY <1>7, <2>2 DEF HandlerStep
    <3>2. handler[h].pages \in Versions
      BY DEF HandlerState
    <3>3. Got(served') = Got(served) \cup Got(handler[h].pages) /\ UNCHANGED cached
      BY <3>1, <3>2, UpdateLists DEF UpdatePagesFromPageData
    <3>4. ListedIsCached'
      BY <2>2, <3>3 DEF Got
    <3> QED
      BY <3>1, <3>3, <3>4
  <2>3. CASE handler[h].state = "emit"
    <3>1. /\ Emit /\ UNCHANGED fetch
          /\ handler' = [handler EXCEPT ![h] = NoHandler]
      BY <1>7, <2>3 DEF HandlerStep
    <3> QED
      BY <3>1 DEF Emit, Got, NoHandler
  <2> QED
    BY <1>7, <2>1, <2>2, <2>3 DEF HandlerStep
<1> QED
  BY <1>1, <1>2, <1>3, <1>4, <1>5, <1>6, <1>7, StepKinds

\* A change that has not been announced is about to be.
LEMMA ChangeIsAnnouncedStep ==
  /\ TypeOK /\ FetchHasTier /\ ChangeIsAnnounced /\ [Next]_vars
  => ChangeIsAnnounced'
<1> SUFFICES ASSUME TypeOK, FetchHasTier, ChangeIsAnnounced, [Next]_vars
    PROVE ChangeIsAnnounced'
  OBVIOUS
<1> USE DEF TypeOK, ChangeIsAnnounced, dataVars
<1>1. CASE Aside
  BY <1>1 DEF Aside
<1>2. CASE CancelCtx
  BY <1>2 DEF CancelCtx
<1>3. CASE Stop
  BY <1>3 DEF Stop
<1>4. CASE EmitInitialized
  BY <1>4 DEF EmitInitialized
<1>5. ASSUME NEW f \in Fetches, FetchHandle(f) PROVE ChangeIsAnnounced'
  <2>1. CASE fetch[f].state = "cache"
    <3>1. /\ UNCHANGED <<phase, unannounced, handler>>
          /\ fetch' = [fetch EXCEPT ![f].state = "top"]
      BY <1>5, <2>1 DEF FetchHandle, CachePages
    <3> QED
      BY <2>1, <3>1
  <2>2. CASE fetch[f].state = "top"
    <3>1. fetch' = [fetch EXCEPT ![f].state = "emit"]
      BY <1>5, <2>2 DEF FetchHandle
    <3> QED
      BY <3>1 DEF FetchState
  <2>3. CASE fetch[f].state = "emit"
    <3>1. Emit /\ UNCHANGED phase
      BY <1>5, <2>3 DEF FetchHandle
    <3> QED
      BY <3>1 DEF Emit
  <2> QED
    BY <1>5, <2>1, <2>2, <2>3 DEF FetchHandle
<1>6. ASSUME NEW f \in Fetches, checkAndTriggerInitialLoadCompleted(f)
      PROVE  ChangeIsAnnounced'
  BY <1>6 DEF checkAndTriggerInitialLoadCompleted
<1>7. ASSUME NEW h \in Handlers, HandlerStep(h) PROVE ChangeIsAnnounced'
  <2>1. CASE handler[h].state = "cache"
    <3>1. /\ UNCHANGED <<phase, unannounced, fetch>>
          /\ handler' = [handler EXCEPT ![h].state = "top"]
      BY <1>7, <2>1 DEF HandlerStep, CachePages
    <3> QED
      BY <2>1, <3>1
  <2>2. CASE handler[h].state = "top"
    <3>1. handler' = [handler EXCEPT ![h] = [state |-> "emit", pages |-> NoPages]]
      BY <1>7, <2>2 DEF HandlerStep
    <3> QED
      BY <3>1
  <2>3. CASE handler[h].state = "emit"
    <3>1. Emit /\ UNCHANGED phase
      BY <1>7, <2>3 DEF HandlerStep
    <3> QED
      BY <3>1 DEF Emit
  <2> QED
    BY <1>7, <2>1, <2>2, <2>3 DEF HandlerStep
<1> QED
  BY <1>1, <1>2, <1>3, <1>4, <1>5, <1>6, <1>7, StepKinds

\* What is listed stays listed until Stop clears the list.
LEMMA ListedStays ==
  ASSUME TypeOK, FetchHasTier, [Next]_vars, NEW S, Listed(S, cached, served, phase)
  PROVE  Listed(S, cached', served', phase')
<1> USE DEF TypeOK, Listed, dataVars
<1>1. CASE Aside
  BY <1>1 DEF Aside, Got
<1>2. CASE CancelCtx
  BY <1>2 DEF CancelCtx, Got
<1>3. CASE Stop
  BY <1>3 DEF Stop
<1>4. CASE EmitInitialized
  BY <1>4 DEF EmitInitialized, Got
<1>5. CASE \E f \in Fetches : checkAndTriggerInitialLoadCompleted(f)
  BY <1>5 DEF checkAndTriggerInitialLoadCompleted, Got
<1>6. ASSUME NEW pages \in Versions,
             CachePages(pages) \/ UpdatePagesFromPageData(pages) \/ Emit,
             UNCHANGED phase
      PROVE  Listed(S, cached', served', phase')
  <2>1. CASE CachePages(pages)
    BY <1>6, <2>1 DEF CachePages, Got
  <2>2. CASE UpdatePagesFromPageData(pages)
    <3>1. Got(served') = Got(served) \cup Got(pages) /\ UNCHANGED cached
      BY <2>2, UpdateLists DEF UpdatePagesFromPageData
    <3>2. Got(served)' = Got(served')
      BY DEF Got
    <3> QED
      BY <1>6, <3>1, <3>2
  <2>3. CASE Emit
    BY <1>6, <2>3 DEF Emit, Got
  <2> QED
    BY <1>6, <2>1, <2>2, <2>3
<1>7. ASSUME NEW f \in Fetches, FetchHandle(f) PROVE Listed(S, cached', served', phase')
  <2>1. fetch[f].got \in Versions
    BY DEF FetchState
  <2> QED
    BY <1>6, <1>7, <2>1 DEF FetchHandle
<1>8. ASSUME NEW h \in Handlers, HandlerStep(h) PROVE Listed(S, cached', served', phase')
  <2>1. handler[h].pages \in Versions
    BY DEF HandlerState
  <2> QED
    BY <1>6, <1>8, <2>1 DEF HandlerStep
<1> QED
  BY <1>1, <1>2, <1>3, <1>4, <1>5, <1>7, <1>8, StepKinds

\* A fetch past its final update has its pages listed.
LEMMA FinalIsListedStep ==
  /\ TypeOK /\ FetchHasTier /\ UpdatesCached /\ FinalIsListed /\ [Next]_vars
  => FinalIsListed'
<1> SUFFICES ASSUME TypeOK, FetchHasTier, UpdatesCached, FinalIsListed, [Next]_vars,
                    NEW g \in Fetches, fetch'[g].state \in {"emit", "check"}
    PROVE Listed(Got(fetch'[g].got), cached', served', phase')
  BY DEF FinalIsListed, Listed, Got
<1> DEFINE S == Got(fetch[g].got)
<1>1. ASSUME fetch'[g].got = fetch[g].got, fetch[g].state \in {"emit", "check"}
      PROVE  Listed(Got(fetch'[g].got), cached', served', phase')
  <2>1. Listed(S, cached, served, phase)
    BY <1>1 DEF FinalIsListed
  <2> QED
    BY <1>1, <2>1, ListedStays
<1> USE DEF TypeOK
<1>2. CASE Aside
  BY <1>1, <1>2 DEF Aside
<1>3. CASE CancelCtx
  BY <1>1, <1>3 DEF CancelCtx
<1>4. CASE Stop
  BY <1>1, <1>4 DEF Stop
<1>5. CASE EmitInitialized
  BY <1>1, <1>5 DEF EmitInitialized
<1>6. ASSUME NEW f \in Fetches, FetchHandle(f)
      PROVE  Listed(Got(fetch'[g].got), cached', served', phase')
  <2>1. CASE g # f \/ fetch[g].state \in {"emit", "check"}
    <3>1. PICK x \in {"top", "emit", "check"} :
            fetch' = [fetch EXCEPT ![f].state = x]
      BY <1>6 DEF FetchHandle
    <3> QED
      BY <1>1, <2>1, <3>1 DEF FetchState
  <2>2. CASE g = f /\ fetch[g].state = "top"
    <3>1. /\ UpdatePagesFromPageData(fetch[g].got)
          /\ fetch' = [fetch EXCEPT ![g].state = "emit"]
      BY <1>6, <2>2 DEF FetchHandle
    <3>2. fetch'[g].got = fetch[g].got /\ fetch[g].got \in Versions
      BY <3>1 DEF FetchState
    <3>3. S \subseteq Got(served') /\ UNCHANGED cached
      BY <3>1, <3>2, UpdateLists DEF UpdatePagesFromPageData
    <3>4. S \subseteq cached
      BY <2>2 DEF UpdatesCached
    <3> QED
      BY <3>2, <3>3, <3>4 DEF Listed, Got
  <2>3. CASE g = f /\ fetch[g].state = "cache"
    BY <1>6, <2>3 DEF FetchHandle, FetchState
  <2> QED
    BY <1>6, <2>1, <2>2, <2>3 DEF FetchHandle
<1>7. ASSUME NEW f \in Fetches, checkAndTriggerInitialLoadCompleted(f)
      PROVE  Listed(Got(fetch'[g].got), cached', served', phase')
  BY <1>1, <1>7 DEF checkAndTriggerInitialLoadCompleted, FetchState
<1>8. ASSUME NEW h \in Handlers, HandlerStep(h)
      PROVE  Listed(Got(fetch'[g].got), cached', served', phase')
  BY <1>1, <1>8 DEF HandlerStep
<1> QED
  BY <1>2, <1>3, <1>4, <1>5, <1>6, <1>7, <1>8, StepKinds

\* A tier that completes adds its name.
LEMMA CompletedNamesStep ==
  TypeOK /\ FetchHasTier /\ CompletedNames /\ [Next]_vars => CompletedNames'
<1> SUFFICES ASSUME TypeOK, FetchHasTier, CompletedNames, [Next]_vars
    PROVE CompletedNames'
  OBVIOUS
<1> USE DEF CompletedNames, initVars
<1>1. CASE Aside \/ CancelCtx \/ Stop \/ EmitInitialized
  BY <1>1 DEF Aside, CancelCtx, Stop, EmitInitialized
<1>2. ASSUME NEW f \in Fetches, FetchHandle(f) PROVE CompletedNames'
  BY <1>2 DEF FetchHandle
<1>3. ASSUME NEW f \in Fetches, checkAndTriggerInitialLoadCompleted(f)
      PROVE  CompletedNames'
  BY <1>3 DEF checkAndTriggerInitialLoadCompleted
<1>4. ASSUME NEW h \in Handlers, HandlerStep(h) PROVE CompletedNames'
  BY <1>4 DEF HandlerStep
<1> QED
  BY <1>1, <1>2, <1>3, <1>4, StepKinds

\* The tiers that have completed and the state of the event are changed by
\* the check and by the event's goroutine only.
LEMMA LoadedStays ==
  ASSUME TypeOK, FetchHasTier, [Next]_vars, ~EmitInitialized,
         \A f \in Fetches : ~checkAndTriggerInitialLoadCompleted(f)
  PROVE  UNCHANGED initVars
<1>1. CASE Aside \/ CancelCtx \/ Stop
  BY <1>1 DEF Aside, CancelCtx, Stop
<1>2. CASE \E f \in Fetches : FetchHandle(f)
  BY <1>2 DEF FetchHandle
<1>3. CASE \E h \in Handlers : HandlerStep(h)
  BY <1>3 DEF HandlerStep
<1> QED
  BY <1>1, <1>2, <1>3, StepKinds

\* The names that have completed are those of all tiers, each of its own,
\* only when all tiers have completed.
LEMMA AllCompleteLoaded ==
  ASSUME NEW S \in SUBSET Tiers
  PROVE  AllComplete({Name[t] : t \in S}) <=> S = Tiers /\ DistinctNames
  BY DEF AllComplete, DistinctNames

\* A tier that completes has its pages listed, and keeps them so.
LEMMA FirstIsListedStep ==
  /\ TypeOK /\ FetchHasTier /\ FinalIsListed /\ CompletedNames /\ FirstIsListed
  /\ [Next]_vars
  => FirstIsListed'
<1> SUFFICES ASSUME TypeOK, FetchHasTier, FinalIsListed, CompletedNames,
                    FirstIsListed, [Next]_vars
    PROVE FirstIsListed'
  OBVIOUS
<1>1. \A t \in loaded : Listed(first[t], cached', served', phase')
  BY ListedStays DEF FirstIsListed
<1>2. CASE UNCHANGED initVars
  BY <1>1, <1>2 DEF FirstIsListed, DistinctNames, initVars, Listed, Got
<1>3. CASE EmitInitialized
  <2>1. UNCHANGED <<loaded, first>> /\ initialized # "no"
    BY <1>3 DEF EmitInitialized
  <2> QED
    BY <1>1, <2>1 DEF FirstIsListed, DistinctNames, Listed, Got
<1>4. ASSUME NEW f \in Fetches, checkAndTriggerInitialLoadCompleted(f)
      PROVE  FirstIsListed'
  <2> DEFINE t == fetch[f].tier
  <2>1. /\ loaded' = loaded \cup {t}
        /\ first' = [first EXCEPT ![t] = IF t \in loaded THEN @ ELSE Got(fetch[f].got)]
        /\ initialized' = IF initialized = "no" /\ AllComplete(completed')
                          THEN "spawned" ELSE initialized
        /\ UNCHANGED <<phase, cached, served>>
    BY <1>4 DEF checkAndTriggerInitialLoadCompleted, dataVars
  <2>2. t \in Tiers /\ first \in [Tiers -> SUBSET Pages] /\ loaded' \subseteq Tiers
    BY <1>4, <2>1 DEF checkAndTriggerInitialLoadCompleted, TypeOK, FetchHasTier
  <2>3. Listed(Got(fetch[f].got), cached, served, phase)
    BY <1>4 DEF checkAndTriggerInitialLoadCompleted, FinalIsListed
  <2>4. \A u \in loaded' : Listed(first'[u], cached, served, phase)
    BY <2>1, <2>2, <2>3 DEF FirstIsListed
  <2>5. completed' = {Name[u] : u \in loaded'}
    BY CompletedNamesStep DEF CompletedNames
  <2>6. AllComplete(completed') => loaded' = Tiers /\ DistinctNames
    BY <2>2, <2>5, AllCompleteLoaded
  <2>7. initialized' # "no" => loaded' = Tiers /\ DistinctNames
    BY <2>1, <2>2, <2>6 DEF FirstIsListed
  <2> QED
    BY <2>1, <2>4, <2>7 DEF FirstIsListed, DistinctNames, Listed, Got
<1> QED
  BY <1>2, <1>3, <1>4, LoadedStays

\* The last tier to complete spawns the event, if names tell tiers apart.
LEMMA InitializedWhenCompleteStep ==
  /\ TypeOK /\ FetchHasTier /\ CompletedNames /\ [Next]_vars
  /\ DistinctNames /\ InitializedWhenComplete
  => InitializedWhenComplete'
<1> SUFFICES ASSUME TypeOK, FetchHasTier, CompletedNames, [Next]_vars,
                    DistinctNames, InitializedWhenComplete
    PROVE InitializedWhenComplete'
  OBVIOUS
<1> USE DEF InitializedWhenComplete
<1>1. CASE UNCHANGED initVars
  BY <1>1 DEF initVars
<1>2. CASE EmitInitialized
  BY <1>2 DEF EmitInitialized
<1>3. ASSUME NEW f \in Fetches, checkAndTriggerInitialLoadCompleted(f),
             loaded' = Tiers
      PROVE  initialized' # "no"
  <2>1. completed' = {Name[t] : t \in loaded'}
    BY CompletedNamesStep DEF CompletedNames
  <2>2. AllComplete(completed')
    BY <1>3, <2>1, AllCompleteLoaded
  <2> QED
    BY <1>3, <2>2 DEF checkAndTriggerInitialLoadCompleted
<1> QED
  BY <1>1, <1>2, <1>3, LoadedStays

-----------------------------------------------------------------------------
\* IInv holds initially.
LEMMA InitIInv == Init => IInv
<1> SUFFICES ASSUME Init PROVE IInv
  OBVIOUS
<1>1. TypeOK
  <2>1. /\ fetch \in [Fetches -> FetchState] /\ handler \in [Handlers -> HandlerState]
        /\ stored \in [Names -> Versions] /\ served \in Versions
    BY StartStates DEF Init
  <2>2. 0 \in 0 .. NTiers /\ 0 \in 0 .. MaxResets
    BY MarketsAssumption
  <2> QED
    BY <2>1, <2>2 DEF Init, TypeOK
<1>2. FetchHasTier /\ MarkHasFetch
  BY DEF Init, FetchHasTier, MarkHasFetch, NoFetch
<1>3. UpdatesCached
  BY DEF Init, UpdatesCached, NoFetch, NoHandler
<1>4. ListedIsCached
  BY DEF Init, ListedIsCached, Got, NoPages
<1>5. ChangeIsAnnounced /\ FinalIsListed /\ CompletedNames /\ FirstIsListed
  BY DEF Init, ChangeIsAnnounced, FinalIsListed, CompletedNames, FirstIsListed,
         NoFetch
<1> QED
  BY <1>1, <1>2, <1>3, <1>4, <1>5 DEF IInv

\* IInv holds of every reachable state.
LEMMA Inductive == Spec => []IInv
<1>1. IInv /\ [Next]_vars => IInv'
  BY TypeOKStep, FetchHasTierStep, MarkHasFetchStep, CachedStep,
     ChangeIsAnnouncedStep, FinalIsListedStep, CompletedNamesStep,
     FirstIsListedStep DEF IInv
<1> QED
  BY <1>1, InitIInv, PTL DEF Spec

\* Type correctness of the markets updater.
THEOREM TypeCorrect == Spec => []TypeOK
  BY Inductive, PTL DEF IInv

\* A name is marked as updating only while a fetch of one of its tiers is
\* under way, whatever resets and fetches run beside each other.
THEOREM MarksAreCleared == Spec => []MarkHasFetch
  BY Inductive, PTL DEF IInv

\* Every page that TopIdsManager lists has had its tokens cached before.
THEOREM ListingsAreCached == Spec => []ListedIsCached
  BY Inductive, PTL DEF IInv

\* While the service runs, every change of the listed pages has an Emit to
\* come.
THEOREM ChangesAreAnnounced == Spec => []ChangeIsAnnounced
  BY Inductive, PTL DEF IInv

\* The initialized event finds every tier completed, cached and listed.
THEOREM EventFindsAllTiers == Spec => []InitializedComplete
<1>1. IInv => InitializedComplete
  BY DEF IInv, FirstIsListed, InitializedComplete, Listed
<1> QED
  BY <1>1, Inductive, PTL

\* With names that tell the tiers apart the last tier to complete triggers
\* the initialized event; with a name that two tiers share, which
\* validateTiers accepts, the event never comes, whatever completes: it is
\* the number of names that is compared with the number of tiers.
THEOREM EventIsTriggered ==
  Spec => [](IF DistinctNames THEN InitializedWhenComplete ELSE initialized = "no")
<1> DEFINE Triggered ==
             IF DistinctNames THEN InitializedWhenComplete ELSE initialized = "no"
<1>1. Init => Triggered
  <2>1. 1 \in Tiers
    BY MarketsAssumption DEF Tiers
  <2> QED
    BY <2>1 DEF Init, InitializedWhenComplete
<1>2. IInv /\ Triggered /\ [Next]_vars /\ IInv' => Triggered'
  <2> SUFFICES ASSUME IInv, Triggered, [Next]_vars, IInv'
      PROVE Triggered'
    OBVIOUS
  <2>1. CASE DistinctNames
    BY <2>1, InitializedWhenCompleteStep DEF IInv, DistinctNames
  <2>2. CASE ~DistinctNames
    BY <2>2 DEF IInv, FirstIsListed, DistinctNames
  <2> QED
    BY <2>1, <2>2
<1> QED
  BY <1>1, <1>2, Inductive, PTL DEF Spec
=============================================================================
