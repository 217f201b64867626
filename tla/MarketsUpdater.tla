--------------------------- MODULE MarketsUpdater ---------------------------
(***************************************************************************)
(* coingecko_markets: the tiers of periodic_updater.go, each a range of    *)
(* pages, the goroutines that fetch one tier each page by page, and        *)
(* service.go's handler of what they fetch, which runs on a goroutine of   *)
(* its own for each page and once more, for all of them, on the fetch.     *)
(*                                                                         *)
(* The listing of the API moves at any time and is abstracted to its       *)
(* version: a page is the version of the listing it was cut from, 0 for a  *)
(* page that is not there.                                                 *)
(* Time is abstracted to what the check tells apart: a tier is due, and an *)
(* update is stuck, or not.                                                *)
(***************************************************************************)
EXTENDS Integers

CONSTANTS NTiers,      \* the tiers of the configuration are 1 .. NTiers
          NPages,      \* their pages are within 1 .. NPages
          Names,       \* the names tiers have
          Name,        \* Name[t]: its name; validateTiers lets tiers share one
          PageFrom,    \* PageFrom[t], PageTo[t]: its range of pages
          PageTo,
          Fetches,     \* names for the fetch goroutines
          Handlers,    \* names for the goroutines that handle one page
          MaxVersion,  \* the versions of the listing are 1 .. MaxVersion
          MaxResets    \* bound on the pending resets of one name

Tiers == 1 .. NTiers
Pages == 1 .. NPages

ASSUME MarketsAssumption ==
  /\ NTiers \in Nat \ {0} /\ NPages \in Nat
  /\ MaxVersion \in Nat \ {0} /\ MaxResets \in Nat
  /\ Name \in [Tiers -> Names]
  /\ PageFrom \in [Tiers -> Pages] /\ PageTo \in [Tiers -> Pages]
  /\ \A t \in Tiers : PageFrom[t] <= PageTo[t]

VARIABLES phase,       \* "running", "cancelled" by main, "cleared" by Stop
          due,         \* names whose Timestamp is an UpdateInterval old
          mark,        \* mark[n]: UpdateStartTime is nil, recent or too old
          stored,      \* stored[n]: the pages in cache.tiers[n].Data
          next,        \* the tier the scheduler's check looks at next, or 0
          resets,      \* resets[n]: spawned `go setTierUpdateStartTime(n, nil)`
          fetch,       \* fetch[f]: a fetchAndUpdateTier goroutine
          handler,     \* handler[h]: a `go onUpdateTierPages` goroutine
          cached,      \* pages written to the service's cache at least once
          served,      \* TopIdsManager.pageToIds
          unannounced, \* history: served was updated since the last Emit
          completed,   \* initialLoad.completedTiers
          loaded,      \* history: the tiers that have completed a fetch
          first,       \* history: first[t]: the pages t first completed with
          initialized  \* allCompleted and its goroutine: "no", "spawned", "emitted"

tierVars == <<due, mark, stored, resets>>
dataVars == <<cached, served, unannounced>>
initVars == <<completed, loaded, first, initialized>>
vars == <<phase, tierVars, next, fetch, handler, dataVars, initVars>>

NoPages == [p \in Pages |-> 0]
NoFetch == [state |-> "idle", tier |-> 0, page |-> 0, got |-> NoPages]
NoHandler == [state |-> "idle", pages |-> NoPages]
Got(pages) == {p \in Pages : pages[p] # 0}

\* A name without an entry is like one with a zero Timestamp: due.
Init ==
  /\ phase = "running"
  /\ due = Names
  /\ mark = [n \in Names |-> "none"]
  /\ stored = [n \in Names |-> NoPages]
  /\ next = 0
  /\ resets = [n \in Names |-> 0]
  /\ fetch = [f \in Fetches |-> NoFetch]
  /\ handler = [h \in Handlers |-> NoHandler]
  /\ cached = {}
  /\ served = NoPages
  /\ unannounced = FALSE
  /\ completed = {}
  /\ loaded = {}
  /\ first = [t \in Tiers |-> {}]
  /\ initialized = "no"

-----------------------------------------------------------------------------
(* The environment: time passes, the process is told to stop.              *)

BecomeDue(n) ==
  /\ n \notin due
  /\ due' = due \cup {n}
  /\ UNCHANGED <<phase, mark, stored, resets, next, fetch, handler,
                 dataVars, initVars>>

\* With MaxResets = 0 no update takes that long.
GetStuck(n) ==
  /\ mark[n] = "recent" /\ MaxResets > 0
  /\ mark' = [mark EXCEPT ![n] = "stuck"]
  /\ UNCHANGED <<phase, due, stored, resets, next, fetch, handler,
                 dataVars, initVars>>

CancelCtx ==
  /\ phase = "running"
  /\ phase' = "cancelled"
  /\ UNCHANGED <<tierVars, next, fetch, handler, dataVars, initVars>>

\* Stop: the scheduler's loop has ended, its task and the fetches need not.
Stop ==
  /\ phase = "cancelled"
  /\ phase' = "cleared"
  /\ served' = NoPages
  /\ UNCHANGED <<tierVars, next, fetch, handler, cached, unannounced,
                 initVars>>

-----------------------------------------------------------------------------
(* checkAndUpdateTiers                                                     *)

CheckBegin ==
  /\ next = 0 /\ phase # "cleared"
  /\ next' = 1
  /\ UNCHANGED <<phase, tierVars, fetch, handler, dataVars, initVars>>

shouldUpdate(n) == mark[n] # "recent" /\ n \in due

\* The check is slow to spawn when every name in Fetches is in use.
Spawn(t) ==
  \E f \in Fetches :
    /\ fetch[f] = NoFetch
    /\ fetch' = [fetch EXCEPT ![f] = [state |-> "spawned", tier |-> t,
                                      page |-> 0, got |-> NoPages]]

CheckTier ==
  LET t == next
      n == Name[t]
      stuck == mark[n] = "stuck"
  IN /\ t # 0 /\ (stuck => resets[n] < MaxResets)
     /\ next' = IF t = NTiers THEN 0 ELSE t + 1
     /\ resets' = [resets EXCEPT ![n] = IF stuck THEN @ + 1 ELSE @]
     /\ \/ shouldUpdate(n) /\ Spawn(t)
        \/ ~shouldUpdate(n) /\ UNCHANGED fetch
     /\ UNCHANGED <<phase, due, mark, stored, handler, dataVars, initVars>>

Reset(n) ==
  /\ resets[n] > 0
  /\ resets' = [resets EXCEPT ![n] = @ - 1]
  /\ mark' = [mark EXCEPT ![n] = "none"]
  /\ UNCHANGED <<phase, due, stored, next, fetch, handler, dataVars,
                 initVars>>

-----------------------------------------------------------------------------
(* handleTierPagesUpdate(pages), a step for each of the stores it writes:  *)
(* the cache, by token and by page; TopIdsManager; the subscribers.        *)

\* Mutant: the cache refuses the tokens, the handler logs it and goes on.
CachePagesFailing(pages) ==
  UNCHANGED dataVars

CachePages(pages) ==
  cached' = cached \cup Got(pages) /\ UNCHANGED <<served, unannounced>>

UpdatePagesFromPageData(pages) ==
  /\ served' = [p \in Pages |-> IF pages[p] # 0 THEN pages[p] ELSE served[p]]
  /\ unannounced' = TRUE
  /\ UNCHANGED cached

\* With a cancelled context Emit may return before it reaches a subscriber.
Emit ==
  /\ unannounced' \in IF phase = "running" THEN {FALSE} ELSE {FALSE, unannounced}
  /\ UNCHANGED <<cached, served>>

\* A page spawns its handler; the extra ids' one has no pages to list.  When
\* every name in Handlers is in use the spawn is left out.
SpawnHandler(state, pages) ==
  \/ \E h \in Handlers :
       /\ handler[h] = NoHandler
       /\ handler' = [handler EXCEPT ![h] = [state |-> state, pages |-> pages]]
  \/ (\A h \in Handlers : handler[h] # NoHandler) /\ UNCHANGED handler

HandlerStep(h) ==
  /\ \/ /\ handler[h].state = "cache" /\ CachePages(handler[h].pages)
        /\ handler' = [handler EXCEPT ![h].state = "top"]
     \/ /\ handler[h].state = "top"
        /\ UpdatePagesFromPageData(handler[h].pages)
        /\ handler' = [handler EXCEPT ![h] = [state |-> "emit", pages |-> NoPages]]
     \/ /\ handler[h].state = "emit" /\ Emit
        /\ handler' = [handler EXCEPT ![h] = NoHandler]
  /\ UNCHANGED <<phase, tierVars, next, fetch, initVars>>

-----------------------------------------------------------------------------
(* fetchAndUpdateTier                                                      *)

FetchMark(f) ==
  LET t == fetch[f].tier IN
  /\ fetch[f].state = "spawned"
  /\ mark' = [mark EXCEPT ![Name[t]] = "recent"]
  /\ fetch' = [fetch EXCEPT ![f] = [state |-> "page", tier |-> t,
                                    page |-> PageFrom[t], got |-> NoPages]]
  /\ UNCHANGED <<phase, due, stored, resets, next, handler, dataVars,
                 initVars>>

\* FetchPages: a page arrives, cut from the listing as it is by now, and
\* onPage hands it to a goroutine.
FetchPage(f) ==
  LET t == fetch[f].tier
      p == fetch[f].page
  IN /\ fetch[f].state = "page"
     /\ \E v \in 1 .. MaxVersion :
          /\ SpawnHandler("cache", [NoPages EXCEPT ![p] = v])
          /\ fetch' = [fetch EXCEPT ![f] =
                         [state |-> IF p < PageTo[t] THEN "page" ELSE "store",
                          tier |-> t, page |-> p + 1,
                          got |-> [fetch[f].got EXCEPT ![p] = v]]]
     /\ UNCHANGED <<phase, tierVars, next, dataVars, initVars>>

\* An empty page ends the listing.
FetchEmptyPage(f) ==
  /\ fetch[f].state = "page"
  /\ fetch' = [fetch EXCEPT ![f].state = "store"]
  /\ UNCHANGED <<phase, tierVars, next, handler, dataVars, initVars>>

\* handlePagesError: the pages fetched so far, if any, are a success.
FetchError(f) ==
  /\ fetch[f].state = "page"
  /\ fetch' = [fetch EXCEPT ![f].state =
                 IF Got(fetch[f].got) # {} THEN "store" ELSE "return"]
  /\ UNCHANGED <<phase, tierVars, next, handler, dataVars, initVars>>

\* The new entry has a fresh Timestamp and no UpdateStartTime.
FetchStore(f) ==
  LET n == Name[fetch[f].tier] IN
  /\ fetch[f].state = "store"
  /\ stored' = [stored EXCEPT ![n] = fetch[f].got]
  /\ due' = due \ {n}
  /\ mark' = [mark EXCEPT ![n] = "none"]
  /\ fetch' = [fetch EXCEPT ![f].state = "extra"]
  /\ UNCHANGED <<phase, resets, next, handler, dataVars, initVars>>

\* fetchMissingExtraIds: a chunk that arrives, if any does, is cached by id
\* and announced on a goroutine of its own.
FetchExtra(f) ==
  /\ fetch[f].state = "extra"
  /\ fetch' = [fetch EXCEPT ![f].state = "cache"]
  /\ UNCHANGED handler \/ SpawnHandler("emit", NoPages)
  /\ UNCHANGED <<phase, tierVars, next, dataVars, initVars>>

\* Mutant: the final update is left to the handlers of the pages.
FetchHandleNothing(f) ==
  /\ fetch[f].state \in {"cache", "top", "emit"}
  /\ fetch' = [fetch EXCEPT ![f].state = "check"]
  /\ UNCHANGED <<phase, tierVars, next, handler, dataVars, initVars>>

\* Mutant: the final update is not announced.
FetchHandleSilent(f) ==
  /\ \/ /\ fetch[f].state = "cache" /\ CachePages(fetch[f].got)
        /\ fetch' = [fetch EXCEPT ![f].state = "top"]
     \/ /\ fetch[f].state = "top" /\ UpdatePagesFromPageData(fetch[f].got)
        /\ fetch' = [fetch EXCEPT ![f].state = "check"]
  /\ UNCHANGED <<phase, tierVars, next, handler, initVars>>

\* The final call of handleTierPagesUpdate, with all the pages.
FetchHandle(f) ==
  /\ \/ /\ fetch[f].state = "cache" /\ CachePages(fetch[f].got)
        /\ fetch' = [fetch EXCEPT ![f].state = "top"]
     \/ /\ fetch[f].state = "top" /\ UpdatePagesFromPageData(fetch[f].got)
        /\ fetch' = [fetch EXCEPT ![f].state = "emit"]
     \/ /\ fetch[f].state = "emit" /\ Emit
        /\ fetch' = [fetch EXCEPT ![f].state = "check"]
  /\ UNCHANGED <<phase, tierVars, next, handler, initVars>>

\* Mutant: one tier is enough.
AnyComplete(names) ==
  /\ \E t \in Tiers : Name[t] \in names
  /\ \A t, u \in Tiers : Name[t] = Name[u] => t = u

\* completedTiers is a set of names: it has as many elements as the
\* configuration has tiers only when no two tiers share a name.
AllComplete(names) ==
  /\ \A t \in Tiers : Name[t] \in names
  /\ \A t, u \in Tiers : Name[t] = Name[u] => t = u

\* Mutant: the tier that completes is added after the check.
checkBeforeAdding(f) ==
  LET t == fetch[f].tier IN
  /\ fetch[f].state = "check"
  /\ completed' = completed \cup {Name[t]}
  /\ loaded' = loaded \cup {t}
  /\ first' = [first EXCEPT ![t] = IF t \in loaded THEN @ ELSE Got(fetch[f].got)]
  /\ initialized' = IF initialized = "no" /\ AllComplete(completed)
                    THEN "spawned" ELSE initialized
  /\ fetch' = [fetch EXCEPT ![f].state = "return"]
  /\ UNCHANGED <<phase, tierVars, next, handler, dataVars>>

checkAndTriggerInitialLoadCompleted(f) ==
  LET t == fetch[f].tier IN
  /\ fetch[f].state = "check"
  /\ completed' = completed \cup {Name[t]}
  /\ loaded' = loaded \cup {t}
  /\ first' = [first EXCEPT ![t] = IF t \in loaded THEN @ ELSE Got(fetch[f].got)]
  /\ initialized' = IF initialized = "no" /\ AllComplete(completed')
                    THEN "spawned" ELSE initialized
  /\ fetch' = [fetch EXCEPT ![f].state = "return"]
  /\ UNCHANGED <<phase, tierVars, next, handler, dataVars>>

\* handleInitialLoadCompleted, on its own goroutine.
EmitInitialized ==
  /\ initialized = "spawned"
  /\ initialized' = "emitted"
  /\ UNCHANGED <<phase, tierVars, next, fetch, handler, dataVars,
                 completed, loaded, first>>

\* Mutant: no deferred call.
FetchReturnMarked(f) ==
  /\ fetch[f].state = "return"
  /\ fetch' = [fetch EXCEPT ![f] = NoFetch]
  /\ UNCHANGED <<phase, tierVars, next, handler, dataVars, initVars>>

FetchReturn(f) ==
  /\ fetch[f].state = "return"
  /\ mark' = [mark EXCEPT ![Name[fetch[f].tier]] = "none"]
  /\ fetch' = [fetch EXCEPT ![f] = NoFetch]
  /\ UNCHANGED <<phase, due, stored, resets, next, handler, dataVars,
                 initVars>>

-----------------------------------------------------------------------------
FetchStep(f) ==
  \/ FetchMark(f) \/ FetchPage(f) \/ FetchEmptyPage(f) \/ FetchError(f)
  \/ FetchStore(f) \/ FetchExtra(f) \/ FetchHandle(f)
  \/ checkAndTriggerInitialLoadCompleted(f) \/ FetchReturn(f)

Next ==
  \/ CancelCtx \/ Stop
  \/ CheckBegin \/ CheckTier \/ EmitInitialized
  \/ \E n \in Names : BecomeDue(n) \/ GetStuck(n) \/ Reset(n)
  \/ \E f \in Fetches : FetchStep(f)
  \/ \E h \in Handlers : HandlerStep(h)

\* Runnable goroutines run, requests end, time passes, the scheduler keeps
\* calling its task, and of the requests of a tier's pages not all fail or
\* find the page empty.
Fairness ==
  /\ WF_vars(CheckBegin) /\ WF_vars(CheckTier) /\ WF_vars(EmitInitialized)
  /\ \A n \in Names : WF_vars(BecomeDue(n)) /\ WF_vars(Reset(n))
  /\ \A f \in Fetches : WF_vars(FetchStep(f))
  /\ \A h \in Handlers : WF_vars(HandlerStep(h))
  /\ \A t \in Tiers : SF_vars(\E f \in Fetches : fetch[f].tier = t /\ FetchPage(f))

Spec == Init /\ [][Next]_vars

\* The service while nobody stops it.
RunningSpec == Init /\ [][Next /\ phase' = "running"]_vars
FairSpec == RunningSpec /\ Fairness

-----------------------------------------------------------------------------
Versions == [Pages -> 0 .. MaxVersion]
FetchState == [state : {"idle", "spawned", "page", "store", "extra", "cache",
                        "top", "emit", "check", "return"},
               tier : 0 .. NTiers, page : 0 .. NPages + 1, got : Versions]
HandlerState == [state : {"idle", "cache", "top", "emit"}, pages : Versions]

TypeOK ==
  /\ phase \in {"running", "cancelled", "cleared"}
  /\ due \subseteq Names
  /\ mark \in [Names -> {"none", "recent", "stuck"}]
  /\ stored \in [Names -> Versions]
  /\ next \in 0 .. NTiers
  /\ resets \in [Names -> 0 .. MaxResets]
  /\ fetch \in [Fetches -> FetchState]
  /\ handler \in [Handlers -> HandlerState]
  /\ cached \subseteq Pages
  /\ served \in Versions
  /\ unannounced \in BOOLEAN
  /\ completed \subseteq Names
  /\ loaded \subseteq Tiers
  /\ first \in [Tiers -> SUBSET Pages]
  /\ initialized \in {"no", "spawned", "emitted"}

\* When the initialized event is spawned every tier has completed a fetch,
\* and the pages of that fetch are listed by TopIdsManager (until Stop clears
\* it) with their tokens in the cache before: whoever reads the top ids on
\* that event finds all tiers in it, in whatever order the per-page handlers
\* ran.
InitializedComplete ==
  initialized # "no" =>
    \A t \in Tiers :
      /\ t \in loaded
      /\ first[t] \subseteq cached
      /\ phase # "cleared" => first[t] \subseteq Got(served)

\* A page is listed only after its tokens were written to the cache.
ListedIsCached == Got(served) \subseteq cached

\* A change of the listed pages is never left without an Emit to come: some
\* handler, on the fetch or on its own, is between its update and its Emit.
ChangeIsAnnounced ==
  unannounced /\ phase = "running" =>
    \/ \E f \in Fetches : fetch[f].state = "emit"
    \/ \E h \in Handlers : handler[h].state = "emit"

\* A name is marked as updating only while a fetch of a tier of that name is
\* between its first call and its deferred one: no error path, and no other
\* fetch, reset or tier of the same name, leaves a mark that stays.
MarkHasFetch ==
  \A n \in Names : mark[n] # "none" =>
    \E f \in Fetches : /\ fetch[f].state \notin {"idle", "spawned"}
                       /\ Name[fetch[f].tier] = n

\* "will be called when all tiers complete their initial load"
\* (periodic_updater.go:70): when every tier of the configuration has
\* completed a fetch, the event is on its way or out.
InitializedWhenComplete == loaded = Tiers => initialized # "no"

\* The initialized event is emitted in the end, however often fetches of a
\* tier fail before one succeeds, as long as the service is not stopped.
InitializedEventually == <>(initialized = "emitted")
=============================================================================
