------------------------------ MODULE Pipeline ------------------------------
(***************************************************************************)
(* The services composed, as core/composition_root.go and main.go do it:   *)
(* main starts them one after the other and, once all run, waits for a     *)
(* signal to stop them in the reverse order.  A service that starts        *)
(* subscribes to the events of others: tokens wake markets and prices,     *)
(* markets wake prices and the leaderboard, prices the leaderboard.        *)
(*                                                                         *)
(* Each service is kept to what the others see of it: the version of the   *)
(* data it publishes.  Storing and Emit are one step here and a watcher's  *)
(* callback is one step that reads the newest version: what may come       *)
(* between is in module Events, which implements Notification for all of   *)
(* it.  An update of prices is one of all tiers; the tiers and their marks *)
(* are in module PricesUpdater, the cache in PricesService.                *)
(***************************************************************************)
EXTENDS Integers, Sequences

CONSTANTS Platforms,  \* supported platforms of the token lists
          MaxVersion  \* bound: MaxVersion[s] is the last version of source s

Services == <<"cache", "tokens", "tokenList", "markets", "coins", "prices",
              "marketChart", "platforms", "leaderboard", "server">>

(* The subscriptions a service makes when it starts, in this order         *)
WatchersOf(service) ==
    CASE service = "markets" -> <<"markets.tokens">>
      [] service = "prices" -> <<"prices.markets", "prices.initialized", "prices.tokens">>
      [] service = "leaderboard" -> <<"leaderboard.markets", "leaderboard.prices">>
      [] OTHER -> <<>>

(* Event of a watcher, by what it is about                                 *)
WatchersFor(event) ==
    CASE event = "tokens" -> {"markets.tokens", "prices.tokens"}
      [] event = "markets" -> {"prices.markets", "leaderboard.markets"}
      [] event = "initialized" -> {"prices.initialized"}
      [] event = "prices" -> {"leaderboard.prices"}

Sources == {"tokens", "markets", "prices"}
Events == Sources \cup {"initialized"}
Watchers == UNION {WatchersFor(e) : e \in Events}
EventOf(w) == CHOOSE e \in Events : w \in WatchersFor(e)
Provider(w) == IF EventOf(w) = "initialized" THEN "markets" ELSE EventOf(w)

(* The updates that run beside each other: forced is the one that the      *)
(* initialized event triggers.                                             *)
PriceUpdates == {"periodic", "forced"}

ASSUME PipelineAssumption == MaxVersion \in [{"tokens", "markets"} -> Nat \ {0}]

VARIABLES phase,       \* of main
          at,          \* index of the service that main starts or stops next
          up,          \* services that are started and not stopped
          sub,         \* sub[w]: the state of subscription w
          token,       \* token[w]: its channel holds a notification
          seen,        \* seen[w]: the version its last callback has read
          version,     \* version[s]: what source s serves.  For prices: the
                       \* newest market list all of whose prices are cached
          basis,       \* basis[u]: the market list that update u of prices fetches, or 0
          initialized, \* the initialized event has been emitted
          lists        \* platforms whose token list is served

mainVars == <<phase, at, up>>
subVars == <<sub, token, seen>>
updateVars == <<version, basis, initialized, lists>>
pipelineVars == <<mainVars, subVars, updateVars>>

Running == phase \in {"starting", "running"}
Listening(w) == sub[w] \in {"subscribed", "watching"}

PipelineInit ==
    /\ phase = "starting" /\ at = 1 /\ up = {}
    /\ sub = [w \in Watchers |-> "none"]
    /\ token = [w \in Watchers |-> FALSE]
    /\ seen = [w \in Watchers |-> 0]
    /\ version = [s \in Sources |-> 0]
    /\ basis = [u \in PriceUpdates |-> 0]
    /\ initialized = FALSE
    /\ lists = {}

-----------------------------------------------------------------------------
(* main                                                                    *)

(* w is the next subscription of the service that main starts              *)
ToSubscribe(w) ==
    LET watchers == WatchersOf(Services[at])
        made(n) == sub[watchers[n]] \notin {"none", "subscribed"}
    IN /\ phase = "starting"
       /\ \E n \in DOMAIN watchers :
            w = watchers[n] /\ ~made(n) /\ \A m \in 1..n - 1 : made(m)

Subscribe ==
    \E w \in Watchers :
        /\ ToSubscribe(w) /\ sub[w] = "none"
        /\ sub' = [sub EXCEPT ![w] = "subscribed"]
        /\ UNCHANGED <<mainVars, token, seen, updateVars>>

(* Mutant: Watch leaves the first call to the first event *)
WatchWithoutCall ==
    \E w \in Watchers :
        /\ ToSubscribe(w) /\ sub[w] = "subscribed"
        /\ sub' = [sub EXCEPT ![w] = "watching"]
        /\ UNCHANGED <<mainVars, token, seen, updateVars>>

(* Watch calls the callback at once, on main's goroutine, except for the   *)
(* initialized event, and then starts the goroutine that waits.            *)
Watch ==
    \E w \in Watchers :
        /\ ToSubscribe(w) /\ sub[w] = "subscribed"
        /\ sub' = [sub EXCEPT ![w] = "watching"]
        /\ IF EventOf(w) = "initialized" THEN UNCHANGED seen
           ELSE seen' = [seen EXCEPT ![w] = version[EventOf(w)]]
        /\ UNCHANGED <<mainVars, token, updateVars>>

StartService ==
    /\ phase = "starting" /\ ~\E w \in Watchers : ToSubscribe(w)
    /\ up' = up \cup {Services[at]}
    /\ IF at = Len(Services) THEN phase' = "running" /\ UNCHANGED at
                             ELSE at' = at + 1 /\ UNCHANGED phase
    /\ UNCHANGED <<subVars, updateVars>>

(* Validate refuses the tiers of coins or prices, which LoadConfig leaves  *)
(* to it, when the service has subscribed.  log.Fatal ends the process:    *)
(* nothing is stopped, no subscription cancelled.                          *)
StartFails ==
    /\ phase = "starting" /\ Services[at] \in {"coins", "prices"}
    /\ ~\E w \in Watchers : ToSubscribe(w)
    /\ phase' = "fatal"
    /\ UNCHANGED <<at, up, subVars, updateVars>>

(* From here on the context is cancelled.  What the updates and callbacks  *)
(* under way still do is left out: the server is stopped before anything   *)
(* else is, and nobody sees it.                                            *)
Signal ==
    /\ phase = "running"
    /\ phase' = "stopping"
    /\ token' = [w \in Watchers |-> FALSE]
    /\ basis' = [u \in PriceUpdates |-> 0]
    /\ UNCHANGED <<at, up, sub, seen, version, initialized, lists>>

Cancelled(watchers) ==
    /\ sub' = [w \in Watchers |->
                 IF w \in watchers /\ Listening(w) THEN "cancelled" ELSE sub[w]]
    /\ UNCHANGED <<token, seen>>

WatchersIn(service) == {w \in Watchers : \E n \in DOMAIN WatchersOf(service) :
                                            w = WatchersOf(service)[n]}

(* Stop empties the top ids, and the cache                                 *)
Emptied(service) ==
    IF service = "markets" THEN [version EXCEPT !["markets"] = 0]
    ELSE IF service = "cache" THEN [version EXCEPT !["prices"] = 0]
    ELSE version

Stop(service) ==
    /\ phase = "stopping"
    /\ up' = up \ {service}
    /\ Cancelled(WatchersIn(service))
    /\ version' = Emptied(service)
    /\ UNCHANGED <<basis, initialized, lists>>

(* Mutant: the services are stopped in the order in which they were started *)
StopAllInOrder ==
    /\ Stop(Services[Len(Services) + 1 - at])
    /\ IF at = 1 THEN phase' = "exited" /\ UNCHANGED at
                 ELSE at' = at - 1 /\ UNCHANGED phase

(* Mutant: the loop ends before the first service *)
StopAllButFirst ==
    /\ Stop(Services[at])
    /\ IF at = 2 THEN phase' = "exited" /\ UNCHANGED at
                 ELSE at' = at - 1 /\ UNCHANGED phase

StopAll ==
    /\ Stop(Services[at])
    /\ IF at = 1 THEN phase' = "exited" /\ UNCHANGED at
                 ELSE at' = at - 1 /\ UNCHANGED phase

-----------------------------------------------------------------------------
(* The sources                                                             *)

Emit(event) ==
    /\ token' = [w \in Watchers |->
                    token[w] \/ (w \in WatchersFor(event) /\ Listening(w))]
    /\ UNCHANGED <<sub, seen>>

Up(service) == Running /\ service \in up

(* The tokens, or pages of markets, are fetched; they may be what is there *)
(* already.                                                                *)
Publish(s) ==
    /\ Up(s)
    /\ \E v \in {version[s], version[s] + 1} :
         /\ v \in 1..MaxVersion[s]
         /\ version' = [version EXCEPT ![s] = v]
    /\ Emit(s)
    /\ UNCHANGED <<mainVars, basis, initialized, lists>>

onTokensUpdated == Publish("tokens")
handleTierPagesUpdate == Publish("markets")

(* Once, after pages of every tier have been published                     *)
handleInitialLoadCompleted ==
    /\ Up("markets") /\ version["markets"] > 0 /\ ~initialized
    /\ initialized' = TRUE
    /\ Emit("initialized")
    /\ UNCHANGED <<mainVars, version, basis, lists>>

(* An update takes the market list that the service was last told: without *)
(* one there is nothing to fetch.                                          *)
FetchPrices(u) == basis' = [basis EXCEPT ![u] = seen["prices.markets"]]

checkTopTiers ==
    /\ Up("prices") /\ basis["periodic"] = 0
    /\ FetchPrices("periodic")
    /\ UNCHANGED <<mainVars, subVars, version, initialized, lists>>

PricesFail(u) ==
    /\ Running /\ basis[u] > 0
    /\ basis' = [basis EXCEPT ![u] = 0]
    /\ UNCHANGED <<mainVars, subVars, version, initialized, lists>>

(* Prices of an older list take nothing away from those of a newer one     *)
handleTopPricesUpdate(u) ==
    /\ Running /\ basis[u] > 0
    /\ version' = [version EXCEPT !["prices"] = IF @ > basis[u] THEN @ ELSE basis[u]]
    /\ basis' = [basis EXCEPT ![u] = 0]
    /\ Emit("prices")
    /\ UNCHANGED <<mainVars, initialized, lists>>

(* The platforms are fetched one after the other; those that fail keep the *)
(* list they have.  Nobody subscribes to this update.                      *)
onTokenListsUpdated ==
    /\ Up("tokenList")
    /\ \E fetched \in SUBSET Platforms \ {{}} : lists' = lists \cup fetched
    /\ UNCHANGED <<mainVars, subVars, version, basis, initialized>>

-----------------------------------------------------------------------------
(* The watchers                                                            *)

Receive(w) ==
    /\ Running /\ sub[w] = "watching" /\ token[w]
    /\ token' = [token EXCEPT ![w] = FALSE]
    /\ UNCHANGED sub

See(w) ==
    /\ Receive(w)
    /\ seen' = [seen EXCEPT ![w] = version[EventOf(w)]]
    /\ UNCHANGED <<mainVars, updateVars>>

onTokenListChanged == See("markets.tokens") \/ See("prices.tokens")
onMarketListChanged == See("prices.markets")
LeaderboardMarkets == See("leaderboard.markets")
LeaderboardPrices == See("leaderboard.prices")

(* The event comes once.  If the list of ids has not arrived by then the   *)
(* forced update has nothing to fetch.                                     *)
ForceUpdate ==
    /\ Receive("prices.initialized")
    /\ FetchPrices("forced")
    /\ UNCHANGED <<mainVars, seen, version, initialized, lists>>

(* The context ends the goroutine, which cancels its subscription          *)
WatcherEnds(w) ==
    /\ phase = "stopping" /\ sub[w] = "watching"
    /\ Cancelled({w})
    /\ UNCHANGED <<mainVars, updateVars>>

-----------------------------------------------------------------------------
Main == Subscribe \/ Watch \/ StartService

PipelineNext ==
    \/ Main \/ StartFails \/ Signal \/ StopAll
    \/ onTokensUpdated \/ handleTierPagesUpdate \/ handleInitialLoadCompleted
    \/ checkTopTiers
    \/ \E u \in PriceUpdates : PricesFail(u) \/ handleTopPricesUpdate(u)
    \/ onTokenListsUpdated
    \/ onTokenListChanged \/ onMarketListChanged \/ LeaderboardMarkets \/ LeaderboardPrices
    \/ ForceUpdate
    \/ \E w \in Watchers : WatcherEnds(w)

PipelineSpec == PipelineInit /\ [][PipelineNext]_pipelineVars

(* Goroutines that can run do, and not all fetches of prices fail.  Tokens *)
(* and markets need not ever be fetched again.                             *)
PipelineFairSpec ==
    /\ PipelineSpec
    /\ WF_pipelineVars(Main)
    /\ WF_pipelineVars(checkTopTiers) /\ SF_pipelineVars(handleTopPricesUpdate("periodic"))
    /\ WF_pipelineVars(See("markets.tokens")) /\ WF_pipelineVars(See("prices.tokens"))
    /\ WF_pipelineVars(onMarketListChanged)
    /\ WF_pipelineVars(LeaderboardMarkets) /\ WF_pipelineVars(LeaderboardPrices)

-----------------------------------------------------------------------------
(***************************************************************************)
(* What CoinGecko ranks reaches the leaderboard, its markets and, through  *)
(* the prices, its quotes: although services start one after the other     *)
(* while the first ones have their updates under way, events are emitted   *)
(* to nobody before that, and the initialized event may find no list or no *)
(* subscriber.  No later fetch of markets is needed for it.                *)
(***************************************************************************)
MarketsReachLeaderboard ==
    \A v \in 1..MaxVersion["markets"] :
        version["markets"] >= v ~>
            \/ seen["leaderboard.markets"] >= v /\ seen["leaderboard.prices"] >= v
            \/ ~Running

(***************************************************************************)
(* The same for the tokens, the extra ids of markets and prices            *)
(***************************************************************************)
TokensReachUpdaters ==
    \A v \in 1..MaxVersion["tokens"] :
        version["tokens"] >= v ~>
            \/ seen["markets.tokens"] >= v /\ seen["prices.tokens"] >= v
            \/ ~Running

(***************************************************************************)
(* A service listens to others only while they are up: starting and        *)
(* stopping keep to the order of the dependencies, and Stop has cancelled  *)
(* its subscriptions when it returns.                                      *)
(***************************************************************************)
WatchersHaveProviders == \A w \in Watchers : Listening(w) => Provider(w) \in up

(***************************************************************************)
(* When main returns, on a signal, everything is stopped: no service, no   *)
(* subscription.  A start that fails does not return: phase "fatal".       *)
(***************************************************************************)
ExitIsClean ==
    phase = "exited" => up = {} /\ \A w \in Watchers : ~Listening(w)
=============================================================================
