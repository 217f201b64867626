# market-proxy in TLA+

TLA+ models of `market-fetcher`, the Go service of this repository that keeps
market data, prices and token lists of CoinGecko in memory and serves them.
TLC checks the models on small instances and TLAPS proves what matters most
for every size. Paths below are relative to `src/market-fetcher/`.

## The system

| component | state | operations | talks to |
|---|---|---|---|
| `events` | subscribers map, a one-slot channel for each, `sync.Once` | Subscribe, Watch, Cancel, Unsubscribe, Emit | every service: publishers store, then Emit; watchers' callbacks read what was stored |
| `scheduler` | running, the loop's context, `taskRunning` | Start, Stop, loop, task | periodic updaters run their check or fetch as its task |
| `coingecko_tokens`, `coingecko_token_list` | the last list | periodic fetch, store and Emit | tokens feed the extra ids of markets, prices and coins |
| `coingecko_markets` | tiers (data, timestamp, mark), initial load, top ids, cache entries | check of tiers, page fetch, page handlers, initialized event, requests | the updates wake prices and leaderboard; the initialized event forces prices |
| `coingecko_prices` | tiers, top market ids, extra ids, cache entries | check of tiers, forced check, chunked fetch, requests | reads the top ids of markets, wakes leaderboard |
| `coingecko_leaderboard` | top markets, top quotes | reload on each event | reads markets and prices |
| `fetcher_by_id`, `coingecko_coins` | tier states, cache entries | check of tiers, single and batch fetch | ids of the markets and the tokens |
| `coingecko_market_chart` | cache entries | round a request up, fetch, strip the response | cache, API keys |
| `coingecko_common` | key failures, limiters | keys in backoff, attempts, limiters, chunks | every API client |
| `cache` | go-cache with expiry | Get, Set, GetOrLoad, Clear | every service |
| `core`, `main` | the services in order | Setup, StartAll, StopAll | lifecycle of all |
| `api` | none of its own | the handlers of requests | reads every service |
| assets platforms, `config` | none of their own | one request; parsing | the HTTP client; start |
| `metrics`, nginx, dashboards, test page | none the service reads back | | not modelled |

What is hard in it: every update is a goroutine. A check spawns a fetch for
each due tier and goes on; a fetch spawns a callback for each page or chunk;
events are coalesced in channels of one slot; marks that say "being updated"
are set by the spawned goroutine and not by the check, cleared early, reset by
a stuck detector; Stop waits for loops and not for tasks; contexts are
cancelled at any point; requests fail after some pages have arrived.

What makes the components correct:

* events: no watcher stays behind the newest state, no send on a closed
  channel, a cancelled subscription is gone;
* scheduler: one loop, one task at a time, nothing spawned after Stop, Stop
  returns, the task recurs;
* updaters: no way out of a fetch leaves a tier marked, nothing but a served
  request counts as a refresh, every tier is requested again and again;
* markets: what is listed is cached and announced, the initialized event comes
  once all tiers are listed, and does come;
* top ids: the list is the pages in order without duplicates;
* prices: what was fetched is stored, and never older than the oldest fetch
  that ran beside; the leaderboard ends up with what is stored;
* requests: full, partial and miss agree with what the cache held while the
  request read it; a chart has the days the request asked for;
* keys and limiters: the limit holds for a key and not for a limiter, a key
  rests after its last failure, every call ends;
* composition: what is published reaches all services that depend on it though
  they start one by one; nobody listens to a stopped service.

## The modules

| module | models | proofs |
|---|---|---|
| `Events` | `events/subscription.go` with its publishers and watchers | `EventsProofs` |
| `Notification` | what `Events` promises: attached watchers catch up | |
| `Scheduler` | `scheduler/scheduler.go` | `LifecycleProofs` |
| `PricesUpdater` | `coingecko_prices/periodic_updater.go` | `PricesUpdaterProofs` |
| `MarketsUpdater` | `coingecko_markets/periodic_updater.go`, `paginated_fetcher.go`, the handlers of `service.go`, the pages of `top_ids.go` | `MarketsUpdaterProofs` |
| `TopIds` | `coingecko_markets/top_ids.go` | `FetcherByIdProofs` |
| `Chunks` | `coingecko_common/process_in_chunks.go`: how a list is cut | `FetcherByIdProofs` |
| `FetcherById` | `fetcher_by_id/periodic_updater.go`, `chunks_fetcher.go`, `onDataUpdated` of `service.go`, on the list of `TopIds` as `coingecko_coins` wires it | `FetcherByIdProofs` |
| `HttpClient` | `coingecko_common`: `api_key_manager.go`, `http_client_with_retries.go`, `rate_limiter_manager.go`, and how the API clients use them | `HttpClientProofs` |
| `Cache` | `cache`: Get and Set with expiry, key by key; used by the next two | |
| `PricesService` | the callbacks of `coingecko_prices/service.go`, the rest of `fetchAndUpdateTier`, `coingecko_leaderboard/top_prices_updater.go` | `PricesServiceProofs` |
| `Requests` | `coingecko_market_chart`, and the reads of prices, markets, pages and coins | `RequestsProofs` |
| `Pipeline` | `core`, `main.go`, Start and Stop of the services and their watchers | `LifecycleProofs` |
| `MCEvents`, `MCScheduler`, `MCPricesUpdater`, `MCMarketsUpdater`, `MCFetcherById`, `MCHttpClient`, `MCPricesService`, `MCRequests`, `MCPipeline` | values of the constants for TLC | |

`PricesService` and `Requests` are composed with `Cache` (INSTANCE),
`FetcherById` extends `TopIds` and `Chunks`, `Events` implements `Notification`, on which
`Pipeline` and the one slot of `PricesService` rely.

An operator whose comment starts with "Mutant" is a broken variant of the
action or helper below it. No specification uses it; replacing the action by
it makes the property it is paired with fail, which shows that the property
depends on the code.

### Events

`version` counts stores of the published state, `seen[s]` is the version the
last callback of subscription `s` read; the rest is the code's state.
`EmitBegin`, `EmitSend`, `EmitCut` and `EmitEnd` are one Emit under the read
lock (`pub[p] = "sending"`); `Subscribe` and `Unsubscribe` are the write
sections and wait for `NoReader`. `FirstCall` is the callback that Watch runs on
its caller; a callback reads the state (`Callback`) and goes on for a while
before it is back in `select` (`CallbackReturn`). Go's `select` takes any
ready case and `default` only when none is ready: `EmitSend` and `EmitCut`, `Receive` and
`WatcherExit` follow that, so a closed channel can wake a goroutine again
after Cancel. `CancelCtx` and `Unsubscribe` are the two halves of what
`sync.Once` runs; `OwnerReturn` and `WatcherGone` are the returns of its two
callers. `cutAt` records when an Emit was cut short by its context: the one
way to miss a wake-up, which the properties name and do not hide. A watcher
without `callNow` is owed what is stored after Subscribe and no more.

Fairness: weak for every goroutine that can run; strong for `Unsubscribe`,
because Go's RWMutex admits no new reader once a writer waits, and for
`WatcherExit`, because `select` chooses uniformly among ready cases. No
publisher has to store, no owner has to cancel.

`Notification` is the abstract specification: stores, watchers that attach,
detach and observe, and "muted" for states whose Emit was cut. The run `events`
checks that `FairSpec` implements it with its fairness.

### Scheduler

Each successful Start makes a context, numbered by `gen`, with a loop of its
own; `stopping` holds the caller that waits in `wg.Wait` with `mu` held. A tick
that finds the ticker's channel full is dropped, a run that finds
`taskRunning` locked is skipped. Tasks are goroutines that Stop does not wait
for. `ParentDone` cancels the context from outside: the loop ends and
`running` stays true, as in the code.

Fairness: goroutines that can run do; ticks come; tasks return, since every
request in this repository has a timeout and bounded retries; strong for
`LoopExit` (`select`).

### PricesUpdater

Time is kept as ages: `age[t]` since the tier's Timestamp, `started[t]` since
its UpdateStartTime, capped where a check no longer tells them apart. A list
of top ids is its version; only its length decides anything. `next[w]` is
where the periodic ("tick") and the forced check are in their loop over the
tiers; `resets[t]` are the spawned goroutines that clear a stuck mark. A fetch
goes through spawned, ids, request, extra, return: `FetchMark` sets the mark,
`FetchIds` has the early returns, `FetchFail` and `FetchStore` are the ends of
the request, `FetchExtra` the extra ids, `FetchReturn` the deferred call.

Fairness: time passes, goroutines that can run do, and the scheduler calls its
task again and again, which is `TaskRecurs` of `Scheduler`. A fetch may hang in
its requests; `TierKeepsRequesting` assumes with `RequestsEnd` that it does not
(retries are bounded and have timeouts), `MarkExpires` does without.

### MarketsUpdater

The listing of the API is its version, and a page the version it was cut from:
the listing moves at any time, so pages of one fetch can come from different
listings (no property looks at which, and the runs have one). `stored` is the
tier data that GetCacheData returns, which nothing in this module reads. Time is
abstracted further than in `PricesUpdater`: a name is due or not, a mark is
recent or stuck, and both may change at any moment, which allows every
duration. Marks, timestamps, data and the initial load are kept by tier name
as in the code, so two tiers can share one, as `validateTiers` allows; `loaded`
and `first` are histories by tier. `FetchPage`, `FetchEmptyPage` and
`FetchError` are the three outcomes of a page request; an error after a page
is a partial success. Each page is handled by a goroutine of its own
(`HandlerStep`: cache, top ids, Emit) and by the final update of the fetch
(`FetchHandle`). `unannounced` is one more history; `cached` remembers that a page was written to the cache, not that
it has not expired since.

Fairness: goroutines that can run do, tiers become due, and of the requests of
a tier's pages not all fail or find the page empty: without that the
initialized event need not come.

### TopIds and FetcherById

`TopIds` has one action for each method that changes state; `rebuildTopIds` is
the loop of the code as a recursive function, and `ListRanksPages` says what
the list must be without one. `FetcherById` extends it: a check calls GetTopIds, which rebuilds
the list if it is dirty, and each fetch works on the part of that list that
its tier covers. `FetchChunk` is a request that is answered, `FailChunk` one
that is not: it ends the fetch, or only its extra ids. `Unknown` are ids the
API does not know: in batch mode they are left out of the answer, in single
mode their request always fails. Where a chunk ends is for `ChunkEnd`, the inner loop of
processInChunks, with the lengths of the ids as constants. The updates of the pages come in a
fixed order, `Updates`, and Stop of the markets may clear them at any time.
`refreshed` is a history variable: the ids LastUpdate stands for. Tiers have
names of their own here and in `PricesUpdater`. Both validations also accept
tiers that share a name, which then share their mark and timestamp: that case
is modelled for the markets only, where it decides whether an event comes.

Fairness: as for the other updaters; a request ends, well or badly, and
`FailuresEnd` assumes for the liveness properties that requests for known ids
stop failing. `CheckTier` is strongly fair because its spawn waits for a name in
the model, which a `go` statement never does.

### HttpClient

The calls of one client, each a goroutine. `ListKey` is one turn of
GetAvailableKeys, which takes the lock for each key; `ListFreeKey` adds the
free API, first or last. `FindLimiter` and `CreateLimiter` are the read and
the write section of getLimiterForKey, `Admit` the return of `limiter.Wait`.
The answers are `Retryable`, `RetriesExhausted`, `Rejected`, `Served` and
`Unparsable`. The last exists only for the clients that parse the body in the
executor of TryWithKeys, where a body that does not parse puts the key in
backoff; the others return the error to their caller. `Clients` has what tells
the clients apart: keys or none, where they parse, whether the free API comes
first. `Setups` are tokens files with configured limits, `knownHost` says
whether requests without a key are limited at all. A limiter is named by its
creator, so that two limiters for one key would show.

A tick is the time in which a limiter regains a token, and the backoff is
counted in ticks: limiters of different rates tick alike, only the bursts
differ. `used` counts requests since the last tick, `age` the ticks of a call,
`since` those since a call last failed with a key, also after the call has
returned; all three are for the properties only. `Burst(k)` is the bound of
`RateLimitHolds`: what a full bucket and the token of the tick allow.

Fairness: ticks come, and `SF_vars(Step(c))`. `Admit` is the one step that is
enabled and disabled by others, and `rate.Limiter` serves reservations in the
order they are made, so a call that waits gets its turn. An answer or the
timeout of the HTTP client comes after any number of ticks.

### Cache and PricesService

A step of `Cache` is one key, since every loop over keys takes the lock for
each. Expired and absent are the same to all callers. `CacheTick` is the clock.

A price in `PricesService` is the version of CoinGecko's prices that it was
taken from. `FetchChunk` is an answered request, and spawns a callback with
its prices; `ExtraFetched` and `FinalUpdate` spawn the callbacks that store
the same prices again; `SetPrice` stores one id, `EmitPrices` ends a callback.
`TierFetched` stores the tier's entry and asks for the missing or stale extra
ids, which depend on the order of a Go map: any choice that some order allows.
Callbacks outlive their fetch and overtake each other. `BoardWakes`,
`BoardReads` and `BoardPublishes` are the leaderboard's update, a read per id,
with the ids of the ranking when it woke up. A fetch starts whenever it has a
list: when it should is the subject of `PricesUpdater`.

`since` and `done` are for the property: the version at which the oldest of
the fetches and callbacks that overlap began, and the ids fetched from then
on. A spawn waits for a free callback name, so few names mean fewer overlaps
and no other behaviour.

### Requests

One request reads a list of items and reports full, partial or miss. Prices,
markets by ids, pages and coins read the keys with the same loop, so `Items`
stands for the keys of any of them, and the services' stores are `Refill`. The
status differs: for coins it depends on what is missing alone
(`fetcher_by_id/service.go:157`), for the others, the kind "markets", also on
the number of entries found (`coingecko_prices/service.go:277`). `stayed` and
`seen` are histories of what the cache held, of the list, all the time and at
some time since the request began. The other
request asks for a chart. A chart is its coin, interval and the days from where
to where it goes; `RoundUp`, `createCacheKey`, `selectTTL` and
`StripMarketChartResponse` are those of the code on these. Time is in days,
the unit of the requests, so a time to live of hours is a day here. A store may replace a
newer chart by an older one, and the answer is cut to the time at which it is
given. A failing fetch returns an error.

### Pipeline

main starts the services one by one (`StartService`), each first subscribing
(`Subscribe`, `Watch`) to those before it while these already publish;
`StartFails` is the configuration of coins or prices, which is validated only
when they start, for prices after their subscriptions: log.Fatal ends the
process without the deferred StopAll, so nothing is stopped (phase "fatal").
`Publish` is a store and its Emit in one step, and a watcher's callback one
step that reads the newest version: what can come between is in `Events`,
whose refinement says that it changes nothing for the reader in the end. The
exception is an Emit that is cut short by its context, which happens after the
signal. Prices carry the version of the market list they were fetched for
(`basis`), for the periodic and the forced update, which run beside each
other. `ForceUpdate` fetches for the list that the service was last told, which
may be none. After `Signal` the updates and callbacks under way are left out:
StopAll stops the server before any other service, so no request sees what
they store. Stop of the markets clears the top ids, and the cache is stopped
last.

Fairness: goroutines that can run do; strong for the success of the periodic
price update, so not all of its fetches fail. Neither tokens nor markets have
to be fetched again.

## The runs

| run | bounds | shows |
|---|---|---|
| `events` | 2 publishers, 1 watcher with callNow, 3 stores; 37 500 states | `NoLostWakeup`, `NoSendOnClosed`, `CancelReleases`, `Notified`, `CancelEnds`, `ImplementsNotification` |
| `scheduler` | 2 callers, 2 task goroutines, 3 Starts; 385 states | `NoOverlap`, `RunningHasLoop`, `SpawnOnlyWhileRunning`, `StopReturns`, `TaskRecurs` |
| `prices` | 1 tier, 2 fetches, 1 reset, a list that is too short and one that is not; 6 168 states | `MarkHasFetch`, `StoredIsServed`, `MarkExpires`, `TierKeepsRequesting` |
| `markets` | 1 tier of 2 pages, 2 fetches, 1 page handler, 1 listing, 1 reset; 4 million states | `ListedIsCached`, `ChangeIsAnnounced`, `MarkHasFetch`, `InitializedComplete` |
| `markets_init` | 2 tiers of 1 page, 2 fetches, no page handlers, no resets; 912 000 states | `InitializedComplete`, `InitializedWhenComplete`, `InitializedEventually` |
| `coins` | 2 tiers of 2 positions, 2 fetches, 1 reset, 2 updates of 2 pages with a duplicate, 1 unknown id, 1 extra id, single mode, no forced check; 200 000 states | `TypeOK`, `ListRanksPages`, `MarkHasFetch`, `RefreshIsWhole`, `KnownTiersRefresh`, `ExtraIdsAreFetched` |
| `http` | all clients, 2 calls, 2 attempts, a backoff of 2 ticks, a sole Pro key or a Demo key, beside the free API; 246 000 states | `RateLimitHolds`, `RestingKeysAreLeftAlone`, `FailedKeysRest`, `CallsEnd` |
| `quotes` | 2 ids, 2 rankings, 1 tier with an extra id, 1 fetch at a time, 2 callbacks, 2 versions of prices, a time to live of 1 tick; 5.2 million states | `FetchedPricesAreStored`, `QuotesFollowPrices` |
| `requests` | 2 requests, a list of 2 items and one with an item twice, charts of a year of 4 days, day 0 and 1; 2.9 million states | `ChartCovers`, `StatusIsHonest` |
| `pipeline` | all services and watchers, 2 market lists, 1 token list; 253 000 states | `MarketsReachLeaderboard`, `TokensReachUpdaters`, `WatchersHaveProviders`, `ExitIsClean` |

Two publishers are needed for an Emit to find the token of another one, two
stores for a callback to read in between; three stores let a token be drained,
refilled and dropped. Two subscriptions do not interact except through the
lock and the order of the iteration, so one is enough; the proofs are for any
number. Three Starts give an old
task, a current one and a Stop between them. Two fetches are what a late mark,
an early cleared one and a reset need to disturb each other. The two tiers of
`markets_init` are needed for the count of completed names, and one fetch for
each of them; page handlers only add what the final update lists anyway, which
is why that run can do without. None of the properties
looks at which listing a page is from, so one listing is enough. In
`coins` the unknown id keeps the first tier failing after an answered request
while the second tier is complete only after the second update. Nobody in the
repository calls ForceUpdate of this fetcher, so the run does without. Single
mode has chunks of one id, as the coins are fetched; how longer chunks are cut
is compared with a definition of the longest chunk that fits, for all lists of
at most four ids, by an assumption of `MCFetcherById` that the run evaluates.

In `http` two calls meet at the creation of the limiter and at the key that one
of them marks; one configured key is enough because keys do not interact, and
the free key gives every call a second one. A sole Pro key is used even in
backoff, a Demo key is not: that is what the two setups are for. Two attempts
have a first and a last one. In `quotes` a fetch of the next version begins
while the callbacks of the last one still run, which gives the overtaking that
the properties are about with one fetch name; two ids let the leaderboard read
one before and one after a store. In `requests` the time reaches past all
times to live but the longest, which is proved for any, and the charts have a short, a long, no and an unlimited number
of days. In `pipeline` the second list makes what a watcher has seen old again.

A spawn that finds no free name waits (fetches of `MarketsUpdater` and
`FetcherById`, callbacks of `PricesService`) or is left out (fetches of `PricesUpdater`, page handlers).

`events`, `scheduler`, `markets`, `quotes`, `requests` and `pipeline` have no
deadlock check because the model may stop: all stores done and everybody
cancelled, all Starts used and the Scheduler stopped, the service stopped, the
bounds of versions or time reached, main returned. In the others time passes
for ever.

### Disagreements between the code and its comments

Two runs expect a violation; each checks one sentence of the repository.

* `markets_shared`: "sets a callback function that will be called when all
  tiers complete their initial load" (`coingecko_markets/periodic_updater.go:70`).
  With two tiers of one name, which `validateTiers` accepts, both complete and
  nothing is called: line 402 compares the number of names that have completed
  with the number of tiers. The run is `markets_init` with one name for both.
* `coins_extra`: "FetchCoinslistIds enables fetching missing tokens from
  coinslist" (`config/fetcher_by_id_config.go:40`). `config.yaml:140` sets the
  flag for a tier of coins, but nothing in the service calls
  SetExtraIdsProvider, so the extra ids are never requested.

Others were met on the way and have no run:

* "Only if not currently updating" (`coingecko_prices/periodic_updater.go:236`):
  the mark is set late and cleared early, so a forced check may start a second
  fetch of a tier beside the first. `FetchedPricesAreStored` is what holds in
  spite of it.
* The final update of a fetch (`coingecko_markets/periodic_updater.go:277`)
  comes after its extra ids. The store has cleared the mark by then, so a newer
  fetch of the tier may have listed its pages, which the older ones replace. No
  comment says otherwise, and no property forbids it.
* A market chart without days gets the whole chart that the cache holds and not
  the default of 30 days (`coingecko_market_chart/service.go:62`);
  `ChartCovers` leaves such requests out.
* A list with an id twice of markets, pages or prices is "partial" though
  nothing is missing (`coingecko_markets/service.go:227`,
  `coingecko_prices/service.go:277`): the map of what was found is smaller than
  the list. The same list of coins is "full". `StatusIsHonest` says so for each.
* A body that does not parse puts the key in backoff with the clients that
  parse in the executor (`fetcher_by_id/client.go:96`), though the key is fine.

## The proofs

The modules `...Proofs` prove, for every number of goroutines, subscriptions,
tiers, keys, ids, versions and every interval, limit and time to live:

* **Events.** `TypeCorrect`; `NoPanicInEmit` and `CancelIsComplete`, from an
  invariant that ties `todo` to the subscribers (an Emit in progress excludes
  the write sections), and the channel, once and watcher states to each other
  along the life of a subscription; `WakeupsAreNotLost`, from those and the
  fact that a store always has its Emit before it; `EventsRefinesNotification`,
  the safety part of the refinement, step by step.
* **Scheduler** (`LifecycleProofs`). `TypeCorrect`; `OneLoop`, `LoopWhileRunning` from an invariant
  that relates `running`, `stopping`, the cancelled contexts and the loops;
  `TasksDoNotOverlap` from "the lock is held exactly while a task is in
  flight, and by one"; `SpawnsAreCurrent`, an action property, from `OneLoop`.
* **Pipeline** (`LifecycleProofs`). `ProvidersAreUp` and `ExitsAreClean` from
  `Order`: the services that are up are the first ones of the list, up to the
  one that main has come to, and only they have subscriptions. The rest is in
  the list itself: every provider comes before the services that listen to it,
  so to stop in the reverse order never takes a provider from a listener.
  `ExitsAreClean` is about the exit after a signal; of a start that fails it
  says nothing, and nothing is stopped then. The
  invariant leaves the updates and the events alone, so it holds for any
  number of them.
* **PricesUpdater.** `TypeCorrect`; `MarksAreCleared`: the invariant is
  inductive with the types, since a mark is set only by a fetch that has its
  deferred call to come, and any clearing only helps; `RefreshesAreReal`,
  strengthened with what a fetch in its request or later knows of the list it
  read.
* **MarketsUpdater.** `TypeCorrect` and `MarksAreCleared` as above.
  `ListingsAreCached` from "whoever is about to list pages has cached them";
  `ChangesAreAnnounced` as it stands; `EventFindsAllTiers` from "a fetch past
  its final update has its pages listed", which stays true because nothing but
  Stop takes pages away, whatever handlers run later. `EventIsTriggered` says for
  every configuration when the event comes: after the last tier if names tell
  the tiers apart, never if two share one. It rests on `CompletedNames`, which
  says that completedTiers has the names of the tiers that have completed, so
  as many as there are tiers only in the first case. `StepKinds` reduces the steps that can
  touch the data to five.
* **TopIds** (`FetcherByIdProofs`). `ListsRankPages`, for any pages, updates and
  clears: the recursive function returns each id once, in the order of the
  first places, by induction over the places of the pages
  (`RankedListIsListed`); the state part is that whoever changes the pages makes
  the list dirty. From it `TiersAreDisjoint`: with the ranges that Validate accepts no id of
  the list is in two tiers. `LimitsKeepTiers`: GetMaxIdLimit is the end of the
  last tier in whatever order the tiers are configured, and reading no more of
  the list than that takes no id from any tier.
* **Chunks** (`FetcherByIdProofs`). `ChunksFit`: for any lengths of ids and any
  limits a chunk has at least one id, so the loop ends; it is within both
  limits unless its only id is too long by itself; and it ends only where the
  next id would not fit. The sum of lengths that the loop keeps is again a
  recursive function.
* **FetcherById.** `Types`, which needs that the rebuilt list is a sequence of
  ids whatever pages have arrived. `RefreshesAreWhole` from `FetchInv`: the
  ids of the chunks behind a fetch are in the cache, or were left out by the
  API, and a fetch that gets to its end has all chunks of its tier behind it; a
  fetch that fails never gets there, and no other fetch takes ids out of the
  cache. `MarksAreCleared` has an invariant of its own that assumes nothing of the
  lists: a mark is set only by a fetch with its deferred call to come.
* **HttpClient.** `TypeCorrect`, with `Shape`: a call holds a key exactly while
  it uses one. `RateLimit` from `RateInv`: a key has at most one limiter, whoever
  waits waits for that one, and what was sent since the tick together with the
  tokens left is at most the burst. `BackoffIsKept` from
  `ListedRest`: any key in a call's list that rests by now began to rest after
  the call did, which marking, listing and the clock all keep, the sole Pro key
  excepted. `FailureRests` from `FailuresMarked`: whatever backoff was under way
  when a call failed, its mark begins a new one, and the clock takes as much
  from the backoff as it adds to the time since the failure.
* **PricesService.** `TypeCorrect`; `FetchedAreStored` from `StoredInv`: each id
  fetched meanwhile is either stored at `since` or newer or in the hands of a
  callback with such a price, and no fetch or callback holds an older one;
  `QuotesFollow` from `BoardInv`: with no callback left to emit and no
  notification waiting, what the leaderboard has read so far, or shows, is what
  is stored.
* **Requests.** `TypeCorrect`; `ChartsCover` from "a cached chart suits every
  request that has its key, and a request in hand has a chart that suits it":
  time only makes a chart reach further back than needed; `StatusHonest` from
  what the counts mean for the cache: an item found was there at some time since
  the request began, an item missing was not there all the time.

The assumptions are the named ASSUMEs of the modules: bounds are natural
numbers, intervals and positions too, a subset is a subset.

The prover takes no induction theorem that has a predicate as its parameter,
so `FetcherByIdProofs` derives induction from the well-foundedness of <: a set
of counterexamples has a least element (`Least`), and that none is least proves
the rest (`Induction`). The equations of functions defined by recursion follow
in the same way (`Recursion`); that is why the loops of `TopIds` and
`FetcherById` are recursive functions and not folds or filters of a library.

Every invariant that a passing run checks, and every action property, has a
theorem. Only model-checked are the properties that need fairness: the liveness
properties, `CallsEnd` and the two of `Pipeline` about what reaches whom
among them, and the fairness part of `ImplementsNotification`. The prover has neither
fairness nor ENABLED.

## Plan

Done: `Events`, `Notification`, `Scheduler`, `PricesUpdater`, `MarketsUpdater`,
`TopIds`, `Chunks`, `FetcherById`, `HttpClient`, `Cache`, `PricesService`, `Requests`,
`Pipeline`. What is left, by how much of the service depends on it:

1. Data with its age in `FetcherById` and `MarketsUpdater`, so that the final
   update can be compared with what another tier has cached since.
2. `TopMarkets` and the overrides of request parameters of the markets service.
3. The order of causes in `Pipeline` as an invariant: no version is served that
   its sources did not have, whatever the watchers missed.

## Not modelled

Request building, JSON and URL formatting, the HTTP server's listening and
parsing, metrics and configuration parsing have no state whose order matters.
What a token or a price contains is never looked at by the parts that are
modelled; which fields of it a request wants is left out with it.

GetOrLoad, Delete and GetStats of the cache have no caller in the service. The
markets requests for top markets and the parameters that override a request
are not modelled, nor is the order of the ids within the chunks of prices and
extra markets. The limiter's
bucket is `golang.org/x/time/rate`, modelled as external; SetConfig of the
limiters runs once, before any request. The top ids manager's counts are for
metrics only. nginx, the dashboards, the test page, the end-to-end tests and the
mocks hold none of the service's logic.
