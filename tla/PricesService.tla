---------------------------- MODULE PricesService ----------------------------
(***************************************************************************)
(* coingecko_prices/service.go with the part of periodic_updater.go that   *)
(* module PricesUpdater leaves out: what the fetch of a tier does with the *)
(* prices it gets.  Every chunk, the extra ids and the whole tier at the   *)
(* end are handed to callbacks, each on a goroutine of its own, that store *)
(* prices in the cache id by id and then emit an update.  The leaderboard  *)
(* (coingecko_leaderboard/top_prices_updater.go) watches the updates and   *)
(* copies the cached prices of the top ids to its quotes.                  *)
(*                                                                         *)
(* A price is the version of CoinGecko's prices it was taken from, 0 is    *)
(* no price.  The notification is the one slot of module Events.           *)
(***************************************************************************)
EXTENDS Integers, Sequences, FiniteSets

CONSTANTS Ids,         \* the tokens
          Rankings,    \* lists of top ids that come one after the other
          Tiers,       \* names of the tiers
          From, To,    \* From[t] .. To[t]: the positions of tier t in the list
          CoinsList,   \* the tiers with fetch_coinslist_ids
          ExtraIds,    \* the ids of the token list
          ChunkSize,   \* ids in a request
          Limit,       \* top_prices_limit of the leaderboard
          TTL,         \* time to live of a cached price, in ticks
          Fetches,     \* names for the fetches' goroutines
          Callbacks,   \* names for the callbacks' goroutines; a spawn waits for one
          MaxVersion   \* bound: the last version of CoinGecko's prices

ASSUME PricesServiceAssumption ==
    /\ ExtraIds \subseteq Ids /\ CoinsList \subseteq Tiers
    /\ Rankings \in Seq(Seq(Ids)) /\ Len(Rankings) > 0
    /\ From \in [Tiers -> Nat \ {0}] /\ To \in [Tiers -> Nat]
    /\ ChunkSize \in Nat \ {0} /\ Limit \in Nat \ {0} /\ TTL \in Nat \ {0}
    /\ MaxVersion \in Nat \ {0}

VARIABLES val, ttl,    \* the cache, with the ids as its keys
          version,     \* version of CoinGecko's prices
          ranking,     \* the top ids, as an index of Rankings
          fetch, tier, \* where a fetchAndUpdateTier is, and of which tier
          todo,        \* todo[f]: ids that it has still to request
          own, got,    \* the prices of the tier, and of the extra ids, it has got
          entry, age,  \* entry[t], age[t]: ids of a tier's entry, ticks since its Timestamp
          cb, left,    \* cb[c], left[c]: prices of a callback, ids it has still to store
          busy,        \* the callbacks that are running
          token,       \* the leaderboard's channel holds a notification
          board,       \* where the leaderboard's updater is
          reads, copy, \* ids it has still to read, and the prices it has read
          quotes,      \* the leaderboard's quotes
          since,       \* for the specification: version when a fetch or callback
                       \* last began with no other one under way
          done         \* for the specification: ids fetched since then

cacheVars == <<val, ttl>>
fetchVars == <<fetch, tier, todo, own, got, entry, age>>
cbVars == <<cb, left, busy>>
boardVars == <<token, board, reads, copy, quotes>>
vars == <<cacheVars, version, ranking, fetchVars, cbVars, boardVars, since, done>>

Cache == INSTANCE Cache WITH CacheKeys <- Ids

NoPrices == [i \in Ids |-> 0]
Priced(prices) == {i \in Ids : prices[i] > 0}

(* The ids at the positions from .. to of the list of top ids              *)
ListedIds(from, to) ==
    {Rankings[ranking][n] : n \in {m \in 1..Len(Rankings[ranking]) : from <= m /\ m <= to}}

TopMarketIds(limit) == ListedIds(1, limit)
Quiet == busy = {} /\ \A f \in Fetches : fetch[f] = "idle"

Init ==
    /\ Cache!CacheInit(0)
    /\ version = 1 /\ ranking = 1
    /\ fetch = [f \in Fetches |-> "idle"]
    /\ tier \in [Fetches -> Tiers]
    /\ todo = [f \in Fetches |-> {}]
    /\ own = [f \in Fetches |-> NoPrices]
    /\ got = [f \in Fetches |-> NoPrices]
    /\ entry = [t \in Tiers |-> {}]
    /\ age = [t \in Tiers |-> TTL]
    /\ cb = [c \in Callbacks |-> NoPrices]
    /\ left = [c \in Callbacks |-> {}]
    /\ busy = {}
    /\ token = FALSE /\ board = "idle" /\ reads = {}
    /\ copy = NoPrices /\ quotes = NoPrices
    /\ since = 0 /\ done = {}

-----------------------------------------------------------------------------
PricesMove ==
    /\ version < MaxVersion
    /\ version' = version + 1
    /\ UNCHANGED <<cacheVars, ranking, fetchVars, cbVars, boardVars, since, done>>

RankingMoves ==
    /\ ranking < Len(Rankings)
    /\ ranking' = ranking + 1
    /\ UNCHANGED <<cacheVars, version, fetchVars, cbVars, boardVars, since, done>>

Tick ==
    /\ Cache!CacheTick
    /\ age' = [t \in Tiers |-> IF age[t] < TTL THEN age[t] + 1 ELSE TTL]
    /\ UNCHANGED <<version, ranking, fetch, tier, todo, own, got, entry, cbVars, boardVars, since, done>>

-----------------------------------------------------------------------------
(* The fetch of a tier                                                     *)

Spawn(prices) ==
    \E c \in Callbacks \ busy :
        /\ busy' = busy \cup {c}
        /\ cb' = [cb EXCEPT ![c] = prices]
        /\ left' = [left EXCEPT ![c] = Priced(prices)]

(* The tier's part of the list; a list that ends before it ends the fetch. *)
(* When a tier is fetched is the subject of PricesUpdater, whose stuck and *)
(* forced updates run beside others of their tier.                         *)
StartFetch(f, t) ==
    /\ fetch[f] = "idle"
    /\ From[t] <= Len(Rankings[ranking])
    /\ fetch' = [fetch EXCEPT ![f] = "tier"]
    /\ tier' = [tier EXCEPT ![f] = t]
    /\ todo' = [todo EXCEPT ![f] = ListedIds(From[t], To[t])]
    /\ since' = IF Quiet THEN version ELSE since
    /\ done' = IF Quiet THEN {} ELSE done
    /\ UNCHANGED <<cacheVars, version, ranking, own, got, entry, age, cbVars, boardVars>>

(* A request for the next chunk, of the tier or of the extra ids, is       *)
(* answered: its prices go to a callback.  A chunk holds fewer ids than    *)
(* ChunkSize when their names are long; the order of the ids is left out.  *)
FetchChunk(f) ==
    \E chunk \in SUBSET todo[f] \ {{}} :
        LET add(prices) == [i \in Ids |-> IF i \in chunk THEN version ELSE prices[i]] IN
        /\ Cardinality(chunk) <= ChunkSize
        /\ Spawn(add(NoPrices))
        /\ todo' = [todo EXCEPT ![f] = @ \ chunk]
        /\ own' = [own EXCEPT ![f] = IF fetch[f] = "tier" THEN add(@) ELSE @]
        /\ got' = [got EXCEPT ![f] = IF fetch[f] = "extra" THEN add(@) ELSE @]
        /\ done' = done \cup chunk
        /\ UNCHANGED <<cacheVars, version, ranking, fetch, tier, entry, age, boardVars, since>>

(* One failing chunk fails the fetch, and drops what was got: the tier's   *)
(* entry stays as it was.  If it is one of the extra ids the fetch of the  *)
(* tier goes on without them.                                              *)
ChunkFails(f) ==
    /\ todo[f] # {}
    /\ todo' = [todo EXCEPT ![f] = {}]
    /\ own' = [own EXCEPT ![f] = IF fetch[f] = "tier" THEN NoPrices ELSE @]
    /\ got' = [got EXCEPT ![f] = NoPrices]
    /\ fetch' = [fetch EXCEPT ![f] = IF @ = "tier" THEN "idle" ELSE "final"]
    /\ UNCHANGED <<cacheVars, version, ranking, tier, entry, age, cbVars, boardVars, since, done>>

(* findMissingOrStaleIds: the first tier that has the id decides, and which *)
(* one comes first is Go's choice (the order of a map).                     *)
MissingOrStale(missing, ids) ==
    \A i \in ids :
        LET tiers == {t \in Tiers : i \in entry'[t]} IN
        IF i \in missing THEN tiers = {} \/ \E t \in tiers : 2 * age'[t] > TTL
                         ELSE \E t \in tiers : 2 * age'[t] <= TTL

(* All chunks of the tier came: it has a new entry, and asks for the extra *)
(* ids that are missing.                                                   *)
TierFetched(f) ==
    /\ fetch[f] = "tier" /\ todo[f] = {}
    /\ entry' = [entry EXCEPT ![tier[f]] = Priced(own[f])]
    /\ age' = [age EXCEPT ![tier[f]] = 0]
    /\ IF tier[f] \in CoinsList
       THEN \E missing \in SUBSET ExtraIds :
              /\ MissingOrStale(missing, ExtraIds)
              /\ todo' = [todo EXCEPT ![f] = missing]
              /\ fetch' = [fetch EXCEPT ![f] = IF missing = {} THEN "final" ELSE "extra"]
       ELSE /\ fetch' = [fetch EXCEPT ![f] = "final"]
            /\ UNCHANGED todo
    /\ UNCHANGED <<cacheVars, version, ranking, tier, own, got, cbVars, boardVars, since, done>>

(* The extra ids are handed over once more, all together,                  *)
ExtraFetched(f) ==
    /\ fetch[f] = "extra" /\ todo[f] = {}
    /\ Spawn(got[f])
    /\ got' = [got EXCEPT ![f] = NoPrices]
    /\ fetch' = [fetch EXCEPT ![f] = "final"]
    /\ UNCHANGED <<cacheVars, version, ranking, tier, todo, own, entry, age, boardVars,
                   since, done>>

(* and so is the tier.                                                     *)
FinalUpdate(f) ==
    /\ fetch[f] = "final"
    /\ Spawn(own[f])
    /\ own' = [own EXCEPT ![f] = NoPrices]
    /\ fetch' = [fetch EXCEPT ![f] = "idle"]
    /\ UNCHANGED <<cacheVars, version, ranking, tier, todo, got, entry, age, boardVars,
                   since, done>>

-----------------------------------------------------------------------------
(* handleTopPricesUpdate and handleMissingExtraIdsUpdate                   *)

SetPrice(c) ==
    /\ \E i \in left[c] :
         /\ Cache!SetKey(i, cb[c][i], TTL)
         /\ left' = [left EXCEPT ![c] = @ \ {i}]
    /\ UNCHANGED <<version, ranking, fetchVars, cb, busy, boardVars, since, done>>

(* Emit does not wait: a notification that is already there is enough      *)
EmitPrices(c) ==
    /\ c \in busy /\ left[c] = {}
    /\ token' = TRUE
    /\ busy' = busy \ {c}
    /\ cb' = [cb EXCEPT ![c] = NoPrices]
    /\ UNCHANGED <<cacheVars, version, ranking, fetchVars, left,
                   board, reads, copy, quotes, since, done>>

-----------------------------------------------------------------------------
(* The leaderboard: fetchAndUpdateTopPrices                                *)

BoardWakes ==
    /\ board = "idle" /\ token
    /\ token' = FALSE
    /\ board' = "read"
    /\ reads' = TopMarketIds(Limit)
    /\ copy' = NoPrices
    /\ UNCHANGED <<cacheVars, version, ranking, fetchVars, cbVars, quotes, since, done>>

(* SimplePrices reads one key after the other                              *)
BoardReads ==
    /\ board = "read" /\ reads # {}
    /\ \E i \in reads :
         /\ copy' = [copy EXCEPT ![i] = IF Cache!Found(i) THEN val[i] ELSE @]
         /\ reads' = reads \ {i}
    /\ UNCHANGED <<cacheVars, version, ranking, fetchVars, cbVars, token, board, quotes,
                   since, done>>

(* Mutant: notifications that came during the reads are dropped *)
BoardPublishesAndDrains ==
    /\ board = "read" /\ reads = {}
    /\ quotes' = copy
    /\ copy' = NoPrices
    /\ board' = "idle"
    /\ token' = FALSE
    /\ UNCHANGED <<cacheVars, version, ranking, fetchVars, cbVars, reads, since, done>>

(* The quotes are replaced, also by none                                   *)
BoardPublishes ==
    /\ board = "read" /\ reads = {}
    /\ quotes' = copy
    /\ copy' = NoPrices
    /\ board' = "idle"
    /\ UNCHANGED <<cacheVars, version, ranking, fetchVars, cbVars, token, reads, since, done>>

-----------------------------------------------------------------------------
Fetch(f) ==
    \/ \E t \in Tiers : StartFetch(f, t)
    \/ FetchChunk(f) \/ ChunkFails(f)
    \/ TierFetched(f) \/ ExtraFetched(f) \/ FinalUpdate(f)

Next ==
    \/ PricesMove \/ RankingMoves \/ Tick
    \/ \E f \in Fetches : Fetch(f)
    \/ \E c \in Callbacks : SetPrice(c) \/ EmitPrices(c)
    \/ BoardWakes \/ BoardReads \/ BoardPublishes

Spec == Init /\ [][Next]_vars

-----------------------------------------------------------------------------
Prices == [Ids -> 0..MaxVersion]

TypeOK ==
    /\ val \in Prices /\ ttl \in [Ids -> 0..TTL]
    /\ version \in 1..MaxVersion /\ ranking \in 1..Len(Rankings)
    /\ fetch \in [Fetches -> {"idle", "tier", "extra", "final"}]
    /\ tier \in [Fetches -> Tiers]
    /\ todo \in [Fetches -> SUBSET Ids]
    /\ own \in [Fetches -> Prices] /\ got \in [Fetches -> Prices]
    /\ entry \in [Tiers -> SUBSET Ids] /\ age \in [Tiers -> 0..TTL]
    /\ cb \in [Callbacks -> Prices] /\ left \in [Callbacks -> SUBSET Ids]
    /\ busy \subseteq Callbacks
    /\ token \in BOOLEAN /\ board \in {"idle", "read"}
    /\ reads \subseteq Ids /\ copy \in Prices /\ quotes \in Prices
    /\ since \in 0..MaxVersion /\ done \subseteq Ids

(***************************************************************************)
(* Callbacks store prices in any order, key by key, while the leaderboard  *)
(* reads them key by key, and notifications collapse in one slot.  When    *)
(* all is quiet the quotes are the cached prices nevertheless: no update   *)
(* gets lost between a read and the notification that follows it.          *)
(***************************************************************************)
QuotesFollowPrices ==
    busy = {} /\ ~token /\ board = "idle"
        => \A i \in Priced(quotes) : quotes[i] = val[i]

(***************************************************************************)
(* Chunks and whole tiers are stored twice, by callbacks that overtake     *)
(* each other: an older price can overwrite a newer one.  It is never one  *)
(* from before the oldest fetch that ran beside: when all is quiet what    *)
(* was fetched meanwhile is stored, at least as new as when that began.    *)
(***************************************************************************)
FetchedPricesAreStored == Quiet => \A i \in done : val[i] >= since
=============================================================================
