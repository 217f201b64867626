------------------------------ MODULE Requests ------------------------------
(***************************************************************************)
(* The requests that api/ serves from the cache while the services refill  *)
(* it and entries expire:                                                  *)
(*  - prices, markets by ids, markets by page and a coin: the service gets *)
(*    all keys from the cache, one after the other, and tells by the       *)
(*    Cache-Status what share of them it found;                            *)
(*  - a market chart: rounded up to the days that the cache holds, taken   *)
(*    from the cache or from CoinGecko, and cut down to what was asked.    *)
(* Requests run concurrently and share nothing but the cache.              *)
(*                                                                         *)
(* Items stands for the keys of one kind.  All are read alike, but coins   *)
(* tell their status by what is missing alone, while prices, markets and   *)
(* pages, of which markets are the example, count as well.  A coin with    *)
(* its currency is one coin.  Which fields of the data a request wants is  *)
(* left out.  The time is in days.                                         *)
(***************************************************************************)
EXTENDS Integers, Sequences, FiniteSets, Functions

CONSTANTS Clients,            \* concurrent requests
          Items,              \* the keys of prices, markets, pages or coins
          ItemTTL,            \* their time to live
          Lists,              \* the lists of items that are asked for (none is
                              \* empty, that one is answered without a lookup)
          Asks,               \* the charts that are asked for
          Threshold,          \* daily_data_threshold
          HourlyTTL, DailyTTL,
          DefaultDays,        \* "30"
          Year,               \* 365
          MaxTime             \* bound: the last day

NoDays == -2   \* the request has no days
MaxDays == -1  \* days=max

ASSUME RequestsAssumption ==
    /\ Threshold \in 1..Year /\ DefaultDays \in 1..Year /\ Year \in Nat
    /\ \A q \in Asks : q.days \in {NoDays, MaxDays} \cup Nat
    /\ Lists \subseteq Seq(Items) \ {<<>>}
    /\ {ItemTTL, HourlyTTL, DailyTTL} \subseteq Nat \ {0} /\ MaxTime \in Nat

Beginning == -(Year + 1)  \* when the coins were listed, for days=max

ItemKey(i) == <<"item", i>>
ChartKeys == {<<"chart", q.coin, days, q.interval>> :
                q \in Asks, days \in {MaxDays, Threshold, Year}}
CacheKeys == {ItemKey(i) : i \in Items} \cup ChartKeys

Kinds == {"coins", "markets"}

VARIABLES
    val, ttl,  \* the cache: for items nothing but presence, for charts the chart
    now,       \* the time
    pc,        \* where a request is
    ask,       \* the chart a request asks for
    chart,     \* the chart it has got
    kind,      \* the kind of items a request asks for
    list,      \* the items it asks for
    next,      \* the one it looks up next
    hits,      \* cachedData
    missing,   \* missingKeys
    stayed,    \* for the specification: the items that have been in the cache
               \* ever since the request began
    seen       \* for the specification: those that have been in it meanwhile

cacheVars == <<val, ttl>>
chartVars == <<ask, chart>>
requestVars == <<kind, list, next, hits, missing>>
itemVars == <<requestVars, stayed, seen>>
vars == <<cacheVars, now, pc, chartVars, itemVars>>

Cache == INSTANCE Cache

Chart(coin, from, to, interval) ==
    [coin |-> coin, from |-> from, to |-> to, interval |-> interval]

NoChart == [coin |-> "", from |-> 0, to |-> 0, interval |-> ""]
NoAsk == [coin |-> "", days |-> NoDays, interval |-> ""]

Init ==
    /\ Cache!CacheInit(NoChart)
    /\ now = 0
    /\ pc = [c \in Clients |-> "idle"]
    /\ ask = [c \in Clients |-> NoAsk]
    /\ chart = [c \in Clients |-> NoChart]
    /\ kind = [c \in Clients |-> "coins"]
    /\ list = [c \in Clients |-> <<>>]
    /\ next = [c \in Clients |-> 1]
    /\ hits = [c \in Clients |-> {}]
    /\ missing = [c \in Clients |-> {}]
    /\ stayed = [c \in Clients |-> {}]
    /\ seen = [c \in Clients |-> {}]

Cached == {i \in Items : Cache!Found(ItemKey(i))}

(* What the requests that read items could see of a change of the cache *)
NoteItems ==
    /\ stayed' = [c \in Clients |-> stayed[c] \cap Cached']
    /\ seen' = [c \in Clients |->
                  IF pc[c] \in {"get", "items"} THEN seen[c] \cup Cached' ELSE {}]

Tick ==
    /\ now < MaxTime
    /\ now' = now + 1
    /\ Cache!CacheTick
    /\ NoteItems
    /\ UNCHANGED <<pc, chartVars, requestVars>>

Goto(c, label) == pc' = [pc EXCEPT ![c] = label]

-----------------------------------------------------------------------------
(* Market charts                                                           *)

Validate(q) == q.days \in {NoDays, MaxDays} \cup 1..Year

(* A request that is not valid is answered at once                         *)
AskChart(c) ==
    \E q \in Asks :
        /\ pc[c] = "idle" /\ Validate(q)
        /\ ask' = [ask EXCEPT ![c] = q]
        /\ Goto(c, "lookup")
        /\ UNCHANGED <<cacheVars, now, chart, itemVars>>

RoundUp(days) ==
    IF days \in {NoDays, MaxDays} THEN days
    ELSE IF days <= Threshold THEN Threshold ELSE Year

(* The days that a request without days gets are rounded as well           *)
RoundedDays(q) == RoundUp(IF q.days = NoDays THEN DefaultDays ELSE q.days)

(* Mutant: charts of different intervals share a key *)
createCacheKeyWithoutInterval(q) == <<"chart", q.coin, RoundedDays(q), "">>

createCacheKey(q) == <<"chart", q.coin, RoundedDays(q), q.interval>>

getCachedData(c) ==
    LET k == createCacheKey(ask[c]) IN
    /\ pc[c] = "lookup"
    /\ chart' = [chart EXCEPT ![c] = IF Cache!Found(k) THEN val[k] ELSE @]
    /\ Goto(c, IF Cache!Found(k) THEN "answered" ELSE "fetch")
    /\ UNCHANGED <<cacheVars, now, ask, itemVars>>

(* CoinGecko answers with a chart that ends now, or not at all             *)
FetchMarketChart(c) ==
    LET q == ask[c]
        from == IF RoundedDays(q) = MaxDays THEN Beginning ELSE now - RoundedDays(q)
    IN  /\ pc[c] = "fetch"
        /\ chart' = [chart EXCEPT ![c] = Chart(q.coin, from, now, q.interval)]
        /\ Goto(c, "store")
        /\ UNCHANGED <<cacheVars, now, ask, itemVars>>

FetchFails(c) ==
    /\ pc[c] = "fetch"
    /\ Goto(c, "idle")
    /\ ask' = [ask EXCEPT ![c] = NoAsk]
    /\ UNCHANGED <<cacheVars, now, chart, itemVars>>

selectTTL(q) == IF RoundedDays(q) \in 1..Threshold THEN HourlyTTL ELSE DailyTTL

(* Another request may have stored a chart since the lookup, also a newer one *)
cacheData(c) ==
    /\ pc[c] = "store"
    /\ Cache!SetKey(createCacheKey(ask[c]), chart[c], selectTTL(ask[c]))
    /\ Goto(c, "answered")
    /\ UNCHANGED <<now, chartVars, itemVars>>

(* What the request is answered: the chart from the days asked for on      *)
StripMarketChartResponse(q, ch) ==
    IF q.days \in {NoDays, MaxDays} \/ ch.from >= now - q.days THEN ch
    ELSE [ch EXCEPT !.from = now - q.days]

-----------------------------------------------------------------------------
(* Items                                                                   *)

(* The services put items into the cache, see their modules                *)
Refill(i) ==
    /\ Cache!SetKey(ItemKey(i), NoChart, ItemTTL)
    /\ NoteItems
    /\ UNCHANGED <<now, pc, chartVars, requestVars>>

AskItems(c) ==
    /\ pc[c] = "idle"
    /\ \E k \in Kinds, l \in Lists :
         /\ kind' = [kind EXCEPT ![c] = k]
         /\ list' = [list EXCEPT ![c] = l]
    /\ Goto(c, "get")
    /\ stayed' = [stayed EXCEPT ![c] = Cached]
    /\ seen' = [seen EXCEPT ![c] = Cached]
    /\ UNCHANGED <<cacheVars, now, chartVars, next, hits, missing>>

GetItem(c) ==
    /\ pc[c] = "get"
    /\ next[c] <= Len(list[c])
    /\ LET i == list[c][next[c]] IN
       IF Cache!Found(ItemKey(i))
       THEN hits' = [hits EXCEPT ![c] = @ \cup {i}] /\ UNCHANGED missing
       ELSE missing' = [missing EXCEPT ![c] = @ \cup {i}] /\ UNCHANGED hits
    /\ next' = [next EXCEPT ![c] = @ + 1]
    /\ Goto(c, IF next[c] = Len(list[c]) THEN "items" ELSE "get")
    /\ UNCHANGED <<cacheVars, now, chartVars, kind, list, stayed, seen>>

AllFound(c) == missing[c] = {}

(* Mutant: coins are counted like the others *)
cacheStatusByCount(c) ==
    IF AllFound(c) /\ Cardinality(hits[c]) = Len(list[c]) THEN "full"
    ELSE IF hits[c] # {} THEN "partial" ELSE "miss"

(* cachedData is a map, the keys are a list: an id that is asked for twice *)
(* counts once and twice.  GetMultiple, of the coins, does not count.      *)
cacheStatus(c) ==
    IF AllFound(c) /\ (kind[c] = "markets" => Cardinality(hits[c]) = Len(list[c])) THEN "full"
    ELSE IF hits[c] # {} THEN "partial" ELSE "miss"

Return(c) ==
    /\ pc[c] \in {"answered", "items"}
    /\ Goto(c, "idle")
    /\ ask' = [ask EXCEPT ![c] = NoAsk]
    /\ chart' = [chart EXCEPT ![c] = NoChart]
    /\ kind' = [kind EXCEPT ![c] = "coins"]
    /\ list' = [list EXCEPT ![c] = <<>>]
    /\ next' = [next EXCEPT ![c] = 1]
    /\ hits' = [hits EXCEPT ![c] = {}]
    /\ missing' = [missing EXCEPT ![c] = {}]
    /\ stayed' = [stayed EXCEPT ![c] = {}]
    /\ seen' = [seen EXCEPT ![c] = {}]
    /\ UNCHANGED <<cacheVars, now>>

-----------------------------------------------------------------------------
Next ==
    \/ Tick
    \/ \E i \in Items : Refill(i)
    \/ \E c \in Clients :
         \/ AskChart(c) \/ getCachedData(c) \/ FetchMarketChart(c) \/ FetchFails(c)
         \/ cacheData(c)
         \/ AskItems(c) \/ GetItem(c) \/ Return(c)

Spec == Init /\ [][Next]_vars

-----------------------------------------------------------------------------
Charts == [coin : {q.coin : q \in Asks} \cup {""}, from : Int, to : Int,
           interval : {q.interval : q \in Asks} \cup {""}]

TypeOK ==
    /\ val \in [CacheKeys -> Charts] /\ ttl \in [CacheKeys -> Nat]
    /\ now \in 0..MaxTime
    /\ pc \in [Clients -> {"idle", "lookup", "fetch", "store", "answered", "get", "items"}]
    /\ ask \in [Clients -> Asks \cup {NoAsk}]
    /\ chart \in [Clients -> Charts]
    /\ list \in [Clients -> Lists \cup {<<>>}] /\ next \in [Clients -> Nat \ {0}]
    /\ kind \in [Clients -> Kinds]
    /\ hits \in [Clients -> SUBSET Items] /\ missing \in [Clients -> SUBSET Items]
    /\ stayed \in [Clients -> SUBSET Items] /\ seen \in [Clients -> SUBSET Items]

(***************************************************************************)
(* A chart answers the question: it is of the coin and the interval asked  *)
(* for and goes back exactly the days asked for, counted from the answer,  *)
(* although it was fetched for other days, by another request and some     *)
(* time ago.  (A request without days gets whatever the cache holds.)      *)
(***************************************************************************)
ChartCovers ==
    \A c \in Clients : pc[c] = "answered" =>
        LET q == ask[c]
            answer == StripMarketChartResponse(q, chart[c])
        IN  /\ answer.coin = q.coin /\ answer.interval = q.interval
            /\ q.days = MaxDays => answer.from = Beginning
            /\ q.days \in 1..Year => answer.from = now - q.days

(***************************************************************************)
(* The Cache-Status against what the cache held while the request read it  *)
(* key by key, with items expiring and being stored in between.  A full    *)
(* answer has nothing that was never there, a miss nothing that always     *)
(* was; if everything was there all the time the answer is full, and if    *)
(* nothing ever was it is a miss.  The one exception is the count of       *)
(* markets, pages and prices, by which a list with an id twice is partial. *)
(***************************************************************************)
AskedTwice(c) == Cardinality(Range(list[c])) # Len(list[c])

StatusIsHonest ==
    \A c \in Clients : pc[c] = "items" =>
        LET asked == Range(list[c]) IN
        /\ cacheStatus(c) = "full" => asked \subseteq seen[c]
        /\ cacheStatus(c) = "miss" => asked \cap stayed[c] = {}
        /\ asked \subseteq stayed[c] =>
             cacheStatus(c) = IF kind[c] = "markets" /\ AskedTwice(c) THEN "partial" ELSE "full"
        /\ asked \cap seen[c] = {} => cacheStatus(c) = "miss"
=============================================================================
