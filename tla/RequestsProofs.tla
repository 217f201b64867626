--------------------------- MODULE RequestsProofs ---------------------------
(***************************************************************************)
(* Proofs about Requests, for any number of requests, any charts and lists *)
(* that are asked for and any times to live: the types, that a chart       *)
(* covers the days asked for, and that the cache status is honest.         *)
(***************************************************************************)
EXTENDS Requests, TLAPS

Asking == {"lookup", "fetch", "store", "answered"}

(***************************************************************************)
(* A chart that suits q, whoever asked for it: it is long enough and may   *)
(* be old.                                                                 *)
(***************************************************************************)
Suits(ch, q) ==
    /\ ch.coin = q.coin /\ ch.interval = q.interval
    /\ RoundedDays(q) = MaxDays => ch.from = Beginning
    /\ RoundedDays(q) # MaxDays => ch.from <= now - RoundedDays(q)

AskIsValid == \A c \in Clients : pc[c] \in Asking => ask[c] \in Asks /\ Validate(ask[c])

ChartSuits == \A c \in Clients : pc[c] \in {"store", "answered"} => Suits(chart[c], ask[c])

CacheSuits ==
    \A q \in Asks : Validate(q) /\ Cache!Found(createCacheKey(q))
                        => Suits(val[createCacheKey(q)], q)

ChartInv == TypeOK /\ AskIsValid /\ ChartSuits /\ CacheSuits

LEMMA Bounds ==
    /\ Year \in Nat /\ Threshold \in 1..Year /\ DefaultDays \in 1..Year /\ MaxTime \in Nat
    /\ ItemTTL \in Nat /\ HourlyTTL \in Nat /\ DailyTTL \in Nat
    /\ NoDays = -2 /\ MaxDays = -1 /\ Beginning \in Int /\ Beginning = -(Year + 1)
<1>1. Year \in Nat /\ Threshold \in 1..Year /\ DefaultDays \in 1..Year /\ MaxTime \in Nat
  BY RequestsAssumption
<1>2. ItemTTL \in Nat /\ HourlyTTL \in Nat /\ DailyTTL \in Nat
  BY RequestsAssumption
<1>3. NoDays = -2 /\ MaxDays = -1 /\ Beginning = -(Year + 1)
  BY DEF NoDays, MaxDays, Beginning
<1> QED  BY <1>1, <1>2, <1>3

\* Requests are rounded up to what the cache holds.
LEMMA Rounded ==
  ASSUME NEW q \in Asks, Validate(q)
  PROVE  /\ RoundedDays(q) \in {MaxDays, Threshold, Year} /\ RoundedDays(q) \in Int
         /\ RoundedDays(q) = MaxDays <=> q.days = MaxDays
         /\ q.days \in 1..Year => RoundedDays(q) >= q.days
<1>1. q.days \in {-2, -1} \cup 1..Year
  BY DEF Validate, NoDays, MaxDays
<1>2. CASE q.days = -2
  BY <1>2, Bounds DEF RoundedDays, RoundUp
<1>3. CASE q.days = -1
  BY <1>3, Bounds DEF RoundedDays, RoundUp
<1>4. CASE q.days \in 1..Year
  BY <1>4, Bounds DEF RoundedDays, RoundUp
<1> QED  BY <1>1, <1>2, <1>3, <1>4

LEMMA KeyOfChart ==
  ASSUME NEW q \in Asks, Validate(q)
  PROVE  createCacheKey(q) \in CacheKeys
BY Rounded DEF createCacheKey, CacheKeys, ChartKeys

\* Items and charts do not share keys.
LEMMA KeysDiffer ==
  ASSUME NEW q, NEW i
  PROVE  createCacheKey(q) # ItemKey(i)
BY DEF createCacheKey, ItemKey

LEMMA TypeInitially == ASSUME Init PROVE TypeOK
<1>1. NoChart \in Charts
  BY DEF NoChart, Charts
<1> QED  BY <1>1, Bounds DEF Init, TypeOK, Cache!CacheInit, Kinds

LEMMA TypeOfSet ==
  ASSUME TypeOK, NEW k \in CacheKeys, NEW data \in Charts, NEW timeout \in Nat,
         Cache!SetKey(k, data, timeout)
  PROVE  val' \in [CacheKeys -> Charts] /\ ttl' \in [CacheKeys -> Nat]
BY DEF TypeOK, Cache!SetKey

LEMMA TypeOfNote ==
  ASSUME TypeOK, NoteItems
  PROVE  stayed' \in [Clients -> SUBSET Items] /\ seen' \in [Clients -> SUBSET Items]
<1>1. Cached' \subseteq Items
  BY DEF Cached
<1> QED  BY <1>1 DEF TypeOK, NoteItems

(***************************************************************************)
(* The steps on charts keep the types and the invariant.  A step that      *)
(* leaves the cache and the time alone only has to look at its request.    *)
(***************************************************************************)
LEMMA CacheSuitsKept ==
  ASSUME CacheSuits, UNCHANGED <<cacheVars, now>>
  PROVE  CacheSuits'
BY DEF CacheSuits, cacheVars, Cache!Found, Suits, RoundedDays, RoundUp, createCacheKey, Validate

LEMMA ChartOfAsk ==
  ASSUME ChartInv, NEW c \in Clients, AskChart(c)
  PROVE  ChartInv'
<1>1. PICK q \in Asks : /\ pc[c] = "idle" /\ Validate(q)
                        /\ ask' = [ask EXCEPT ![c] = q]
                        /\ pc' = [pc EXCEPT ![c] = "lookup"]
                        /\ UNCHANGED <<cacheVars, now, chart, itemVars>>
  BY DEF AskChart, Goto
<1>2. TypeOK'
  BY <1>1 DEF ChartInv, TypeOK, cacheVars, itemVars, requestVars
<1>3. AskIsValid'
  BY <1>1 DEF ChartInv, TypeOK, AskIsValid, Asking, Validate
<1>4. ChartSuits'
  BY <1>1 DEF ChartInv, TypeOK, ChartSuits, Suits, RoundedDays, RoundUp
<1>5. CacheSuits'
  BY <1>1, CacheSuitsKept DEF ChartInv
<1> QED  BY <1>2, <1>3, <1>4, <1>5 DEF ChartInv

LEMMA ChartOfLookup ==
  ASSUME ChartInv, NEW c \in Clients, getCachedData(c)
  PROVE  ChartInv'
<1> DEFINE q == ask[c]
<1> DEFINE k == createCacheKey(q)
<1>1. q \in Asks /\ Validate(q) /\ k \in CacheKeys
  BY KeyOfChart DEF getCachedData, ChartInv, AskIsValid, Asking
<1>2. /\ pc[c] = "lookup"
      /\ chart' = [chart EXCEPT ![c] = IF Cache!Found(k) THEN val[k] ELSE @]
      /\ pc' = [pc EXCEPT ![c] = IF Cache!Found(k) THEN "answered" ELSE "fetch"]
      /\ UNCHANGED <<cacheVars, now, ask, itemVars>>
  BY DEF getCachedData, Goto
<1>3. Cache!Found(k) => Suits(val[k], q)
  BY <1>1 DEF ChartInv, CacheSuits
<1>4. TypeOK'
  BY <1>1, <1>2 DEF ChartInv, TypeOK, cacheVars, itemVars, requestVars
<1>5. AskIsValid'
  BY <1>1, <1>2 DEF ChartInv, TypeOK, AskIsValid, Asking, Validate
<1>6. ChartSuits'
  <2>1. now' = now /\ ask' = ask
    BY <1>2
  <2> SUFFICES ASSUME NEW d \in Clients, pc'[d] \in {"store", "answered"}
               PROVE  Suits(chart'[d], ask[d])
    BY <2>1 DEF ChartSuits, Suits, RoundedDays, RoundUp
  <2>2. CASE d = c
    <3>1. Cache!Found(k)
      BY <1>2, <2>2 DEF ChartInv, TypeOK
    <3>2. chart'[d] = val[k]
      BY <1>2, <2>2, <3>1 DEF ChartInv, TypeOK
    <3> QED  BY <1>3, <2>2, <3>1, <3>2
  <2>3. CASE d # c
    BY <1>2, <2>3 DEF ChartInv, TypeOK, ChartSuits
  <2> QED  BY <2>2, <2>3
<1>7. CacheSuits'
  BY <1>2, CacheSuitsKept DEF ChartInv
<1> QED  BY <1>4, <1>5, <1>6, <1>7 DEF ChartInv

LEMMA ChartOfFetch ==
  ASSUME ChartInv, NEW c \in Clients, FetchMarketChart(c)
  PROVE  ChartInv'
<1> DEFINE q == ask[c]
<1> DEFINE days == RoundedDays(q)
<1> DEFINE ch == Chart(q.coin, IF days = MaxDays THEN Beginning ELSE now - days, now, q.interval)
<1>1. q \in Asks /\ Validate(q) /\ pc[c] = "fetch" /\ now \in Int
  BY Bounds DEF FetchMarketChart, ChartInv, TypeOK, AskIsValid, Asking
<1>2. /\ chart' = [chart EXCEPT ![c] = ch]
      /\ pc' = [pc EXCEPT ![c] = "store"]
      /\ UNCHANGED <<cacheVars, now, ask, itemVars>>
  BY DEF FetchMarketChart, Goto
<1>3. days \in Int
  BY <1>1, Rounded
<1> HIDE DEF days
<1>4. ch \in Charts
  <2>1. Beginning \in Int /\ now - days \in Int
    BY <1>1, <1>3, Bounds
  <2>2. (IF days = MaxDays THEN Beginning ELSE now - days) \in Int
    BY <2>1
  <2>3. /\ q.coin \in {r.coin : r \in Asks} \cup {""}
        /\ q.interval \in {r.interval : r \in Asks} \cup {""}
    BY <1>1
  <2> QED  BY <1>1, <2>2, <2>3 DEF Chart, Charts
<1>5. Suits(ch, q)
  BY <1>1, <1>3 DEF Suits, Chart, days
<1> HIDE DEF ch
<1>6. TypeOK'
  BY <1>2, <1>4 DEF ChartInv, TypeOK, cacheVars, itemVars, requestVars
<1>7. AskIsValid'
  BY <1>1, <1>2 DEF ChartInv, TypeOK, AskIsValid, Asking, Validate
<1>8. ChartSuits'
  <2>1. now' = now /\ ask' = ask
    BY <1>2
  <2> SUFFICES ASSUME NEW d \in Clients, pc'[d] \in {"store", "answered"}
               PROVE  Suits(chart'[d], ask[d])
    BY <2>1 DEF ChartSuits, Suits, RoundedDays, RoundUp
  <2>2. CASE d = c
    BY <1>2, <1>5, <2>2 DEF ChartInv, TypeOK
  <2>3. CASE d # c
    BY <1>2, <2>3 DEF ChartInv, TypeOK, ChartSuits
  <2> QED  BY <2>2, <2>3
<1>9. CacheSuits'
  BY <1>2, CacheSuitsKept DEF ChartInv
<1> QED  BY <1>6, <1>7, <1>8, <1>9 DEF ChartInv

LEMMA ChartOfFailure ==
  ASSUME ChartInv, NEW c \in Clients, FetchFails(c)
  PROVE  ChartInv'
<1>1. /\ pc' = [pc EXCEPT ![c] = "idle"] /\ ask' = [ask EXCEPT ![c] = NoAsk]
      /\ UNCHANGED <<cacheVars, now, chart, itemVars>>
  BY DEF FetchFails, Goto
<1>2. TypeOK'
  BY <1>1 DEF ChartInv, TypeOK, cacheVars, itemVars, requestVars
<1>3. AskIsValid'
  BY <1>1 DEF ChartInv, TypeOK, AskIsValid, Asking, Validate
<1>4. ChartSuits'
  BY <1>1 DEF ChartInv, TypeOK, ChartSuits, Suits, RoundedDays, RoundUp
<1>5. CacheSuits'
  BY <1>1, CacheSuitsKept DEF ChartInv
<1> QED  BY <1>2, <1>3, <1>4, <1>5 DEF ChartInv

\* A chart that is stored suits all requests that share its key.
LEMMA ChartOfStore ==
  ASSUME ChartInv, NEW c \in Clients, cacheData(c)
  PROVE  ChartInv'
<1> DEFINE q == ask[c]
<1> DEFINE k == createCacheKey(q)
<1> DEFINE timeout == selectTTL(q)
<1>1. q \in Asks /\ Validate(q) /\ k \in CacheKeys
  BY KeyOfChart DEF cacheData, ChartInv, AskIsValid, Asking
<1>2. Suits(chart[c], q)
  BY DEF cacheData, ChartInv, ChartSuits
<1>3. /\ pc' = [pc EXCEPT ![c] = "answered"]
      /\ Cache!SetKey(k, chart[c], timeout)
      /\ UNCHANGED <<now, ask, chart, itemVars>>
  BY DEF cacheData, Goto, chartVars
<1>4. chart[c] \in Charts /\ timeout \in Nat
  BY Bounds DEF ChartInv, TypeOK, selectTTL
<1> HIDE DEF timeout
<1>5. TypeOK'
  BY <1>1, <1>3, <1>4, TypeOfSet DEF ChartInv, TypeOK, itemVars, requestVars
<1>6. AskIsValid'
  BY <1>1, <1>3 DEF ChartInv, TypeOK, AskIsValid, Asking, Validate
<1>7. ChartSuits'
  <2>1. pc[c] = "store"
    BY DEF cacheData
  <2> QED  BY <1>3, <2>1 DEF ChartInv, TypeOK, ChartSuits, Suits, RoundedDays, RoundUp
<1>8. CacheSuits'
  <2> SUFFICES ASSUME NEW r \in Asks, Validate(r),
                      Cache!Found(createCacheKey(r))'
               PROVE  Suits(val[createCacheKey(r)], r)'
    BY DEF CacheSuits, Validate
  <2> DEFINE kr == createCacheKey(r)
  <2>1. kr \in CacheKeys /\ kr' = kr
    BY KeyOfChart DEF createCacheKey, RoundedDays, RoundUp
  <2>2. CASE kr = k
    <3>1. q.coin = r.coin /\ RoundedDays(q) = RoundedDays(r) /\ q.interval = r.interval
      BY <2>2 DEF createCacheKey
    <3>2. Suits(chart[c], r)
      BY <1>2, <3>1 DEF Suits
    <3>3. val'[kr] = chart[c]
      BY <1>1, <1>3, <2>2 DEF Cache!SetKey, ChartInv, TypeOK
    <3>4. now' = now
      BY <1>3
    <3> QED  BY <2>1, <3>2, <3>3, <3>4 DEF Suits, RoundedDays, RoundUp
  <2>3. CASE kr # k
    <3>1. val'[kr] = val[kr] /\ ttl'[kr] = ttl[kr] /\ now' = now
      BY <1>1, <1>3, <2>1, <2>3 DEF Cache!SetKey, ChartInv, TypeOK
    <3>2. Cache!Found(kr)
      BY <2>1, <3>1 DEF Cache!Found
    <3>3. Suits(val[kr], r)
      BY <3>2 DEF ChartInv, CacheSuits
    <3> QED  BY <2>1, <3>1, <3>3 DEF Suits, RoundedDays, RoundUp
  <2> QED  BY <2>2, <2>3
<1> QED  BY <1>5, <1>6, <1>7, <1>8 DEF ChartInv

\* Charts get older and expire; those that are found were found before.
LEMMA ChartOfTick ==
  ASSUME ChartInv, Tick
  PROVE  ChartInv'
<1>1. /\ now' = now + 1 /\ now < MaxTime /\ val' = val
      /\ ttl' = [k \in CacheKeys |-> IF ttl[k] > 0 THEN ttl[k] - 1 ELSE 0]
      /\ NoteItems /\ UNCHANGED <<pc, ask, chart, requestVars>>
  BY DEF Tick, Cache!CacheTick, chartVars
<1>2. now \in 0..MaxTime /\ MaxTime \in Nat
  BY Bounds DEF ChartInv, TypeOK
<1>3. TypeOK'
  <2>1. ttl' \in [CacheKeys -> Nat]
    BY <1>1 DEF ChartInv, TypeOK
  <2>2. now' \in 0..MaxTime
    BY <1>1, <1>2
  <2>3. stayed' \in [Clients -> SUBSET Items] /\ seen' \in [Clients -> SUBSET Items]
    BY <1>1, TypeOfNote DEF ChartInv
  <2> QED  BY <1>1, <2>1, <2>2, <2>3 DEF ChartInv, TypeOK, requestVars
<1>4. AskIsValid'
  BY <1>1 DEF ChartInv, AskIsValid, Validate
<1>5. ASSUME NEW ch \in Charts, NEW q \in Asks, Validate(q), Suits(ch, q)
      PROVE  Suits(ch, q)'
  <2>1. ch.from \in Int /\ RoundedDays(q) \in Int
    BY <1>5, Rounded DEF Charts
  <2>2. RoundedDays(q)' = RoundedDays(q)
    BY DEF RoundedDays, RoundUp
  <2>3. now' - RoundedDays(q) >= now - RoundedDays(q)
    BY <1>1, <1>2, <2>1
  <2>4. RoundedDays(q) # MaxDays => ch.from <= now' - RoundedDays(q)
    BY <1>1, <1>2, <1>5, <2>1 DEF Suits
  <2> QED  BY <1>5, <2>2, <2>4 DEF Suits
<1>6. ChartSuits'
  <2> SUFFICES ASSUME NEW c \in Clients, pc[c] \in {"store", "answered"}
               PROVE  Suits(chart[c], ask[c])'
    BY <1>1 DEF ChartSuits
  <2>1. chart[c] \in Charts /\ ask[c] \in Asks /\ Validate(ask[c]) /\ Suits(chart[c], ask[c])
    BY DEF ChartInv, TypeOK, AskIsValid, Asking, ChartSuits
  <2> QED  BY <1>1, <1>5, <2>1 DEF Suits, RoundedDays, RoundUp
<1>7. CacheSuits'
  <2> SUFFICES ASSUME NEW q \in Asks, Validate(q),
                      Cache!Found(createCacheKey(q))'
               PROVE  Suits(val[createCacheKey(q)], q)'
    BY DEF CacheSuits, Validate
  <2> DEFINE k == createCacheKey(q)
  <2>1. k \in CacheKeys /\ k' = k
    BY KeyOfChart DEF createCacheKey, RoundedDays, RoundUp
  <2> HIDE DEF k
  <2>2. ttl'[k] > 0 /\ ttl[k] \in Nat
    BY <2>1 DEF Cache!Found, k, ChartInv, TypeOK
  <2>3. ttl[k] > 0
    BY <1>1, <2>1, <2>2
  <2>4. Suits(val[k], q) /\ val[k] \in Charts
    BY <2>1, <2>3 DEF ChartInv, CacheSuits, Cache!Found, k, TypeOK
  <2> QED  BY <1>1, <1>5, <2>1, <2>4 DEF k, Suits, RoundedDays, RoundUp
<1> QED  BY <1>3, <1>4, <1>6, <1>7 DEF ChartInv

\* Items are none of the charts' business, but share the requests and the cache.
ItemStep(c) == AskItems(c) \/ GetItem(c)

LEMMA TypeOfItems ==
  ASSUME TypeOK, NEW c \in Clients, ItemStep(c)
  PROVE  TypeOK'
<1>1. CASE AskItems(c)
  <2>1. PICK k \in Kinds, l \in Lists :
          kind' = [kind EXCEPT ![c] = k] /\ list' = [list EXCEPT ![c] = l]
    BY <1>1 DEF AskItems
  <2>2. Cached \subseteq Items
    BY DEF Cached
  <2>3. stayed' \in [Clients -> SUBSET Items] /\ seen' \in [Clients -> SUBSET Items]
    BY <1>1, <2>2 DEF TypeOK, AskItems
  <2> QED  BY <1>1, <2>1, <2>3 DEF TypeOK, AskItems, Goto, cacheVars, chartVars
<1>2. CASE GetItem(c)
  <2>1. list[c] \in Seq(Items) /\ next[c] \in 1..Len(list[c])
    BY <1>2, RequestsAssumption DEF GetItem, TypeOK
  <2> DEFINE i == list[c][next[c]]
  <2>2. i \in Items
    BY <2>1
  <2>3. /\ hits' = hits \/ hits' = [hits EXCEPT ![c] = @ \cup {i}]
        /\ missing' = missing \/ missing' = [missing EXCEPT ![c] = @ \cup {i}]
    BY <1>2 DEF GetItem
  <2> HIDE DEF i
  <2>4. hits' \in [Clients -> SUBSET Items] /\ missing' \in [Clients -> SUBSET Items]
    <3>1. hits[c] \cup {i} \in SUBSET Items /\ missing[c] \cup {i} \in SUBSET Items
      BY <2>2 DEF TypeOK
    <3>2. hits \in [Clients -> SUBSET Items] /\ missing \in [Clients -> SUBSET Items]
      BY DEF TypeOK
    <3>3. hits' \in [Clients -> SUBSET Items]
      BY <2>3, <3>1, <3>2
    <3>4. missing' \in [Clients -> SUBSET Items]
      BY <2>3, <3>1, <3>2
    <3> QED  BY <3>3, <3>4
  <2>5. next' \in [Clients -> Nat \ {0}]
    BY <1>2 DEF GetItem, TypeOK
  <2>6. pc' = [pc EXCEPT ![c] = IF next[c] = Len(list[c]) THEN "items" ELSE "get"]
    BY <1>2 DEF GetItem, Goto
  <2> QED  BY <1>2, <2>4, <2>5, <2>6 DEF TypeOK, GetItem, cacheVars, chartVars
<1> QED  BY <1>1, <1>2 DEF ItemStep

LEMMA ChartOfItems ==
  ASSUME ChartInv, NEW c \in Clients, ItemStep(c)
  PROVE  ChartInv'
<1>1. TypeOK'
  BY TypeOfItems DEF ChartInv
<1>2. UNCHANGED <<cacheVars, now, ask, chart>>
  BY DEF ItemStep, AskItems, GetItem, chartVars
<1>3. \A d \in Clients : pc'[d] \in Asking => pc'[d] = pc[d]
  BY DEF ChartInv, TypeOK, ItemStep, AskItems, GetItem, Goto, Asking
<1>4. AskIsValid'
  BY <1>2, <1>3 DEF ChartInv, AskIsValid, Validate
<1>5. ChartSuits'
  BY <1>2, <1>3 DEF ChartInv, ChartSuits, Asking, Suits, RoundedDays, RoundUp
<1>6. CacheSuits'
  BY <1>2, CacheSuitsKept DEF ChartInv
<1> QED  BY <1>1, <1>4, <1>5, <1>6 DEF ChartInv

LEMMA ChartOfReturn ==
  ASSUME ChartInv, NEW c \in Clients, Return(c)
  PROVE  ChartInv'
<1>1. NoChart \in Charts
  BY DEF NoChart, Charts
<1>2. TypeOK'
  BY <1>1 DEF ChartInv, TypeOK, Return, Goto, cacheVars, Kinds
<1>3. UNCHANGED <<cacheVars, now>>
  BY DEF Return
<1>4. \A d \in Clients : pc'[d] \in Asking =>
          pc'[d] = pc[d] /\ ask'[d] = ask[d] /\ chart'[d] = chart[d]
  BY DEF ChartInv, TypeOK, Return, Goto, Asking
<1>5. AskIsValid'
  BY <1>4 DEF ChartInv, AskIsValid, Validate
<1>6. ChartSuits'
  BY <1>3, <1>4 DEF ChartInv, ChartSuits, Asking, Suits, RoundedDays, RoundUp
<1>7. CacheSuits'
  BY <1>3, CacheSuitsKept DEF ChartInv
<1> QED  BY <1>2, <1>5, <1>6, <1>7 DEF ChartInv

LEMMA ChartOfRefill ==
  ASSUME ChartInv, NEW i \in Items, Refill(i)
  PROVE  ChartInv'
<1>1. /\ Cache!SetKey(ItemKey(i), NoChart, ItemTTL)
      /\ NoteItems /\ UNCHANGED <<now, pc, chartVars, requestVars>>
  BY DEF Refill
<1>2. NoChart \in Charts /\ ItemKey(i) \in CacheKeys /\ ItemTTL \in Nat
  BY Bounds DEF NoChart, Charts, CacheKeys
<1>3. TypeOK'
  BY <1>1, <1>2, TypeOfSet, TypeOfNote DEF ChartInv, TypeOK, chartVars, requestVars
<1>4. AskIsValid'
  BY <1>1 DEF ChartInv, AskIsValid, Validate, chartVars
<1>5. ChartSuits'
  BY <1>1 DEF ChartInv, ChartSuits, Suits, RoundedDays, RoundUp, chartVars
<1>6. CacheSuits'
  <2> SUFFICES ASSUME NEW q \in Asks, Validate(q),
                      Cache!Found(createCacheKey(q))'
               PROVE  Suits(val[createCacheKey(q)], q)'
    BY DEF CacheSuits, Validate
  <2> DEFINE k == createCacheKey(q)
  <2>1. k \in CacheKeys /\ k' = k /\ k # ItemKey(i)
    BY KeyOfChart, KeysDiffer DEF createCacheKey, RoundedDays, RoundUp
  <2>2. val'[k] = val[k] /\ ttl'[k] = ttl[k] /\ now' = now
    BY <1>1, <1>2, <2>1 DEF Cache!SetKey, ChartInv, TypeOK
  <2>3. Cache!Found(k)
    BY <2>1, <2>2 DEF Cache!Found
  <2>4. Suits(val[k], q)
    BY <2>3 DEF ChartInv, CacheSuits
  <2> QED  BY <2>1, <2>2, <2>4 DEF Suits, RoundedDays, RoundUp
<1> QED  BY <1>3, <1>4, <1>5, <1>6 DEF ChartInv

LEMMA ChartInitially == ASSUME Init PROVE ChartInv
<1>1. TypeOK
  BY TypeInitially
<1>2. AskIsValid /\ ChartSuits
  BY DEF Init, AskIsValid, ChartSuits, Asking
<1>3. CacheSuits
  BY KeyOfChart DEF Init, CacheSuits, Cache!CacheInit, Cache!Found
<1> QED  BY <1>1, <1>2, <1>3 DEF ChartInv

LEMMA ChartInductive ==
  ASSUME ChartInv, [Next]_vars
  PROVE  ChartInv'
<1>1. CASE Tick
  BY <1>1, ChartOfTick
<1>2. ASSUME NEW i \in Items, Refill(i) PROVE ChartInv'
  BY <1>2, ChartOfRefill
<1>3. ASSUME NEW c \in Clients,
             \/ AskChart(c) \/ getCachedData(c) \/ FetchMarketChart(c) \/ FetchFails(c)
             \/ cacheData(c) \/ ItemStep(c) \/ Return(c)
      PROVE  ChartInv'
  BY <1>3, ChartOfAsk, ChartOfLookup, ChartOfFetch, ChartOfFailure, ChartOfStore,
     ChartOfItems, ChartOfReturn
<1>4. CASE UNCHANGED vars
  <2>1. UNCHANGED <<cacheVars, now>>
    BY <1>4 DEF vars
  <2>2. TypeOK' /\ AskIsValid' /\ ChartSuits'
    BY <1>4 DEF vars, cacheVars, chartVars, itemVars, requestVars, ChartInv, TypeOK, AskIsValid,
                Validate, ChartSuits, Suits, RoundedDays, RoundUp
  <2>3. CacheSuits'
    BY <2>1, CacheSuitsKept DEF ChartInv
  <2> QED  BY <2>2, <2>3 DEF ChartInv
<1> QED  BY <1>1, <1>2, <1>3, <1>4 DEF Next, ItemStep

(***************************************************************************)
(* The variables keep their types: requests, charts and the cache, for any *)
(* charts and lists that are asked for.                                    *)
(***************************************************************************)
THEOREM TypeCorrect == Spec => []TypeOK
<1>1. Init => ChartInv
  BY ChartInitially
<1>2. ChartInv /\ [Next]_vars => ChartInv'
  BY ChartInductive
<1>3. ChartInv => TypeOK
  BY DEF ChartInv
<1> QED  BY <1>1, <1>2, <1>3, PTL DEF Spec

(***************************************************************************)
(* RoundUp, the cache key and StripMarketChartResponse fit together: the   *)
(* answer has the days asked for whatever was cached, by whom and when.    *)
(***************************************************************************)
THEOREM ChartsCover == Spec => []ChartCovers
<1>1. Init => ChartInv
  BY ChartInitially
<1>2. ChartInv /\ [Next]_vars => ChartInv'
  BY ChartInductive
<1>3. ASSUME ChartInv PROVE ChartCovers
  <2> SUFFICES ASSUME NEW c \in Clients, pc[c] = "answered"
               PROVE  LET q == ask[c]
                          answer == StripMarketChartResponse(q, chart[c])
                      IN  /\ answer.coin = q.coin /\ answer.interval = q.interval
                          /\ q.days = MaxDays => answer.from = Beginning
                          /\ q.days \in 1..Year => answer.from = now - q.days
    BY DEF ChartCovers
  <2> DEFINE q == ask[c]
  <2> DEFINE ch == chart[c]
  <2> DEFINE answer == StripMarketChartResponse(q, ch)
  <2>1. q \in Asks /\ Validate(q) /\ ch \in Charts /\ Suits(ch, q)
    BY <1>3 DEF ChartInv, TypeOK, AskIsValid, Asking, ChartSuits
  <2>2. now \in Int /\ Year \in Nat
    BY <1>3, Bounds DEF ChartInv, TypeOK
  <2> HIDE DEF q, ch
  <2>3. answer.coin = q.coin /\ answer.interval = q.interval
    BY <2>1 DEF StripMarketChartResponse, Suits, Charts
  <2>4. ASSUME q.days = MaxDays PROVE answer.from = Beginning
    BY <2>1, <2>4, Rounded DEF StripMarketChartResponse, Suits
  <2>5. ASSUME q.days \in 1..Year PROVE answer.from = now - q.days
    <3>1. q.days \notin {NoDays, MaxDays} /\ q.days \in Int
      BY <2>2, <2>5, Bounds
    <3>2. ch.from <= now - RoundedDays(q) /\ RoundedDays(q) >= q.days /\ RoundedDays(q) \in Int
      BY <2>1, <2>5, <3>1, Rounded DEF Suits
    <3>3. ch.from \in Int
      BY <2>1 DEF Charts
    <3>4. ch.from <= now - q.days
      BY <2>2, <3>1, <3>2, <3>3
    <3>5. CASE ch.from >= now - q.days
      <4>1. answer = ch
        BY <3>1, <3>5 DEF StripMarketChartResponse
      <4>2. ch.from = now - q.days
        BY <2>2, <3>1, <3>3, <3>4, <3>5
      <4> QED  BY <4>1, <4>2
    <3>6. CASE ~(ch.from >= now - q.days)
      <4>1. answer = [ch EXCEPT !.from = now - q.days]
        BY <3>1, <3>6 DEF StripMarketChartResponse
      <4> QED  BY <2>1, <4>1 DEF Charts
    <3> QED  BY <3>5, <3>6
  <2> QED  BY <2>3, <2>4, <2>5 DEF q, ch
<1> QED  BY <1>1, <1>2, <1>3, PTL DEF Spec

-----------------------------------------------------------------------------
(***************************************************************************)
(* While a request looks its items up, those done with are the ones it has *)
(* counted as found or as missing.  What it found was in the cache at some *)
(* time since it began, what it misses was not there all the time.         *)
(***************************************************************************)
Reading(c) == pc[c] \in {"get", "items"}

Looked(c) == {list[c][n] : n \in 1..(next[c] - 1)}

Counted(c) ==
    /\ Reading(c) =>
         /\ list[c] \in Lists /\ hits[c] \cup missing[c] = Looked(c)
         /\ hits[c] \subseteq seen[c] /\ missing[c] \cap stayed[c] = {}
         /\ stayed[c] \subseteq Cached /\ Cached \subseteq seen[c]
    /\ pc[c] = "items" => next[c] = Len(list[c]) + 1
    /\ ~Reading(c) => next[c] = 1 /\ hits[c] = {} /\ missing[c] = {}

ItemsCounted == \A c \in Clients : Counted(c)

\* Steps of others, and those that only look at charts.
LEMMA CountedKept ==
  ASSUME NEW c \in Clients, Counted(c), Cached' = Cached,
         kind'[c] = kind[c], list'[c] = list[c], next'[c] = next[c], hits'[c] = hits[c],
         missing'[c] = missing[c], stayed'[c] = stayed[c], seen'[c] = seen[c],
         pc'[c] = pc[c] \/ ~(Reading(c) \/ Reading(c)')
  PROVE  Counted(c)'
BY DEF Counted, Reading, Looked

\* The cache changes: what is seen grows, what stays shrinks.
LEMMA CountedOfNote ==
  ASSUME TypeOK, ItemsCounted, NoteItems, UNCHANGED <<pc, requestVars>>
  PROVE  ItemsCounted'
<1> SUFFICES ASSUME NEW c \in Clients PROVE Counted(c)'
  BY DEF ItemsCounted
<1>1. Counted(c)
  BY DEF ItemsCounted
<1>2. /\ stayed'[c] = stayed[c] \cap Cached'
      /\ Reading(c) => seen'[c] = seen[c] \cup Cached'
  BY DEF NoteItems, Reading
<1>3. (Reading(c)' <=> Reading(c)) /\ Looked(c)' = Looked(c)
  BY DEF Reading, Looked, requestVars
<1> QED  BY <1>1, <1>2, <1>3 DEF Counted, requestVars

LEMMA CountedOfGet ==
  ASSUME TypeOK, ItemsCounted, NEW c \in Clients, GetItem(c)
  PROVE  ItemsCounted'
<1> DEFINE i == list[c][next[c]]
<1>1. /\ pc[c] = "get"
      /\ next' = [next EXCEPT ![c] = @ + 1]
      /\ pc' = [pc EXCEPT ![c] = IF next[c] = Len(list[c]) THEN "items" ELSE "get"]
      /\ IF Cache!Found(ItemKey(i))
         THEN hits' = [hits EXCEPT ![c] = @ \cup {i}] /\ missing' = missing
         ELSE missing' = [missing EXCEPT ![c] = @ \cup {i}] /\ hits' = hits
      /\ UNCHANGED <<cacheVars, kind, list, stayed, seen>>
  BY DEF GetItem, Goto
<1>2. next[c] \in 1..Len(list[c]) /\ next'[c] = next[c] + 1
  BY <1>1 DEF TypeOK, GetItem
<1>3. Cached' = Cached
  BY <1>1 DEF Cached, Cache!Found, cacheVars
<1>4. Counted(c) /\ Reading(c) /\ Reading(c)'
  BY <1>1 DEF ItemsCounted, Reading, TypeOK
<1>5. i \in Items
  BY <1>2, <1>4, RequestsAssumption DEF Counted
<1>6. Looked(c)' = Looked(c) \cup {i}
  <2>1. Looked(c)' = {list[c][n] : n \in 1..next[c]}
    BY <1>1, <1>2 DEF Looked
  <2>2. \A n \in 1..next[c] : n = next[c] \/ n \in 1..(next[c] - 1)
    BY <1>2
  <2>3. next[c] \in 1..next[c] /\ 1..(next[c] - 1) \subseteq 1..next[c]
    BY <1>2
  <2> QED  BY <2>1, <2>2, <2>3 DEF Looked
<1>7. hits'[c] \cup missing'[c] = Looked(c)' /\ hits'[c] \subseteq seen[c]
      /\ missing'[c] \cap stayed[c] = {}
  <2>1. CASE Cache!Found(ItemKey(i))
    <3>1. i \in Cached
      BY <1>5, <2>1 DEF Cached
    <3> HIDE DEF i
    <3>2. hits'[c] = hits[c] \cup {i} /\ missing'[c] = missing[c]
      BY <1>1, <2>1 DEF TypeOK
    <3> QED  BY <1>4, <1>6, <3>1, <3>2 DEF Counted
  <2>2. CASE ~Cache!Found(ItemKey(i))
    <3>1. i \notin Cached
      BY <2>2 DEF Cached
    <3> HIDE DEF i
    <3>2. missing'[c] = missing[c] \cup {i} /\ hits'[c] = hits[c]
      BY <1>1, <2>2 DEF TypeOK
    <3> QED  BY <1>4, <1>6, <3>1, <3>2 DEF Counted
  <2> QED  BY <2>1, <2>2
<1>8. pc'[c] = "items" => next'[c] = Len(list'[c]) + 1
  BY <1>1, <1>2 DEF TypeOK
<1>9. Counted(c)'
  BY <1>1, <1>3, <1>4, <1>7, <1>8 DEF Counted
<1>10. ASSUME NEW d \in Clients, d # c PROVE Counted(d)'
  <2>1. /\ pc'[d] = pc[d] /\ next'[d] = next[d] /\ hits'[d] = hits[d]
        /\ missing'[d] = missing[d]
    BY <1>1, <1>10 DEF TypeOK
  <2> QED  BY <1>1, <1>3, <2>1, CountedKept DEF ItemsCounted
<1> QED  BY <1>9, <1>10 DEF ItemsCounted

LEMMA CountedOfAsk ==
  ASSUME TypeOK, ItemsCounted, NEW c \in Clients, AskItems(c)
  PROVE  ItemsCounted'
<1>1. PICK k \in Kinds, l \in Lists :
        kind' = [kind EXCEPT ![c] = k] /\ list' = [list EXCEPT ![c] = l]
  BY DEF AskItems
<1>2. /\ pc[c] = "idle" /\ pc' = [pc EXCEPT ![c] = "get"]
      /\ stayed' = [stayed EXCEPT ![c] = Cached] /\ seen' = [seen EXCEPT ![c] = Cached]
      /\ UNCHANGED <<cacheVars, next, hits, missing>>
  BY DEF AskItems, Goto
<1>3. Cached' = Cached
  BY <1>2 DEF Cached, Cache!Found, cacheVars
<1>4. next'[c] = 1 /\ hits'[c] = {} /\ missing'[c] = {}
  BY <1>2 DEF ItemsCounted, Counted, Reading
<1>5. pc'[c] = "get" /\ list'[c] = l /\ stayed'[c] = Cached /\ seen'[c] = Cached
  BY <1>1, <1>2 DEF TypeOK
<1>6. Looked(c)' = {}
  BY <1>4 DEF Looked
<1>7. Counted(c)'
  BY <1>3, <1>4, <1>5, <1>6 DEF Counted, Reading
<1>8. ASSUME NEW d \in Clients, d # c PROVE Counted(d)'
  <2>1. /\ pc'[d] = pc[d] /\ kind'[d] = kind[d] /\ list'[d] = list[d]
        /\ stayed'[d] = stayed[d] /\ seen'[d] = seen[d]
    BY <1>1, <1>2, <1>8 DEF TypeOK
  <2> QED  BY <1>2, <1>3, <2>1, CountedKept DEF ItemsCounted
<1> QED  BY <1>7, <1>8 DEF ItemsCounted

LEMMA CountedOfReturn ==
  ASSUME TypeOK, ItemsCounted, NEW c \in Clients, Return(c)
  PROVE  ItemsCounted'
<1>1. pc'[c] = "idle" /\ next'[c] = 1 /\ hits'[c] = {} /\ missing'[c] = {}
  BY DEF Return, Goto, TypeOK
<1>2. Counted(c)'
  BY <1>1 DEF Counted, Reading
<1>3. Cached' = Cached
  BY DEF Return, Cached, Cache!Found, cacheVars
<1>4. ASSUME NEW d \in Clients, d # c PROVE Counted(d)'
  <2>1. /\ pc'[d] = pc[d] /\ kind'[d] = kind[d] /\ list'[d] = list[d] /\ next'[d] = next[d]
        /\ hits'[d] = hits[d] /\ missing'[d] = missing[d]
        /\ stayed'[d] = stayed[d] /\ seen'[d] = seen[d]
    BY <1>4 DEF Return, Goto, TypeOK
  <2> QED  BY <1>3, <2>1, CountedKept DEF ItemsCounted
<1> QED  BY <1>2, <1>4 DEF ItemsCounted

ChartStep(c) ==
    AskChart(c) \/ getCachedData(c) \/ FetchMarketChart(c) \/ FetchFails(c) \/ cacheData(c)

LEMMA CountedOfChart ==
  ASSUME TypeOK, ItemsCounted, NEW c \in Clients, ChartStep(c)
  PROVE  ItemsCounted'
<1>1. UNCHANGED itemVars
  BY DEF ChartStep, AskChart, getCachedData, FetchMarketChart, FetchFails, cacheData
<1>2. Cached' = Cached
  <2>1. CASE cacheData(c)
    <3> DEFINE k == createCacheKey(ask[c])
    <3>1. Cache!SetKey(k, chart[c], selectTTL(ask[c]))
      BY <2>1 DEF cacheData
    <3>2. \A i \in Items : ItemKey(i) \in CacheKeys /\ ItemKey(i) # k
      BY KeysDiffer DEF CacheKeys
    <3>3. \A i \in Items : ttl'[ItemKey(i)] = ttl[ItemKey(i)]
      BY <3>1, <3>2 DEF Cache!SetKey, TypeOK
    <3> QED  BY <3>3 DEF Cached, Cache!Found, ItemKey
  <2>2. CASE UNCHANGED cacheVars
    BY <2>2 DEF Cached, Cache!Found, cacheVars
  <2> QED  BY <2>1, <2>2 DEF ChartStep, AskChart, getCachedData, FetchMarketChart, FetchFails
<1>3. /\ pc[c] \in {"idle", "lookup", "fetch", "store"}
      /\ \E l \in {"lookup", "answered", "fetch", "store", "idle"} : pc' = [pc EXCEPT ![c] = l]
  BY DEF ChartStep, AskChart, getCachedData, FetchMarketChart, FetchFails, cacheData, Goto
<1>4. \A d \in Clients : pc'[d] = pc[d] \/ ~(Reading(d) \/ Reading(d)')
  BY <1>3 DEF TypeOK, Reading
<1> QED  BY <1>1, <1>2, <1>4, CountedKept DEF ItemsCounted, itemVars, requestVars

LEMMA CountedInductive ==
  ASSUME TypeOK, ItemsCounted, [Next]_vars
  PROVE  ItemsCounted'
<1>1. CASE Tick \/ \E i \in Items : Refill(i)
  BY <1>1, CountedOfNote DEF Tick, Refill
<1>2. ASSUME NEW c \in Clients, ChartStep(c) \/ ItemStep(c) \/ Return(c)
      PROVE  ItemsCounted'
  BY <1>2, CountedOfChart, CountedOfAsk, CountedOfGet, CountedOfReturn DEF ItemStep
<1>3. CASE UNCHANGED vars
  <2>1. Cached' = Cached
    BY <1>3 DEF vars, Cached, Cache!Found, cacheVars
  <2> QED  BY <1>3, <2>1, CountedKept DEF vars, itemVars, requestVars, ItemsCounted
<1> QED  BY <1>1, <1>2, <1>3 DEF Next, ChartStep, ItemStep

(***************************************************************************)
(* StatusIsHonest: the Cache-Status agrees with what the cache held while  *)
(* the request read it, for any list of items, with any of them twice, and *)
(* whatever expires or is stored between two reads.                        *)
(***************************************************************************)
THEOREM StatusHonest == Spec => []StatusIsHonest
<1> DEFINE Inv == ChartInv /\ ItemsCounted
<1>1. Init => Inv
  <2>1. Init => ItemsCounted
    BY DEF Init, ItemsCounted, Counted, Reading
  <2> QED  BY <2>1, ChartInitially
<1>2. Inv /\ [Next]_vars => Inv'
  BY ChartInductive, CountedInductive DEF ChartInv
<1>3. ASSUME Inv PROVE StatusIsHonest
  <2> SUFFICES ASSUME NEW c \in Clients, pc[c] = "items"
               PROVE  LET asked == Range(list[c]) IN
                      /\ cacheStatus(c) = "full" => asked \subseteq seen[c]
                      /\ cacheStatus(c) = "miss" => asked \cap stayed[c] = {}
                      /\ asked \subseteq stayed[c] =>
                           cacheStatus(c) = IF kind[c] = "markets" /\ AskedTwice(c)
                                            THEN "partial" ELSE "full"
                      /\ asked \cap seen[c] = {} => cacheStatus(c) = "miss"
    BY DEF StatusIsHonest
  <2> DEFINE asked == Range(list[c])
  <2>1. /\ list[c] \in Seq(Items) /\ list[c] # <<>> /\ next[c] = Len(list[c]) + 1
        /\ hits[c] \cup missing[c] = Looked(c)
        /\ hits[c] \subseteq seen[c] /\ missing[c] \cap stayed[c] = {}
        /\ kind[c] \in Kinds
    BY <1>3, RequestsAssumption DEF ItemsCounted, Counted, Reading, ChartInv, TypeOK
  <2>2. asked = Looked(c)
    BY <2>1 DEF Range, Looked
  <2>3. asked # {}
    <3>1. Len(list[c]) \in Nat \ {0}
      BY <2>1
    <3>2. 1 \in DOMAIN list[c]
      BY <2>1, <3>1
    <3>3. list[c][1] \in asked
      BY <3>2 DEF Range
    <3> QED  BY <3>3
  <2>4. asked \subseteq stayed[c] => missing[c] = {} /\ hits[c] = asked
    BY <2>1, <2>2
  <2>5. asked \cap seen[c] = {} => hits[c] = {} /\ missing[c] # {}
    BY <2>1, <2>2, <2>3
  <2>6. cacheStatus(c) = "full" => missing[c] = {}
    BY DEF cacheStatus, AllFound
  <2>7. cacheStatus(c) = "miss" => hits[c] = {}
    BY DEF cacheStatus
  <2>8. asked \subseteq stayed[c] =>
          cacheStatus(c) = IF kind[c] = "markets" /\ AskedTwice(c) THEN "partial" ELSE "full"
    <3> SUFFICES ASSUME asked \subseteq stayed[c]
                 PROVE  cacheStatus(c) = IF kind[c] = "markets" /\ AskedTwice(c)
                                         THEN "partial" ELSE "full"
      OBVIOUS
    <3>1. missing[c] = {} /\ hits[c] = asked /\ hits[c] # {}
      BY <2>3, <2>4
    <3>2. AskedTwice(c) <=> Cardinality(hits[c]) # Len(list[c])
      BY <3>1 DEF AskedTwice
    <3> HIDE DEF asked
    <3> QED  BY <3>1, <3>2 DEF cacheStatus, AllFound
  <2>9. cacheStatus(c) = "full" => asked \subseteq seen[c]
    BY <2>1, <2>2, <2>6
  <2>10. cacheStatus(c) = "miss" => asked \cap stayed[c] = {}
    BY <2>1, <2>2, <2>7
  <2>11. asked \cap seen[c] = {} => cacheStatus(c) = "miss"
    BY <2>5 DEF cacheStatus, AllFound
  <2> QED  BY <2>8, <2>9, <2>10, <2>11
<1> HIDE DEF Inv
<1> QED  BY <1>1, <1>2, <1>3, PTL DEF Spec
=============================================================================
