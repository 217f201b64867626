------------------------- MODULE PricesServiceProofs -------------------------
(***************************************************************************)
(* Proofs about PricesService, for any ids, rankings, tiers, chunk sizes   *)
(* and any number of fetches and callbacks at once: the types, that what   *)
(* was fetched gets stored, and that the quotes follow the stored prices.  *)
(***************************************************************************)
EXTENDS PricesService, TLAPS

LEMMA NoPricesType == NoPrices \in Prices
<1>1. MaxVersion \in Nat
  BY PricesServiceAssumption
<1> QED  BY <1>1 DEF NoPrices, Prices

LEMMA ListedAreIds ==
  ASSUME TypeOK, NEW from, NEW to
  PROVE  ListedIds(from, to) \subseteq Ids
<1> DEFINE list == Rankings[ranking]
<1>1. list \in Seq(Ids)
  BY PricesServiceAssumption DEF TypeOK
<1> HIDE DEF list
<1>2. \A n \in 1..Len(list) : list[n] \in Ids
  BY <1>1
<1> QED  BY <1>2 DEF ListedIds, list

\* A callback gets the prices it is spawned with.
LEMMA TypeOfSpawn ==
  ASSUME TypeOK, NEW prices \in Prices, Spawn(prices)
  PROVE  /\ cb' \in [Callbacks -> Prices] /\ left' \in [Callbacks -> SUBSET Ids]
         /\ busy' \subseteq Callbacks
<1>1. Priced(prices) \subseteq Ids
  BY DEF Priced
<1> QED  BY <1>1 DEF TypeOK, Spawn

LEMMA TypeOfFetch ==
  ASSUME TypeOK, NEW f \in Fetches, Fetch(f)
  PROVE  TypeOK'
<1>a. MaxVersion \in Nat \ {0} /\ TTL \in Nat \ {0} /\ ExtraIds \subseteq Ids
  BY PricesServiceAssumption
<1>b. NoPrices \in Prices
  BY NoPricesType
<1>1. ASSUME NEW t \in Tiers, StartFetch(f, t)
      PROVE  TypeOK'
  <2>1. ListedIds(From[t], To[t]) \subseteq Ids
    BY ListedAreIds
  <2>2. since' \in 0..MaxVersion /\ done' \subseteq Ids
    BY <1>1, <1>a DEF TypeOK, StartFetch
  <2> QED  BY <1>1, <2>1, <2>2 DEF TypeOK, StartFetch, cacheVars, cbVars, boardVars
<1>2. CASE FetchChunk(f)
  <2>1. PICK chunk \in SUBSET todo[f] \ {{}} :
          LET add(prices) == [i \in Ids |-> IF i \in chunk THEN version ELSE prices[i]] IN
          /\ Spawn(add(NoPrices))
          /\ todo' = [todo EXCEPT ![f] = @ \ chunk]
          /\ own' = [own EXCEPT ![f] = IF fetch[f] = "tier" THEN add(@) ELSE @]
          /\ got' = [got EXCEPT ![f] = IF fetch[f] = "extra" THEN add(@) ELSE @]
          /\ done' = done \cup chunk
          /\ UNCHANGED <<cacheVars, version, ranking, fetch, tier, entry, age, boardVars, since>>
    BY <1>2 DEF FetchChunk
  <2> DEFINE add(prices) == [i \in Ids |-> IF i \in chunk THEN version ELSE prices[i]]
  <2>2. \A prices \in Prices : add(prices) \in Prices
    BY <1>a DEF TypeOK, Prices
  <2>3. own[f] \in Prices /\ got[f] \in Prices /\ chunk \subseteq Ids
    BY DEF TypeOK
  <2>4. add(own[f]) \in Prices /\ add(got[f]) \in Prices /\ add(NoPrices) \in Prices
    BY <1>b, <2>2, <2>3
  <2>5. Spawn(add(NoPrices))
    BY <2>1
  <2>6. /\ own' = [own EXCEPT ![f] = IF fetch[f] = "tier" THEN add(own[f]) ELSE @]
        /\ got' = [got EXCEPT ![f] = IF fetch[f] = "extra" THEN add(got[f]) ELSE @]
    BY <2>1
  <2> HIDE DEF add
  <2>7. /\ cb' \in [Callbacks -> Prices] /\ left' \in [Callbacks -> SUBSET Ids]
        /\ busy' \subseteq Callbacks
    BY <2>4, <2>5, TypeOfSpawn
  <2>8. own' \in [Fetches -> Prices] /\ got' \in [Fetches -> Prices]
    BY <2>4, <2>6 DEF TypeOK
  <2>9. todo' \in [Fetches -> SUBSET Ids] /\ done' \subseteq Ids
    BY <2>1, <2>3 DEF TypeOK
  <2> QED  BY <2>1, <2>7, <2>8, <2>9 DEF TypeOK, cacheVars, boardVars
<1>3. CASE ChunkFails(f)
  BY <1>3, <1>b DEF TypeOK, ChunkFails, cacheVars, cbVars, boardVars
<1>4. CASE TierFetched(f)
  <2>1. Priced(own[f]) \subseteq Ids
    BY DEF Priced
  <2>2. entry' \in [Tiers -> SUBSET Ids] /\ age' \in [Tiers -> 0..TTL]
    BY <1>4, <1>a, <2>1 DEF TypeOK, TierFetched
  <2>3. /\ todo' \in [Fetches -> SUBSET Ids]
        /\ fetch' \in [Fetches -> {"idle", "tier", "extra", "final"}]
    <3>1. CASE tier[f] \in CoinsList
      <4>1. PICK missing \in SUBSET ExtraIds :
              /\ todo' = [todo EXCEPT ![f] = missing]
              /\ fetch' = [fetch EXCEPT ![f] = IF missing = {} THEN "final" ELSE "extra"]
        BY <1>4, <3>1 DEF TierFetched
      <4> QED  BY <1>a, <4>1 DEF TypeOK
    <3>2. CASE tier[f] \notin CoinsList
      BY <1>4, <3>2 DEF TypeOK, TierFetched
    <3> QED  BY <3>1, <3>2
  <2> QED  BY <1>4, <2>2, <2>3 DEF TypeOK, TierFetched, cacheVars, cbVars, boardVars
<1>5. CASE ExtraFetched(f)
  <2>1. got[f] \in Prices /\ Spawn(got[f])
    BY <1>5 DEF TypeOK, ExtraFetched
  <2>2. /\ cb' \in [Callbacks -> Prices] /\ left' \in [Callbacks -> SUBSET Ids]
        /\ busy' \subseteq Callbacks
    BY <2>1, TypeOfSpawn
  <2> QED  BY <1>5, <1>b, <2>2 DEF TypeOK, ExtraFetched, cacheVars, boardVars
<1>6. CASE FinalUpdate(f)
  <2>1. own[f] \in Prices /\ Spawn(own[f])
    BY <1>6 DEF TypeOK, FinalUpdate
  <2>2. /\ cb' \in [Callbacks -> Prices] /\ left' \in [Callbacks -> SUBSET Ids]
        /\ busy' \subseteq Callbacks
    BY <2>1, TypeOfSpawn
  <2> QED  BY <1>6, <1>b, <2>2 DEF TypeOK, FinalUpdate, cacheVars, boardVars
<1> QED  BY <1>1, <1>2, <1>3, <1>4, <1>5, <1>6 DEF Fetch

BoardStep == BoardWakes \/ BoardReads \/ BoardPublishes

LEMMA NextCases ==
  ASSUME Next
  PROVE  \/ PricesMove \/ RankingMoves \/ Tick \/ BoardStep
         \/ \E f \in Fetches : Fetch(f)
         \/ \E c \in Callbacks : SetPrice(c) \/ EmitPrices(c)
BY DEF Next, BoardStep

LEMMA TypeOfCallback ==
  ASSUME TypeOK, NEW c \in Callbacks, SetPrice(c) \/ EmitPrices(c)
  PROVE  TypeOK'
<1>a. TTL \in Nat \ {0} /\ NoPrices \in Prices
  BY PricesServiceAssumption, NoPricesType
<1>1. CASE SetPrice(c)
  <2>1. PICK i \in left[c] :
          /\ val' = [val EXCEPT ![i] = cb[c][i]]
          /\ ttl' = [ttl EXCEPT ![i] = TTL]
          /\ left' = [left EXCEPT ![c] = @ \ {i}]
    BY <1>1 DEF SetPrice, Cache!SetKey
  <2>2. i \in Ids /\ cb[c] \in Prices
    BY DEF TypeOK
  <2>3. val' \in Prices
    BY <2>1, <2>2 DEF TypeOK, Prices
  <2>4. ttl' \in [Ids -> 0..TTL]
    BY <1>a, <2>1, <2>2 DEF TypeOK
  <2>5. left' \in [Callbacks -> SUBSET Ids]
    BY <2>1 DEF TypeOK
  <2> QED  BY <1>1, <2>3, <2>4, <2>5 DEF TypeOK, SetPrice, fetchVars, boardVars
<1>2. CASE EmitPrices(c)
  BY <1>2, <1>a DEF TypeOK, EmitPrices, cacheVars, fetchVars
<1> QED  BY <1>1, <1>2

LEMMA TypeOfBoard ==
  ASSUME TypeOK, BoardStep
  PROVE  TypeOK'
<1>a. NoPrices \in Prices
  BY NoPricesType
<1>1. CASE BoardWakes
  <2>1. TopMarketIds(Limit) \subseteq Ids
    BY ListedAreIds DEF TopMarketIds
  <2> QED  BY <1>1, <1>a, <2>1 DEF TypeOK, BoardWakes, cacheVars, fetchVars, cbVars
<1>2. CASE BoardReads
  <2>1. PICK i \in reads :
          /\ copy' = [copy EXCEPT ![i] = IF Cache!Found(i) THEN val[i] ELSE @]
          /\ reads' = reads \ {i}
    BY <1>2 DEF BoardReads
  <2>2. copy' \in Prices /\ reads' \subseteq Ids
    BY <2>1 DEF TypeOK, Prices
  <2> QED  BY <1>2, <2>2 DEF TypeOK, BoardReads, cacheVars, fetchVars, cbVars
<1>3. CASE BoardPublishes
  BY <1>3, <1>a DEF TypeOK, BoardPublishes, cacheVars, fetchVars, cbVars
<1> QED  BY <1>1, <1>2, <1>3 DEF BoardStep

LEMMA TypeInductive ==
  ASSUME TypeOK, [Next]_vars
  PROVE  TypeOK'
<1>1. CASE PricesMove
  BY <1>1, PricesServiceAssumption
     DEF TypeOK, PricesMove, cacheVars, fetchVars, cbVars, boardVars
<1>2. CASE RankingMoves
  <2>1. Len(Rankings) \in Nat
    BY PricesServiceAssumption
  <2> QED  BY <1>2, <2>1 DEF TypeOK, RankingMoves, cacheVars, fetchVars, cbVars, boardVars
<1>3. CASE Tick
  <2>1. TTL \in Nat \ {0}
    BY PricesServiceAssumption
  <2>2. val' = val /\ ttl' \in [Ids -> 0..TTL]
    BY <1>3, <2>1 DEF TypeOK, Tick, Cache!CacheTick
  <2>3. age' \in [Tiers -> 0..TTL]
    BY <1>3, <2>1 DEF TypeOK, Tick
  <2> QED  BY <1>3, <2>2, <2>3 DEF TypeOK, Tick, cbVars, boardVars
<1>4. CASE UNCHANGED vars
  BY <1>4 DEF TypeOK, vars, cacheVars, fetchVars, cbVars, boardVars
<1> QED
  BY <1>1, <1>2, <1>3, <1>4, NextCases, TypeOfFetch, TypeOfCallback, TypeOfBoard

LEMMA TypeInitially ==
  ASSUME Init
  PROVE  TypeOK
<1>1. /\ MaxVersion \in Nat \ {0} /\ TTL \in Nat \ {0} /\ NoPrices \in Prices
      /\ Len(Rankings) \in Nat \ {0}
  BY PricesServiceAssumption, NoPricesType
<1>2. val \in Prices /\ ttl \in [Ids -> 0..TTL]
  BY <1>1 DEF Init, Cache!CacheInit, Prices
<1>3. version \in 1..MaxVersion /\ ranking \in 1..Len(Rankings) /\ since \in 0..MaxVersion
  BY <1>1 DEF Init
<1>4. age \in [Tiers -> 0..TTL]
  BY <1>1 DEF Init
<1>5. /\ own \in [Fetches -> Prices] /\ got \in [Fetches -> Prices]
      /\ cb \in [Callbacks -> Prices] /\ copy \in Prices /\ quotes \in Prices
  BY <1>1 DEF Init
<1>6. /\ fetch \in [Fetches -> {"idle", "tier", "extra", "final"}]
      /\ tier \in [Fetches -> Tiers]
      /\ todo \in [Fetches -> SUBSET Ids] /\ left \in [Callbacks -> SUBSET Ids]
      /\ entry \in [Tiers -> SUBSET Ids]
      /\ busy \subseteq Callbacks /\ reads \subseteq Ids /\ done \subseteq Ids
      /\ token \in BOOLEAN /\ board \in {"idle", "read"}
  BY DEF Init
<1> QED  BY <1>2, <1>3, <1>4, <1>5, <1>6 DEF TypeOK

(***************************************************************************)
(* TypeOK: the state of the prices service and of the leaderboard is well  *)
(* formed, however many fetches and callbacks run.                         *)
(***************************************************************************)
THEOREM TypeCorrect == Spec => []TypeOK
<1>1. Init => TypeOK
  BY TypeInitially
<1>2. TypeOK /\ [Next]_vars => TypeOK'
  BY TypeInductive
<1> QED  BY <1>1, <1>2, PTL DEF Spec

-----------------------------------------------------------------------------
(***************************************************************************)
(* What was fetched since everything was last quiet is stored or still in  *)
(* the hands of a callback, and nothing on its way to the cache is older.  *)
(***************************************************************************)
NewEnough(prices) == \A i \in Ids : prices[i] > 0 => prices[i] >= since
Stored(i) == val[i] >= since \/ \E c \in busy : i \in left[c]

StoredInv ==
    /\ since <= version
    /\ \A i \in done : Stored(i)
    /\ \A c \in Callbacks :
         /\ left[c] # {} => c \in busy
         /\ \A i \in left[c] : cb[c][i] >= since
    /\ \A f \in Fetches :
         /\ NewEnough(own[f]) /\ NewEnough(got[f])
         /\ fetch[f] # "extra" => got[f] = NoPrices
         /\ fetch[f] = "idle" => own[f] = NoPrices

LEMMA NoPricesAreNew == NewEnough(NoPrices)
BY DEF NewEnough, NoPrices

\* A spawned callback has prices that are new enough; the others go on.
LEMMA SpawnStores ==
  ASSUME TypeOK, StoredInv, NEW prices \in Prices, Spawn(prices), NewEnough(prices),
         val' = val, since' = since
  PROVE  /\ \A i \in done \cup Priced(prices) : Stored(i)'
         /\ \A c \in Callbacks :
              /\ left'[c] # {} => c \in busy'
              /\ \A i \in left'[c] : cb'[c][i] >= since
<1>1. PICK c \in Callbacks \ busy :
        /\ busy' = busy \cup {c}
        /\ cb' = [cb EXCEPT ![c] = prices]
        /\ left' = [left EXCEPT ![c] = Priced(prices)]
  BY DEF Spawn
<1>2. left[c] = {}
  BY DEF StoredInv
<1>3. \A d \in Callbacks : left'[d] = IF d = c THEN Priced(prices) ELSE left[d]
  BY <1>1 DEF TypeOK
<1>4. \A d \in Callbacks : cb'[d] = IF d = c THEN prices ELSE cb[d]
  BY <1>1 DEF TypeOK
<1>5. ASSUME NEW i \in done  PROVE Stored(i)'
  <2>1. CASE val[i] >= since
    BY <2>1 DEF Stored
  <2>2. CASE \E d \in busy : i \in left[d]
    <3>1. PICK d \in busy : i \in left[d]
      BY <2>2
    <3>2. d \in Callbacks /\ d # c /\ i \in left'[d] /\ d \in busy'
      BY <1>1, <1>3, <3>1 DEF TypeOK
    <3> QED  BY <3>2 DEF Stored
  <2> QED  BY <2>1, <2>2 DEF StoredInv, Stored
<1>6. ASSUME NEW i \in Priced(prices)  PROVE Stored(i)'
  BY <1>1, <1>3 DEF Stored
<1>7. \A i \in Priced(prices) : prices[i] >= since
  BY DEF Priced, NewEnough
<1>8. \A d \in Callbacks :
        /\ left'[d] # {} => d \in busy'
        /\ \A i \in left'[d] : cb'[d][i] >= since
  BY <1>1, <1>3, <1>4, <1>7 DEF StoredInv
<1> QED  BY <1>5, <1>6, <1>8

\* What a step must keep if it touches neither the cache nor the callbacks.
LEMMA StoredKept ==
  ASSUME StoredInv, UNCHANGED <<val, since, done, busy, left, cb, fetch, own, got>>,
         since' <= version'
  PROVE  StoredInv'
BY DEF StoredInv, Stored, NewEnough, NoPrices

LEMMA StoredOfStart ==
  ASSUME TypeOK, StoredInv, NEW f \in Fetches, NEW t \in Tiers, StartFetch(f, t)
  PROVE  StoredInv'
<1>1. /\ UNCHANGED <<val, version, busy, left, cb, own, got>>
      /\ fetch' = [fetch EXCEPT ![f] = "tier"] /\ fetch[f] = "idle"
  BY DEF StartFetch, cacheVars, cbVars
<1>2. CASE ~Quiet
  <2>1. since' = since /\ done' = done
    BY <1>2 DEF StartFetch
  <2> QED  BY <1>1, <2>1 DEF TypeOK, StoredInv, Stored, NewEnough, NoPrices
<1>3. CASE Quiet
  <2>1. since' = version /\ done' = {}
    BY <1>3 DEF StartFetch
  <2>2. \A g \in Fetches : own[g] = NoPrices /\ got[g] = NoPrices
    BY <1>3 DEF Quiet, StoredInv
  <2>3. \A c \in Callbacks : left[c] = {}
    BY <1>3 DEF Quiet, StoredInv
  <2>4. version \in Nat
    BY DEF TypeOK
  <2>5. since' <= version'
    BY <1>1, <2>1, <2>4
  <2>6. \A g \in Fetches :
         /\ NewEnough(own[g])' /\ NewEnough(got[g])'
         /\ fetch'[g] # "extra" => got'[g] = NoPrices'
         /\ fetch'[g] = "idle" => own'[g] = NoPrices'
    BY <1>1, <2>2 DEF NewEnough, NoPrices
  <2>7. \A c \in Callbacks :
         /\ left'[c] # {} => c \in busy'
         /\ \A i \in left'[c] : cb'[c][i] >= since'
    BY <1>1, <2>3
  <2>8. \A i \in done' : Stored(i)'
    BY <2>1
  <2> QED  BY <2>5, <2>6, <2>7, <2>8 DEF StoredInv
<1> QED  BY <1>2, <1>3

LEMMA StoredOfChunk ==
  ASSUME TypeOK, StoredInv, NEW f \in Fetches, FetchChunk(f)
  PROVE  StoredInv'
<1> DEFINE add(chunk, prices) == [i \in Ids |-> IF i \in chunk THEN version ELSE prices[i]]
<1>1. PICK chunk \in SUBSET todo[f] \ {{}} :
        /\ Spawn(add(chunk, NoPrices))
        /\ own' = [own EXCEPT ![f] = IF fetch[f] = "tier" THEN add(chunk, own[f]) ELSE @]
        /\ got' = [got EXCEPT ![f] = IF fetch[f] = "extra" THEN add(chunk, got[f]) ELSE @]
        /\ done' = done \cup chunk
        /\ UNCHANGED <<cacheVars, version, fetch, since>>
  BY DEF FetchChunk
<1>2. chunk \subseteq Ids /\ version \in 1..MaxVersion /\ since \in Nat /\ since <= version
  BY DEF TypeOK, StoredInv
<1>3. ASSUME NEW prices \in Prices, NewEnough(prices)
      PROVE  add(chunk, prices) \in Prices /\ NewEnough(add(chunk, prices))
  <2>1. add(chunk, prices) \in Prices
    BY <1>2, PricesServiceAssumption DEF Prices
  <2>2. NewEnough(add(chunk, prices))
    BY <1>2, <1>3 DEF NewEnough
  <2> QED  BY <2>1, <2>2
<1>4. own[f] \in Prices /\ got[f] \in Prices /\ NewEnough(own[f]) /\ NewEnough(got[f])
  BY DEF TypeOK, StoredInv
<1>5. NoPrices \in Prices /\ NewEnough(NoPrices)
  BY NoPricesType, NoPricesAreNew
<1>6. Priced(add(chunk, NoPrices)) = chunk
  BY <1>2 DEF Priced, NoPrices
<1> DEFINE ow == add(chunk, own[f])
<1> DEFINE gt == add(chunk, got[f])
<1> DEFINE new == add(chunk, NoPrices)
<1>7. new \in Prices /\ NewEnough(new) /\ NewEnough(ow) /\ NewEnough(gt)
  BY <1>3, <1>4, <1>5
<1>8. /\ Spawn(new) /\ Priced(new) = chunk
      /\ own' = [own EXCEPT ![f] = IF fetch[f] = "tier" THEN ow ELSE @]
      /\ got' = [got EXCEPT ![f] = IF fetch[f] = "extra" THEN gt ELSE @]
      /\ val' = val /\ since' = since /\ fetch' = fetch /\ version' = version
  BY <1>1, <1>6 DEF cacheVars
<1> HIDE DEF add, ow, gt, new
<1>9. /\ \A i \in done' : Stored(i)'
      /\ \A c \in Callbacks :
           /\ left'[c] # {} => c \in busy'
           /\ \A i \in left'[c] : cb'[c][i] >= since
  BY <1>1, <1>7, <1>8, SpawnStores
<1>10. \A g \in Fetches :
         /\ NewEnough(own'[g]) /\ NewEnough(got'[g])
         /\ fetch'[g] # "extra" => got'[g] = NoPrices
         /\ fetch'[g] = "idle" => own'[g] = NoPrices
  <2>1. \A g \in Fetches \ {f} : own'[g] = own[g] /\ got'[g] = got[g]
    BY <1>8 DEF TypeOK
  <2>2. /\ own'[f] = IF fetch[f] = "tier" THEN ow ELSE own[f]
        /\ got'[f] = IF fetch[f] = "extra" THEN gt ELSE got[f]
    BY <1>8 DEF TypeOK
  <2> QED  BY <1>7, <1>8, <2>1, <2>2 DEF StoredInv
<1> QED  BY <1>2, <1>8, <1>9, <1>10 DEF StoredInv, NewEnough, NoPrices

\* Handing over prices that were fetched before.
LEMMA StoredOfHandover ==
  ASSUME TypeOK, StoredInv, NEW f \in Fetches, ExtraFetched(f) \/ FinalUpdate(f)
  PROVE  StoredInv'
<1>1. \E prices \in Prices : NewEnough(prices) /\ Spawn(prices)
  BY DEF TypeOK, StoredInv, ExtraFetched, FinalUpdate
<1>2. val' = val /\ since' = since /\ version' = version /\ done' = done
  BY DEF ExtraFetched, FinalUpdate, cacheVars
<1>3. /\ \A i \in done' : Stored(i)'
      /\ \A c \in Callbacks :
           /\ left'[c] # {} => c \in busy'
           /\ \A i \in left'[c] : cb'[c][i] >= since
  BY <1>1, <1>2, SpawnStores
<1>4. \A g \in Fetches :
        /\ NewEnough(own'[g]) /\ NewEnough(got'[g])
        /\ fetch'[g] # "extra" => got'[g] = NoPrices
        /\ fetch'[g] = "idle" => own'[g] = NoPrices
  <2>1. CASE ExtraFetched(f)
    BY <2>1, NoPricesAreNew DEF TypeOK, StoredInv, ExtraFetched
  <2>2. CASE FinalUpdate(f)
    BY <2>2, NoPricesAreNew DEF TypeOK, StoredInv, FinalUpdate
  <2> QED  BY <2>1, <2>2
<1> QED  BY <1>2, <1>3, <1>4 DEF StoredInv, NewEnough, NoPrices

LEMMA StoredOfFetch ==
  ASSUME TypeOK, StoredInv, NEW f \in Fetches, Fetch(f)
  PROVE  StoredInv'
<1>1. CASE ChunkFails(f)
  <2>1. /\ own' = [own EXCEPT ![f] = IF fetch[f] = "tier" THEN NoPrices ELSE @]
        /\ got' = [got EXCEPT ![f] = NoPrices]
        /\ fetch' = [fetch EXCEPT ![f] = IF @ = "tier" THEN "idle" ELSE "final"]
        /\ UNCHANGED <<val, since, version, done, busy, left, cb>>
    BY <1>1 DEF ChunkFails, cacheVars, cbVars
  <2>2. \A g \in Fetches :
        /\ NewEnough(own'[g]) /\ NewEnough(got'[g])
        /\ fetch'[g] # "extra" => got'[g] = NoPrices
        /\ fetch'[g] = "idle" => own'[g] = NoPrices
    BY <2>1, NoPricesAreNew DEF TypeOK, StoredInv
  <2> QED  BY <2>1, <2>2 DEF StoredInv, Stored, NewEnough, NoPrices
<1>2. CASE TierFetched(f)
  <2>1. UNCHANGED <<val, since, version, done, busy, left, cb, own, got>>
    BY <1>2 DEF TierFetched, cacheVars, cbVars
  <2>2. /\ fetch[f] = "tier"
        /\ \A g \in Fetches \ {f} : fetch'[g] = fetch[g]
        /\ fetch'[f] \in {"extra", "final"}
    <3>1. CASE tier[f] \in CoinsList
      BY <1>2, <3>1 DEF TypeOK, TierFetched
    <3>2. CASE tier[f] \notin CoinsList
      BY <1>2, <3>2 DEF TypeOK, TierFetched
    <3> QED  BY <3>1, <3>2
  <2>3. \A g \in Fetches :
        /\ fetch'[g] # "extra" => got'[g] = NoPrices
        /\ fetch'[g] = "idle" => own'[g] = NoPrices
    BY <2>1, <2>2 DEF StoredInv
  <2> QED  BY <2>1, <2>3 DEF StoredInv, Stored, NewEnough, NoPrices
<1> QED
  BY <1>1, <1>2, StoredOfStart, StoredOfChunk, StoredOfHandover DEF Fetch

LEMMA StoredOfCallback ==
  ASSUME TypeOK, StoredInv, NEW c \in Callbacks, SetPrice(c) \/ EmitPrices(c)
  PROVE  StoredInv'
<1>1. CASE SetPrice(c)
  <2>1. PICK i \in left[c] :
          /\ val' = [val EXCEPT ![i] = cb[c][i]]
          /\ left' = [left EXCEPT ![c] = @ \ {i}]
    BY <1>1 DEF SetPrice, Cache!SetKey
  <2>2. UNCHANGED <<since, version, done, busy, cb, fetch, own, got>>
    BY <1>1 DEF SetPrice, fetchVars
  <2>3. i \in Ids /\ cb[c][i] >= since
    BY DEF TypeOK, StoredInv
  <2>4. \A j \in Ids : val'[j] = IF j = i THEN cb[c][i] ELSE val[j]
    BY <2>1 DEF TypeOK, Prices
  <2>5. \A d \in Callbacks : left'[d] = IF d = c THEN left[c] \ {i} ELSE left[d]
    BY <2>1 DEF TypeOK
  <2>6. ASSUME NEW j \in done  PROVE Stored(j)'
    <3>1. j \in Ids
      BY DEF TypeOK
    <3>2. CASE j = i \/ val[j] >= since
      BY <2>2, <2>3, <2>4, <3>1, <3>2 DEF Stored
    <3>3. CASE j # i /\ \E d \in busy : j \in left[d]
      <4>1. PICK d \in busy : j \in left[d]
        BY <3>3
      <4>2. d \in Callbacks /\ j \in left'[d] /\ d \in busy'
        BY <2>2, <2>5, <3>3, <4>1 DEF TypeOK
      <4> QED  BY <4>2 DEF Stored
    <3> QED  BY <3>2, <3>3 DEF StoredInv, Stored
  <2>7. \A d \in Callbacks :
          /\ left'[d] # {} => d \in busy'
          /\ \A j \in left'[d] : cb'[d][j] >= since'
    BY <2>2, <2>5 DEF StoredInv
  <2> QED  BY <2>2, <2>6, <2>7 DEF StoredInv, NewEnough, NoPrices
<1>2. CASE EmitPrices(c)
  <2>1. /\ UNCHANGED <<val, since, version, done, left, fetch, own, got>>
        /\ left[c] = {} /\ busy' = busy \ {c}
        /\ cb' = [cb EXCEPT ![c] = NoPrices]
    BY <1>2 DEF EmitPrices, cacheVars, fetchVars
  <2>2. \A i \in done : Stored(i)'
    BY <2>1 DEF StoredInv, Stored
  <2>3. \A d \in Callbacks :
          /\ left'[d] # {} => d \in busy'
          /\ \A j \in left'[d] : cb'[d][j] >= since'
    BY <2>1 DEF TypeOK, StoredInv
  <2> QED  BY <2>1, <2>2, <2>3 DEF StoredInv, NewEnough, NoPrices
<1> QED  BY <1>1, <1>2

(***************************************************************************)
(* FetchedPricesAreStored: when no fetch and no callback is under way, the *)
(* price of what was fetched meanwhile is stored, not an older one.        *)
(***************************************************************************)
THEOREM FetchedAreStored == Spec => []FetchedPricesAreStored
<1> DEFINE Inv == TypeOK /\ StoredInv
<1>1. Init => Inv
  <2> SUFFICES ASSUME Init PROVE StoredInv
    BY TypeInitially
  <2> QED  BY DEF Init, StoredInv, NewEnough, NoPrices
<1>2. Inv /\ [Next]_vars => Inv'
  <2> SUFFICES ASSUME Inv, [Next]_vars PROVE StoredInv'
    BY TypeInductive
  <2>1. CASE PricesMove
    <3>1. since <= version'
      BY <2>1 DEF TypeOK, StoredInv, PricesMove
    <3> QED  BY <2>1, <3>1, StoredKept DEF PricesMove, cacheVars, fetchVars, cbVars
  <2>2. CASE RankingMoves
    BY <2>2, StoredKept DEF RankingMoves, cacheVars, fetchVars, cbVars, StoredInv
  <2>3. CASE Tick
    BY <2>3, StoredKept DEF Tick, Cache!CacheTick, cbVars, StoredInv
  <2>4. CASE BoardStep
    BY <2>4, StoredKept DEF BoardStep, BoardWakes, BoardReads, BoardPublishes,
       cacheVars, fetchVars, cbVars, StoredInv
  <2>5. CASE UNCHANGED vars
    BY <2>5, StoredKept DEF vars, cacheVars, fetchVars, cbVars, StoredInv
  <2> QED
    BY <2>1, <2>2, <2>3, <2>4, <2>5, NextCases, StoredOfFetch, StoredOfCallback
<1>3. Inv => FetchedPricesAreStored
  BY DEF StoredInv, Stored, FetchedPricesAreStored, Quiet
<1> QED  BY <1>1, <1>2, <1>3, PTL DEF Spec

-----------------------------------------------------------------------------
(***************************************************************************)
(* While no callback runs and no notification waits, what the leaderboard  *)
(* shows, or has read so far, is what the cache holds.  A callback that    *)
(* changes the cache is running, and leaves a notification behind.         *)
(***************************************************************************)
Follows(prices) == \A i \in Priced(prices) : prices[i] = val[i]

BoardInv ==
    /\ \A c \in Callbacks : left[c] # {} => c \in busy
    /\ busy = {} /\ ~token =>
          Follows(IF board = "idle" THEN quotes ELSE copy)

\* Steps that leave cache and leaderboard alone and end no callback.
LEMMA BoardKept ==
  ASSUME BoardInv, UNCHANGED <<val, boardVars>>, busy \subseteq busy',
         \A c \in Callbacks : left'[c] # {} => c \in busy'
  PROVE  BoardInv'
BY DEF BoardInv, Follows, Priced, boardVars

LEMMA BoardOfFetch ==
  ASSUME TypeOK, BoardInv, NEW f \in Fetches, Fetch(f)
  PROVE  BoardInv'
<1>1. UNCHANGED <<val, boardVars>>
  BY DEF Fetch, StartFetch, FetchChunk, ChunkFails, TierFetched, ExtraFetched, FinalUpdate,
         cacheVars
<1>2. UNCHANGED cbVars \/ \E prices : Spawn(prices)
  BY DEF Fetch, StartFetch, FetchChunk, ChunkFails, TierFetched, ExtraFetched, FinalUpdate
<1>3. CASE UNCHANGED cbVars
  BY <1>1, <1>3, BoardKept DEF cbVars, BoardInv
<1>4. ASSUME NEW prices, Spawn(prices)
      PROVE  BoardInv'
  <2>1. PICK c \in Callbacks \ busy :
          /\ busy' = busy \cup {c}
          /\ left' = [left EXCEPT ![c] = Priced(prices)]
    BY <1>4 DEF Spawn
  <2>2. \A d \in Callbacks : left'[d] # {} => d \in busy'
    BY <2>1 DEF TypeOK, BoardInv
  <2> QED  BY <1>1, <2>1, <2>2, BoardKept
<1> QED  BY <1>2, <1>3, <1>4

LEMMA BoardOfCallback ==
  ASSUME TypeOK, BoardInv, NEW c \in Callbacks, SetPrice(c) \/ EmitPrices(c)
  PROVE  BoardInv'
<1>1. CASE SetPrice(c)
  <2>1. PICK i \in left[c] : left' = [left EXCEPT ![c] = @ \ {i}]
    BY <1>1 DEF SetPrice
  <2>2. c \in busy /\ busy' = busy
    BY <1>1, <2>1 DEF SetPrice, BoardInv
  <2>3. \A d \in Callbacks : left'[d] # {} => d \in busy'
    BY <2>1, <2>2 DEF TypeOK, BoardInv
  <2> QED  BY <2>2, <2>3 DEF BoardInv
<1>2. CASE EmitPrices(c)
  <2>1. \A d \in Callbacks : left'[d] # {} => d \in busy'
    BY <1>2 DEF EmitPrices, BoardInv
  <2> QED  BY <1>2, <2>1 DEF EmitPrices, BoardInv
<1> QED  BY <1>1, <1>2

LEMMA BoardOfBoard ==
  ASSUME TypeOK, BoardInv, BoardStep
  PROVE  BoardInv'
<1>a. UNCHANGED <<val, busy, left>>
  BY DEF BoardStep, BoardWakes, BoardReads, BoardPublishes, cacheVars, cbVars
<1>1. CASE BoardWakes
  BY <1>1, <1>a DEF BoardWakes, BoardInv, Follows, Priced, NoPrices
<1>2. CASE BoardReads
  <2>1. PICK i \in reads : copy' = [copy EXCEPT ![i] = IF Cache!Found(i) THEN val[i] ELSE @]
    BY <1>2 DEF BoardReads
  <2>2. board' = board /\ board = "read" /\ token' = token
    BY <1>2 DEF BoardReads
  <2>3. \A j \in Ids : copy'[j] = copy[j] \/ copy'[j] = val[j]
    BY <2>1 DEF TypeOK, Prices
  <2>4. Follows(copy) => Follows(copy)'
    BY <1>a, <2>3 DEF Follows, Priced
  <2> QED  BY <1>a, <2>2, <2>4 DEF BoardInv
<1>3. CASE BoardPublishes
  <2>1. board = "read" /\ board' = "idle" /\ quotes' = copy /\ token' = token
    BY <1>3 DEF BoardPublishes
  <2>2. Follows(copy) => Follows(quotes)'
    BY <1>a, <2>1 DEF Follows, Priced
  <2> QED  BY <1>a, <2>1, <2>2 DEF BoardInv
<1> QED  BY <1>1, <1>2, <1>3 DEF BoardStep

(***************************************************************************)
(* QuotesFollowPrices: with no callback running and no notification left,  *)
(* an idle leaderboard shows the cached prices, although it read them key  *)
(* by key while they were stored key by key.                               *)
(***************************************************************************)
THEOREM QuotesFollow == Spec => []QuotesFollowPrices
<1> DEFINE Inv == TypeOK /\ BoardInv
<1>1. Init => Inv
  <2> SUFFICES ASSUME Init PROVE BoardInv
    BY TypeInitially
  <2> QED  BY DEF Init, BoardInv, Follows, Priced, NoPrices
<1>2. Inv /\ [Next]_vars => Inv'
  <2> SUFFICES ASSUME Inv, [Next]_vars PROVE BoardInv'
    BY TypeInductive
  <2>1. CASE PricesMove \/ RankingMoves
    BY <2>1, BoardKept DEF PricesMove, RankingMoves, cacheVars, cbVars, BoardInv
  <2>2. CASE Tick
    BY <2>2, BoardKept DEF Tick, Cache!CacheTick, cbVars, BoardInv
  <2>3. CASE UNCHANGED vars
    BY <2>3, BoardKept DEF vars, cacheVars, cbVars, BoardInv
  <2> QED
    BY <2>1, <2>2, <2>3, NextCases, BoardOfFetch, BoardOfCallback, BoardOfBoard
<1>3. Inv => QuotesFollowPrices
  BY DEF BoardInv, Follows, QuotesFollowPrices
<1> QED  BY <1>1, <1>2, <1>3, PTL DEF Spec
=============================================================================
