----------------------------- MODULE FetcherById -----------------------------
(***************************************************************************)
(* fetcher_by_id, the updater and cache that coingecko_coins runs on the   *)
(* top ids of the markets: a tier is a range of positions of the list, and *)
(* a goroutine fetches its ids chunk by chunk.  A chunk is cached as soon  *)
(* as it arrives; a chunk that fails ends the fetch, and the next check    *)
(* begins again with the first id of the tier.                             *)
(*                                                                         *)
(* The list is that of TopIds, which the environment updates.  What data   *)
(* an id has is left out: cached is the set of ids that were written.  As  *)
(* in MarketsUpdater a tier is due or not and its mark is absent, recent   *)
(* or stuck.  Tiers have names of their own: Validate lets them share one, *)
(* and with it mark and LastUpdate, which this module leaves out (it is in *)
(* MarketsUpdater).                                                        *)
(***************************************************************************)
EXTENDS TopIds, Chunks

CONSTANTS NTiers,         \* the tiers of the configuration are 1 .. NTiers
          IdFrom, IdTo,   \* the positions of tier t, from 1
          FetchCoinslistIds, \* tiers that fetch the extra ids, too
          ExtraProvider,  \* whether SetExtraIdsProvider has been called
          ExtraIds,       \* what the extra ids provider returns
          Batch,          \* batch mode, or one id in a request
          ChunkSize,      \* ids of a request in batch mode, at most
          IdLength,       \* IdLength[id]: the length of the id's name
          MaxChunkStringLength, \* of the names in a request
          Unknown,        \* ids the API does not know
          Updates,        \* the pages' updates, in the order they come
          Checks,         \* "tick", the scheduler's task, and "force"
          Fetches,        \* names for the fetch goroutines
          MaxResets       \* bound on the pending resets of one tier

Tiers == 1 .. NTiers

\* What Validate accepts of tiers with names of their own.
ASSUME FetcherAssumption ==
  /\ NTiers \in Nat \ {0} /\ ChunkSize \in Nat \ {0} /\ MaxResets \in Nat
  /\ IdFrom \in [Tiers -> Nat \ {0}] /\ IdTo \in [Tiers -> Nat \ {0}]
  /\ \A t \in Tiers : IdFrom[t] <= IdTo[t]
  /\ \A t, u \in Tiers : t # u => IdTo[t] < IdFrom[u] \/ IdTo[u] < IdFrom[t]
  /\ FetchCoinslistIds \subseteq Tiers /\ Unknown \subseteq Ids
  /\ ExtraProvider \in BOOLEAN /\ Batch \in BOOLEAN
  /\ IdLength \in [Ids -> Nat] /\ MaxChunkStringLength \in Nat \ {0}
  /\ ExtraIds \in Seq(Ids) /\ Checks \subseteq {"tick", "force"}
  /\ Len(Updates) \in Nat /\ DOMAIN Updates = 1 .. Len(Updates)
  /\ \A i \in DOMAIN Updates :
       /\ DOMAIN Updates[i] \subseteq Pages
       /\ \A p \in DOMAIN Updates[i] : Updates[i][p] \in Seq(Ids)

VARIABLES arrived,     \* the number of updates of the pages so far
          due,         \* tiers whose LastUpdate is an UpdateInterval old
          mark,        \* mark[t]: not updating, recently started or stuck
          resets,      \* resets[t]: spawned `go setTierUpdating(t, false)`
          next,        \* next[w]: the tier check w looks at next, 0 if idle
          allIds,      \* allIds[w]: the list that check w has read
          fetch,       \* fetch[f]: a fetchAndUpdateTier goroutine
          cached,      \* ids written to the cache at least once
          refreshed,   \* history: the ids of t when LastUpdate was set
          initialized

marketVars == <<topVars, arrived>>
tierVars == <<due, mark, resets, refreshed>>
checkVars == <<next, allIds>>
vars == <<marketVars, tierVars, checkVars, fetch, cached, initialized>>

\* ids is the list, later the tier's part of it; done the number of them, or
\* of missing extra ids, that have been fetched; data what was received.
NoFetch == [state |-> "idle", tier |-> 0, ids |-> <<>>, missing |-> <<>>,
            done |-> 0, data |-> {}]

Init ==
  /\ TopInit
  /\ arrived = 0
  /\ due = Tiers
  /\ mark = [t \in Tiers |-> "none"]
  /\ resets = [t \in Tiers |-> 0]
  /\ next = [w \in Checks |-> 0]
  /\ allIds = [w \in Checks |-> <<>>]
  /\ fetch = [f \in Fetches |-> NoFetch]
  /\ cached = {}
  /\ refreshed = [t \in Tiers |-> <<>>]
  /\ initialized = FALSE

-----------------------------------------------------------------------------
(* The environment: the markets list pages and, stopped, clear them; time  *)
(* passes.                                                                 *)

UpdatePages ==
  /\ arrived < Len(Updates)
  /\ arrived' = arrived + 1
  /\ UpdatePagesFromPageData(Updates[arrived + 1])
  /\ UNCHANGED <<tierVars, checkVars, fetch, cached, initialized>>

ClearPages ==
  /\ arrived <= Len(Updates)
  /\ arrived' = Len(Updates) + 1
  /\ Clear
  /\ UNCHANGED <<tierVars, checkVars, fetch, cached, initialized>>

BecomeDue(t) ==
  /\ t \notin due
  /\ due' = due \cup {t}
  /\ UNCHANGED <<marketVars, mark, resets, refreshed, checkVars, fetch, cached,
                 initialized>>

\* With MaxResets = 0 no update takes that long.
GetStuck(t) ==
  /\ mark[t] = "recent" /\ MaxResets > 0
  /\ mark' = [mark EXCEPT ![t] = "stuck"]
  /\ UNCHANGED <<marketVars, due, resets, refreshed, checkVars, fetch, cached,
                 initialized>>

-----------------------------------------------------------------------------
(* checkAndUpdateTiers                                                     *)

\* Mutant: the limit is that of the first tier.
FirstIdLimit == IdTo[1]

GetMaxIdLimit == Max({IdTo[t] : t \in Tiers})

\* getAllIds; without ids only a forced check goes on.
CheckBegin(w) ==
  LET ids == TopIdsUpTo(GetMaxIdLimit) IN
  /\ next[w] = 0
  /\ GetTopIds
  /\ \/ ids = <<>> /\ w = "tick" /\ UNCHANGED checkVars
     \/ /\ ids # <<>> \/ w = "force"
        /\ next' = [next EXCEPT ![w] = 1]
        /\ allIds' = [allIds EXCEPT ![w] = ids]
  /\ UNCHANGED <<arrived, tierVars, fetch, cached, initialized>>

shouldUpdate(w, t) == mark[t] # "recent" /\ (w = "force" \/ t \in due)

\* The check is slow to spawn when every name in Fetches is in use.
Spawn(t, ids) ==
  \E f \in Fetches :
    /\ fetch[f] = NoFetch
    /\ fetch' = [fetch EXCEPT ![f] = [state |-> "spawned", tier |-> t, ids |-> ids,
                                      missing |-> <<>>, done |-> 0, data |-> {}]]

\* Mutant: the loop runs one tier too far.
CheckTierPastEnd(w) ==
  LET t == next[w] IN
  /\ t # 0
  /\ next' = [next EXCEPT ![w] = IF t > NTiers THEN 0 ELSE t + 1]
  /\ \/ shouldUpdate(w, t) /\ Spawn(t, allIds[w])
     \/ ~shouldUpdate(w, t) /\ UNCHANGED fetch
  /\ UNCHANGED <<marketVars, tierVars, allIds, cached, initialized>>

CheckTier(w) ==
  LET t == next[w]
      stuck == mark[t] = "stuck"
      last == t = NTiers
  IN /\ t # 0 /\ (stuck => resets[t] < MaxResets)
     /\ next' = [next EXCEPT ![w] = IF last THEN 0 ELSE t + 1]
     /\ allIds' = [allIds EXCEPT ![w] = IF last THEN <<>> ELSE @]
     /\ resets' = [resets EXCEPT ![t] = IF stuck THEN @ + 1 ELSE @]
     /\ \/ shouldUpdate(w, t) /\ Spawn(t, allIds[w])
        \/ ~shouldUpdate(w, t) /\ UNCHANGED fetch
     /\ UNCHANGED <<marketVars, due, mark, refreshed, cached, initialized>>

Reset(t) ==
  /\ resets[t] > 0
  /\ resets' = [resets EXCEPT ![t] = @ - 1]
  /\ mark' = [mark EXCEPT ![t] = "none"]
  /\ UNCHANGED <<marketVars, due, refreshed, checkVars, fetch, cached,
                 initialized>>

-----------------------------------------------------------------------------
(* fetchAndUpdateTier                                                      *)

\* f with all fields but the tier set.
SetFetch(f, state, ids, missing, done, data) ==
  fetch' = [fetch EXCEPT ![f] = [state |-> state, tier |-> fetch[f].tier, ids |-> ids,
                                 missing |-> missing, done |-> done, data |-> data]]

\* The ids of list at the positions of tier t.
Slice(t, list) ==
  SubSeq(list, IdFrom[t], IF IdTo[t] < Len(list) THEN IdTo[t] ELSE Len(list))

\* The mark is set before the range is looked at; a list that does not reach
\* into the tier ends the update at once.
FetchBegin(f) ==
  LET t == fetch[f].tier
      ids == Slice(t, fetch[f].ids)
  IN /\ fetch[f].state = "spawned"
     /\ mark' = [mark EXCEPT ![t] = "recent"]
     /\ SetFetch(f, IF ids = <<>> THEN "return" ELSE "chunks", ids, <<>>, 0, {})
     /\ UNCHANGED <<marketVars, due, resets, refreshed, checkVars, cached,
                    initialized>>

\* One request is answered and onChunk caches what came.  In batch mode the
\* API leaves out what it does not know.
FetchChunk(f) ==
  LET extra == fetch[f].state = "extra"
      ids == IF extra THEN fetch[f].missing ELSE fetch[f].ids
      lengths == [i \in 1 .. Len(ids) |-> IdLength[ids[i]]]
      itemsLimit == IF Batch THEN ChunkSize ELSE 1
  IN /\ fetch[f].state \in {"chunks", "extra"}
     /\ \E end \in {ChunkEnd(lengths, fetch[f].done, itemsLimit, MaxChunkStringLength)} :
          LET chunk == ToSet(SubSeq(ids, fetch[f].done + 1, end)) IN
          /\ Batch \/ chunk \cap Unknown = {}
          /\ cached' = cached \cup (chunk \ Unknown)
          /\ \/ /\ end < Len(ids)
                /\ fetch' = [fetch EXCEPT ![f].done = end]
             \/ /\ end = Len(ids)
                /\ SetFetch(f, IF extra THEN "store" ELSE "extraIds", fetch[f].ids,
                            <<>>, 0, fetch[f].data \cup (ToSet(ids) \ Unknown))
     /\ UNCHANGED <<marketVars, tierVars, checkVars, initialized>>

\* Mutant: what did arrive counts as the tier's data, as in
\* Client.FetchBatchInChunks.
FailChunkPartial(f) ==
  /\ fetch[f].state \in {"chunks", "extra"}
  /\ SetFetch(f, "store", fetch[f].ids, <<>>, 0,
              fetch[f].data \cup ToSet(SubSeq(fetch[f].ids, 1, fetch[f].done)))
  /\ UNCHANGED <<marketVars, tierVars, checkVars, cached, initialized>>

\* A request fails for good or the context ends the pause before it: the
\* update is over, or goes on without the extra ids.
FailChunk(f) ==
  /\ fetch[f].state \in {"chunks", "extra"}
  /\ SetFetch(f, IF fetch[f].state = "extra" THEN "store" ELSE "return",
              fetch[f].ids, <<>>, 0, fetch[f].data)
  /\ UNCHANGED <<marketVars, tierVars, checkVars, cached, initialized>>

\* Mutant: the test on existingData is inverted.
ExistingIds(f) == SelectSeq(ExtraIds, LAMBDA id : id \in fetch[f].data)

\* The extra ids that have not been fetched with the tier.
MissingIds(f) ==
  LET missing[n \in 0 .. Len(ExtraIds)] ==
        IF n = 0 THEN <<>>
        ELSE IF ExtraIds[n] \in fetch[f].data THEN missing[n - 1]
                                              ELSE Append(missing[n - 1], ExtraIds[n])
  IN missing[Len(ExtraIds)]

\* fetchExtraIds up to its requests.
FetchExtraIds(f) ==
  LET missing == IF fetch[f].tier \in FetchCoinslistIds /\ ExtraProvider
                 THEN MissingIds(f) ELSE <<>>
  IN /\ fetch[f].state = "extraIds"
     /\ SetFetch(f, IF missing = <<>> THEN "store" ELSE "extra", fetch[f].ids,
                 missing, 0, fetch[f].data)
     /\ UNCHANGED <<marketVars, tierVars, checkVars, cached, initialized>>

FailExtraIds(f) ==
  /\ fetch[f].state = "extraIds"
  /\ fetch[f].tier \in FetchCoinslistIds /\ ExtraProvider
  /\ fetch' = [fetch EXCEPT ![f].state = "store"]
  /\ UNCHANGED <<marketVars, tierVars, checkVars, cached, initialized>>

\* LastUpdate is set, unless nothing came.
FetchStore(f) ==
  LET t == fetch[f].tier IN
  /\ fetch[f].state = "store"
  /\ \/ /\ fetch[f].data = {}
        /\ fetch' = [fetch EXCEPT ![f].state = "return"]
        /\ UNCHANGED <<due, refreshed>>
     \/ /\ fetch[f].data # {}
        /\ due' = due \ {t}
        /\ refreshed' = [refreshed EXCEPT ![t] = fetch[f].ids]
        /\ fetch' = [fetch EXCEPT ![f].state = "update"]
  /\ UNCHANGED <<marketVars, mark, resets, checkVars, cached, initialized>>

\* The final onUpdated writes all of it once more.
FetchUpdate(f) ==
  /\ fetch[f].state = "update"
  /\ cached' = cached \cup fetch[f].data
  /\ initialized' = TRUE
  /\ fetch' = [fetch EXCEPT ![f].state = "return"]
  /\ UNCHANGED <<marketVars, tierVars, checkVars>>

\* Mutant: no deferred call.
FetchReturnMarked(f) ==
  /\ fetch[f].state = "return"
  /\ fetch' = [fetch EXCEPT ![f] = NoFetch]
  /\ UNCHANGED <<marketVars, tierVars, checkVars, cached, initialized>>

\* The deferred call: whatever the way out, the mark is cleared.
FetchReturn(f) ==
  /\ fetch[f].state = "return"
  /\ mark' = [mark EXCEPT ![fetch[f].tier] = "none"]
  /\ fetch' = [fetch EXCEPT ![f] = NoFetch]
  /\ UNCHANGED <<marketVars, due, resets, refreshed, checkVars, cached,
                 initialized>>

-----------------------------------------------------------------------------
Fail(f) == FailChunk(f) \/ FailExtraIds(f)
FetchStep(f) == \/ FetchBegin(f) \/ FetchChunk(f) \/ FetchExtraIds(f) \/ Fail(f)
                \/ FetchStore(f) \/ FetchUpdate(f) \/ FetchReturn(f)

Next == \/ UpdatePages \/ ClearPages
        \/ \E t \in Tiers : BecomeDue(t) \/ GetStuck(t) \/ Reset(t)
        \/ \E w \in Checks : CheckBegin(w) \/ CheckTier(w)
        \/ \E f \in Fetches : FetchStep(f)

\* Tiers become due, the scheduler keeps calling its task, runnable goroutines
\* run, requests end; strong for CheckTier since `go` never waits, which the
\* bound on the fetches makes it do here.
Fairness ==
  /\ \A t \in Tiers : WF_vars(BecomeDue(t)) /\ WF_vars(Reset(t))
  /\ \A w \in Checks : SF_vars(CheckTier(w))
  /\ WF_vars(CheckBegin("tick"))
  /\ \A f \in Fetches : WF_vars(FetchStep(f))

Spec == Init /\ [][Next]_vars
FairSpec == Spec /\ Fairness

-----------------------------------------------------------------------------
FetchState == [state : {"idle", "spawned", "chunks", "extraIds", "extra",
                        "store", "update", "return"},
               tier : 0 .. NTiers, ids : Seq(Ids), missing : Seq(Ids),
               done : Nat, data : SUBSET Ids]

TypeOK ==
  /\ pageToIds \in [Pages -> Seq(Ids)] /\ topIds \in Seq(Ids) /\ dirty \in BOOLEAN
  /\ arrived \in 0 .. Len(Updates) + 1
  /\ due \subseteq Tiers
  /\ mark \in [Tiers -> {"none", "recent", "stuck"}]
  /\ resets \in [Tiers -> 0 .. MaxResets]
  /\ next \in [Checks -> 0 .. NTiers] /\ allIds \in [Checks -> Seq(Ids)]
  /\ fetch \in [Fetches -> FetchState]
  /\ cached \subseteq Ids
  /\ refreshed \in [Tiers -> Seq(Ids)]
  /\ initialized \in BOOLEAN

\* f is a goroutine of tier t between its first call and its deferred one.
InUpdate(f, t) == fetch[f].tier = t /\ fetch[f].state \notin {"idle", "spawned"}

\* A tier is marked as updating only while one of its fetches is under way,
\* however fetches, failures, forced checks and resets of the tier overlap: a
\* mark left behind would end the tier's updates.
MarkHasFetch ==
  \A t \in Tiers : mark[t] # "none" => \E f \in Fetches : InUpdate(f, t)

\* LastUpdate of a tier says that each id it had then, except those the API
\* left out of a batch, is in the cache: no failing chunk, of the tier or of
\* the extra ids, lets a part pass for the whole.
RefreshIsWhole ==
  \A t \in Tiers :
    /\ ToSet(refreshed[t]) \subseteq cached \cup (IF Batch THEN Unknown ELSE {})
    /\ t \notin due => refreshed[t] # <<>>

\* A failure of the provider that matters, or of a request for ids the API
\* knows.
Avoidable(f) ==
  \/ FailExtraIds(f) /\ MissingIds(f) # <<>>
  \/ /\ FailChunk(f)
     /\ LET ids == IF fetch[f].state = "extra" THEN fetch[f].missing ELSE fetch[f].ids
        IN Batch \/ ids[fetch[f].done + 1] \notin Unknown

\* From some time on nothing fails but requests for an unknown id.
FailuresEnd == <>[][\A f \in Fetches : ~Avoidable(f)]_vars
NeverCleared == [](arrived <= Len(Updates))

\* The ids that tier t has in the last list.
LastIds(t) == Slice(t, rebuildTopIds)

\* Once failures end, every tier whose part of the last list the API knows is
\* refreshed with that part again and again, whatever the other tiers hold: a
\* tier that fails for ever and is started every two seconds starves no other.
KnownTiersRefresh ==
  FailuresEnd /\ NeverCleared =>
    \A t \in Tiers :
      []<>(\/ arrived < Len(Updates)
           \/ LastIds(t) = <<>> \/ ToSet(LastIds(t)) \cap Unknown # {}
           \/ t \notin due /\ refreshed[t] = LastIds(t) /\ initialized)

\* "FetchCoinslistIds enables fetching missing tokens from coinslist"
\* (config/fetcher_by_id_config.go:40): a tier with the flag that is refreshed
\* again and again does get them.
ExtraIdsAreFetched ==
  FailuresEnd /\ NeverCleared =>
    \/ ToSet(ExtraIds) \cap Unknown # {}
    \/ \A t \in FetchCoinslistIds :
         ([]<>(t \in due) /\ []<>(t \notin due)) => <>(ToSet(ExtraIds) \subseteq cached)
=============================================================================
