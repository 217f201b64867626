--------------------------- MODULE PricesUpdater ---------------------------
(***************************************************************************)
(* coingecko_prices/periodic_updater.go: the tiers of the prices updater,  *)
(* checked every two seconds by the scheduler's task ("tick") and all at   *)
(* once by ForceUpdate ("force", run by the watcher of the markets'        *)
(* initialized event), and the goroutines that fetch one tier each.        *)
(*                                                                         *)
(* A list of top market ids is abstracted to its version: list v has       *)
(* Counts[v] ids, list 0 is the empty one a new updater starts with.  Time *)
(* is kept as ages, capped where a check stops telling them apart.         *)
(*                                                                         *)
(* Tiers have names of their own, so a tier stands for its entry in the    *)
(* cache; Validate also accepts tiers that share a name, and then an entry *)
(* and its mark, which this module leaves out.  What the fetched prices do *)
(* in the service (the callbacks of FetchStore and FetchExtra, each on a   *)
(* goroutine of its own) is not part of this module.                       *)
(***************************************************************************)
EXTENDS Integers, Sequences

CONSTANTS NTiers,      \* the tiers of the configuration are 1 .. NTiers
          Interval,    \* Interval[t]: UpdateInterval of tier t
          TokenFrom,   \* TokenFrom[t]: its first position in the list
          TenMinutes,  \* the least age at which an update counts as stuck
          Counts,      \* the lengths of the lists that SetTopMarketIds gets
          Fetches,     \* names for the fetch goroutines
          MaxResets    \* bound on the pending resets of one tier

Tiers == 1 .. NTiers

ASSUME PricesAssumption ==
  /\ NTiers \in Nat /\ TenMinutes \in Nat /\ MaxResets \in Nat
  /\ Interval \in [Tiers -> Nat] /\ TokenFrom \in [Tiers -> Nat]
  /\ Counts \in Seq(Nat)

VARIABLES topMarketIds,  \* version of the list
          known,         \* the tiers that have an entry in cache.tiers
          age,           \* age[t]: time since Timestamp, capped at Interval
          started,       \* started[t]: time since UpdateStartTime, or None
          basis,         \* basis[t]: version of the list its Data was fetched for
          next,          \* next[w]: the tier check w looks at next, 0 if idle
          resets,        \* resets[t]: spawned `go setTierUpdateStartTime(t, nil)`
          fetch          \* fetch[f]: a fetchAndUpdateTier goroutine

tierVars == <<known, age, started, basis>>
vars == <<topMarketIds, tierVars, next, resets, fetch>>

Checks == {"tick", "force"}
None == -1
NoFetch == [state |-> "idle", tier |-> 0, ids |-> 0]

MaxUpdateDuration(t) ==
  IF Interval[t] * 3 > TenMinutes THEN Interval[t] * 3 ELSE TenMinutes
Count(v) == IF v = 0 THEN 0 ELSE Counts[v]

Init ==
  /\ topMarketIds = 0
  /\ known = {}
  /\ age = Interval
  /\ started = [t \in Tiers |-> None]
  /\ basis = [t \in Tiers |-> 0]
  /\ next = [w \in Checks |-> 0]
  /\ resets = [t \in Tiers |-> 0]
  /\ fetch = [f \in Fetches |-> NoFetch]

-----------------------------------------------------------------------------
SetTopMarketIds ==
  /\ topMarketIds < Len(Counts)
  /\ topMarketIds' = topMarketIds + 1
  /\ UNCHANGED <<tierVars, next, resets, fetch>>

Elapse ==
  /\ age' = [t \in Tiers |-> IF age[t] < Interval[t] THEN age[t] + 1 ELSE age[t]]
  /\ started' = [t \in Tiers |->
       IF started[t] # None /\ started[t] <= MaxUpdateDuration(t)
       THEN started[t] + 1 ELSE started[t]]
  /\ UNCHANGED <<topMarketIds, known, basis, next, resets, fetch>>

-----------------------------------------------------------------------------
(* checkAndUpdateTiers                                                     *)

\* The scheduler's check is skipped as long as there are no ids.
CheckBegin(w) ==
  /\ next[w] = 0 /\ NTiers > 0
  /\ Count(topMarketIds) > 0 \/ w = "force"
  /\ next' = [next EXCEPT ![w] = 1]
  /\ UNCHANGED <<topMarketIds, tierVars, resets, fetch>>

Stuck(t) == started[t] # None /\ started[t] > MaxUpdateDuration(t)
Updating(t) == started[t] # None /\ ~Stuck(t)

\* Mutant: a tier without an entry is never updated.
shouldUpdateKnown(w, t) ==
  t \in known /\ ~Updating(t) /\ (w = "force" \/ age[t] >= Interval[t])

shouldUpdate(w, t) ==
  t \in known => ~Updating(t) /\ (w = "force" \/ age[t] >= Interval[t])

\* When every name in Fetches is in use the spawn is left out.
Spawn(t) ==
  \/ \E f \in Fetches :
       /\ fetch[f] = NoFetch
       /\ fetch' = [fetch EXCEPT ![f] =
                      [state |-> "spawned", tier |-> t, ids |-> 0]]
  \/ (\A f \in Fetches : fetch[f] # NoFetch) /\ UNCHANGED fetch

\* Mutant: a stuck update is ignored but its mark is not reset.
CheckTierNoReset(w) ==
  LET t == next[w] IN
  /\ t # 0
  /\ next' = [next EXCEPT ![w] = IF t = NTiers THEN 0 ELSE t + 1]
  /\ \/ shouldUpdate(w, t) /\ Spawn(t)
     \/ ~shouldUpdate(w, t) /\ UNCHANGED fetch
  /\ UNCHANGED <<topMarketIds, tierVars, resets>>

\* One iteration.  The goroutines it spawns mark or reset the tier later, on
\* their own.
CheckTier(w) ==
  LET t == next[w] IN
  /\ t # 0 /\ (Stuck(t) => resets[t] < MaxResets)
  /\ next' = [next EXCEPT ![w] = IF t = NTiers THEN 0 ELSE t + 1]
  /\ resets' = [resets EXCEPT ![t] = IF Stuck(t) THEN @ + 1 ELSE @]
  /\ \/ shouldUpdate(w, t) /\ Spawn(t)
     \/ ~shouldUpdate(w, t) /\ UNCHANGED fetch
  /\ UNCHANGED <<topMarketIds, tierVars>>

\* setTierUpdateStartTime creates the entry, with a zero Timestamp and so
\* due at once, when the tier has none.
setTierUpdateStartTime(t, startTime) ==
  /\ known' = known \cup {t}
  /\ started' = [started EXCEPT ![t] = startTime]
  /\ UNCHANGED <<age, basis>>

Reset(t) ==
  /\ resets[t] > 0
  /\ resets' = [resets EXCEPT ![t] = @ - 1]
  /\ setTierUpdateStartTime(t, None)
  /\ UNCHANGED <<topMarketIds, next, fetch>>

-----------------------------------------------------------------------------
(* fetchAndUpdateTier                                                      *)

FetchMark(f) ==
  /\ fetch[f].state = "spawned"
  /\ setTierUpdateStartTime(fetch[f].tier, 0)
  /\ fetch' = [fetch EXCEPT ![f].state = "ids"]
  /\ UNCHANGED <<topMarketIds, next, resets>>

\* Mutant: the tier's range is not checked against the list.
FetchIdsAny(f) ==
  /\ fetch[f].state = "ids"
  /\ fetch' = [fetch EXCEPT ![f] =
                 [state |-> IF Count(topMarketIds) > 0 THEN "request" ELSE "return",
                  tier |-> fetch[f].tier, ids |-> topMarketIds]]
  /\ UNCHANGED <<topMarketIds, tierVars, next, resets>>

\* No ids, or none in the tier's range: return without a request.
FetchIds(f) ==
  /\ fetch[f].state = "ids"
  /\ LET t == fetch[f].tier
         inRange == Count(topMarketIds) > 0 /\ TokenFrom[t] <= Count(topMarketIds)
     IN fetch' = [fetch EXCEPT ![f] =
                    [state |-> IF inRange THEN "request" ELSE "return",
                     tier |-> t, ids |-> topMarketIds]]
  /\ UNCHANGED <<topMarketIds, tierVars, next, resets>>

\* A chunk failed for good: Timestamp stays and the tier remains due.
FetchFail(f) ==
  /\ fetch[f].state = "request"
  /\ fetch' = [fetch EXCEPT ![f].state = "return"]
  /\ UNCHANGED <<topMarketIds, tierVars, next, resets>>

\* The new entry carries no UpdateStartTime: the mark goes before the extra
\* ids are fetched.
FetchStore(f) ==
  LET t == fetch[f].tier IN
  /\ fetch[f].state = "request"
  /\ known' = known \cup {t}
  /\ age' = [age EXCEPT ![t] = 0]
  /\ started' = [started EXCEPT ![t] = None]
  /\ basis' = [basis EXCEPT ![t] = fetch[f].ids]
  /\ fetch' = [fetch EXCEPT ![f].state = "extra"]
  /\ UNCHANGED <<topMarketIds, next, resets>>

FetchExtra(f) ==
  /\ fetch[f].state = "extra"
  /\ fetch' = [fetch EXCEPT ![f].state = "return"]
  /\ UNCHANGED <<topMarketIds, tierVars, next, resets>>

\* Mutant: no deferred call.
FetchReturnMarked(f) ==
  /\ fetch[f].state = "return"
  /\ fetch' = [fetch EXCEPT ![f] = NoFetch]
  /\ UNCHANGED <<topMarketIds, tierVars, next, resets>>

\* The deferred call: whatever the way out, the mark is cleared.
FetchReturn(f) ==
  /\ fetch[f].state = "return"
  /\ setTierUpdateStartTime(fetch[f].tier, None)
  /\ fetch' = [fetch EXCEPT ![f] = NoFetch]
  /\ UNCHANGED <<topMarketIds, next, resets>>

-----------------------------------------------------------------------------
FetchStep(f) == \/ FetchMark(f) \/ FetchIds(f) \/ FetchFail(f) \/ FetchStore(f)
                \/ FetchExtra(f) \/ FetchReturn(f)

Next == \/ SetTopMarketIds \/ Elapse
        \/ \E w \in Checks : CheckBegin(w) \/ CheckTier(w)
        \/ \E t \in Tiers : Reset(t)
        \/ \E f \in Fetches : FetchStep(f)

\* Time passes, the scheduler keeps calling its task (Scheduler!TaskRecurs)
\* and runnable goroutines run.
CheckFairness ==
  /\ WF_vars(Elapse)
  /\ WF_vars(CheckBegin("tick")) /\ \A w \in Checks : WF_vars(CheckTier(w))
  /\ \A t \in Tiers : WF_vars(Reset(t))

\* A fetch may hang in its requests, and nowhere else.
FetchFairness ==
  \A f \in Fetches :
    WF_vars(fetch[f].state \notin {"request", "extra"} /\ FetchStep(f))

\* What the client promises: a request ends, well or badly, since its retries
\* are bounded and have timeouts.
RequestsEnd == \A f \in Fetches : WF_vars(FetchStep(f))

Spec == Init /\ [][Next]_vars
FairSpec == Spec /\ CheckFairness /\ FetchFairness

-----------------------------------------------------------------------------
FetchState == [state : {"idle", "spawned", "ids", "request", "extra", "return"},
               tier : 0 .. NTiers, ids : 0 .. Len(Counts)]

TypeOK ==
  /\ topMarketIds \in 0 .. Len(Counts)
  /\ known \subseteq Tiers
  /\ age \in [Tiers -> Nat]
  /\ started \in [Tiers -> Nat \cup {None}]
  /\ basis \in [Tiers -> 0 .. Len(Counts)]
  /\ next \in [Checks -> 0 .. NTiers]
  /\ resets \in [Tiers -> 0 .. MaxResets]
  /\ fetch \in [Fetches -> FetchState]

\* f is a goroutine of tier t between its first call and its deferred one.
InUpdate(f, t) == fetch[f].tier = t
                  /\ fetch[f].state \in {"ids", "request", "extra", "return"}

\* A tier is marked as updating only while one of its fetches is under way:
\* no way out of a fetch, and no other fetch or reset of the same tier that
\* runs beside it, leaves a mark behind that would keep the tier from being
\* refreshed.
MarkHasFetch ==
  \A t \in Tiers : started[t] # None => \E f \in Fetches : InUpdate(f, t)

\* What a tier holds was fetched for a list that reached into the tier, and
\* a tier that never stored anything is due: an early return or a failure is
\* never recorded as a refresh.
StoredIsServed ==
  \A t \in Tiers :
    /\ basis[t] # 0 => TokenFrom[t] <= Count(basis[t])
    /\ basis[t] = 0 => age[t] >= Interval[t]

\* A mark does not last: even when a fetch never returns the stuck check
\* clears it.
MarkExpires == \A t \in Tiers : (started[t] # None) ~> (started[t] = None)

\* Every tier the newest list reaches into is requested again and again, for
\* the newest list, if requests end: no interleaving of checks, forced updates,
\* resets and failing fetches wedges it.
TierKeepsRequesting ==
  RequestsEnd => \A t \in Tiers :
    TokenFrom[t] <= Count(Len(Counts)) =>
      []<>(\/ topMarketIds # Len(Counts)
           \/ \E f \in Fetches : fetch[f] = [state |-> "request", tier |-> t,
                                             ids |-> topMarketIds])

=============================================================================
