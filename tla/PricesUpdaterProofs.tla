------------------------ MODULE PricesUpdaterProofs ------------------------
(***************************************************************************)
(* Theorems of PricesUpdater for any configuration of tiers, any lists of  *)
(* ids and any number of fetches of the same tier at a time.               *)
(*                                                                         *)
(* MarkHasFetch is inductive over the types; StoredIsServed needs          *)
(* RequestServed: a fetch that got as far as a request holds a version of  *)
(* the list that reaches into its tier, whatever the list is by now.       *)
(***************************************************************************)
EXTENDS PricesUpdater, TLAPS

\* A fetch goroutine has a tier, and its request is within the list it read.
RequestServed ==
  \A f \in Fetches :
    /\ fetch[f].state # "idle" => fetch[f].tier \in Tiers
    /\ fetch[f].state = "request" =>
         fetch[f].ids # 0 /\ TokenFrom[fetch[f].tier] <= Count(fetch[f].ids)

IInv == TypeOK /\ RequestServed /\ MarkHasFetch /\ StoredIsServed

-----------------------------------------------------------------------------
\* The values a fetch goroutine takes are fetch states.
LEMMA FetchStates ==
  /\ NoFetch \in FetchState
  /\ \A t \in Tiers : [state |-> "spawned", tier |-> t, ids |-> 0] \in FetchState
  /\ \A r \in FetchState, x \in {"ids", "extra", "return"} :
       [r EXCEPT !.state = x] \in FetchState
<1>1. /\ 0 \in 0 .. NTiers /\ 0 \in 0 .. Len(Counts)
      /\ \A t \in Tiers : t \in 0 .. NTiers
  BY PricesAssumption DEF Tiers
<1> QED
  BY <1>1 DEF NoFetch, FetchState

\* A check goes from the last tier back to idle.
LEMMA NextTier ==
  \A t \in Tiers : (IF t = NTiers THEN 0 ELSE t + 1) \in 0 .. NTiers
  BY PricesAssumption DEF Tiers

\* A check spawns at most one fetch, of the tier it looks at, under a name
\* that is free.
LEMMA CheckSpawns ==
  ASSUME NEW w \in Checks, CheckTier(w)
  PROVE  \/ UNCHANGED fetch
         \/ \E f \in Fetches :
              /\ fetch[f] = NoFetch
              /\ fetch' = [fetch EXCEPT ![f] =
                             [state |-> "spawned", tier |-> next[w], ids |-> 0]]
  BY DEF CheckTier, Spawn

\* The length of a list is a number.
LEMMA CountNat == \A v \in 0 .. Len(Counts) : Count(v) \in Nat
  BY PricesAssumption DEF Count

\* Every step keeps the types.
LEMMA TypeOKStep ==
  TypeOK /\ RequestServed /\ [Next]_vars => TypeOK'
<1> SUFFICES ASSUME TypeOK /\ RequestServed, [Next]_vars
    PROVE TypeOK'
  OBVIOUS
<1> USE DEF TypeOK, RequestServed, tierVars, None
<1>1. CASE SetTopMarketIds
  BY <1>1, PricesAssumption DEF SetTopMarketIds
<1>2. CASE Elapse
  BY <1>2 DEF Elapse
<1>3. ASSUME NEW w \in Checks, CheckBegin(w) PROVE TypeOK'
  BY <1>3, PricesAssumption DEF CheckBegin
<1>4. ASSUME NEW w \in Checks, CheckTier(w) PROVE TypeOK'
  <2>1. next[w] \in Tiers
    BY <1>4, PricesAssumption DEF CheckTier, Tiers
  <2>2. fetch' \in [Fetches -> FetchState]
    BY <1>4, <2>1, FetchStates DEF CheckTier, Spawn
  <2>3. next' \in [Checks -> 0 .. NTiers]
    BY <1>4, <2>1, NextTier DEF CheckTier
  <2>4. resets' \in [Tiers -> 0 .. MaxResets]
    BY <1>4, <2>1, PricesAssumption DEF CheckTier
  <2> QED
    BY <1>4, <2>2, <2>3, <2>4 DEF CheckTier
<1>5. ASSUME NEW t \in Tiers, Reset(t) PROVE TypeOK'
  BY <1>5, PricesAssumption DEF Reset, setTierUpdateStartTime
<1>6. ASSUME NEW f \in Fetches, FetchMark(f) PROVE TypeOK'
  BY <1>6, FetchStates, PricesAssumption DEF FetchMark, setTierUpdateStartTime
<1>7. ASSUME NEW f \in Fetches, FetchIds(f) PROVE TypeOK'
  <2>1. /\ fetch[f].tier \in 0 .. NTiers
        /\ topMarketIds \in 0 .. Len(Counts)
    BY <1>7 DEF FetchIds, FetchState
  <2>2. \A x \in {"request", "return"} :
          [state |-> x, tier |-> fetch[f].tier, ids |-> topMarketIds] \in FetchState
    BY <2>1 DEF FetchState
  <2> QED
    BY <1>7, <2>2 DEF FetchIds
<1>8. ASSUME NEW f \in Fetches, FetchFail(f) PROVE TypeOK'
  BY <1>8, FetchStates, PricesAssumption DEF FetchFail
<1>9. ASSUME NEW f \in Fetches, FetchStore(f) PROVE TypeOK'
  <2>1. /\ fetch[f].tier \in Tiers /\ fetch[f].ids \in 0 .. Len(Counts)
        /\ 0 \in Nat
    BY <1>9 DEF FetchStore, FetchState
  <2>2. fetch' \in [Fetches -> FetchState]
    BY <1>9, FetchStates DEF FetchStore
  <2> QED
    BY <1>9, <2>1, <2>2 DEF FetchStore
<1>10. ASSUME NEW f \in Fetches, FetchExtra(f) PROVE TypeOK'
  BY <1>10, FetchStates, PricesAssumption DEF FetchExtra
<1>11. ASSUME NEW f \in Fetches, FetchReturn(f) PROVE TypeOK'
  BY <1>11, FetchStates, PricesAssumption DEF FetchReturn, setTierUpdateStartTime
<1>12. CASE UNCHANGED vars
  BY <1>12 DEF vars
<1> QED
  BY <1>1, <1>2, <1>3, <1>4, <1>5, <1>6, <1>7, <1>8, <1>9, <1>10, <1>11, <1>12
  DEF Next, FetchStep

\* Every step keeps requests within the list they were made for.
LEMMA RequestServedStep ==
  TypeOK /\ RequestServed /\ [Next]_vars => RequestServed'
<1> SUFFICES ASSUME TypeOK /\ RequestServed, [Next]_vars
    PROVE RequestServed'
  OBVIOUS
<1> USE PricesAssumption, CountNat DEF TypeOK, RequestServed, FetchState, NoFetch, tierVars
<1>1. CASE SetTopMarketIds
  BY <1>1 DEF SetTopMarketIds
<1>2. CASE Elapse
  BY <1>2 DEF Elapse
<1>3. ASSUME NEW w \in Checks, CheckBegin(w) PROVE RequestServed'
  BY <1>3 DEF CheckBegin
<1>4. ASSUME NEW w \in Checks, CheckTier(w) PROVE RequestServed'
  <2>1. next[w] \in Tiers
    BY <1>4, PricesAssumption DEF CheckTier, Tiers
  <2>2. CASE UNCHANGED fetch
    BY <1>4, <2>2 DEF CheckTier
  <2>3. CASE \E f \in Fetches :
               /\ fetch[f] = NoFetch
               /\ fetch' = [fetch EXCEPT ![f] =
                              [state |-> "spawned", tier |-> next[w], ids |-> 0]]
    BY <1>4, <2>1, <2>3 DEF CheckTier
  <2> QED
    BY <1>4, <2>2, <2>3, CheckSpawns
<1>5. ASSUME NEW t \in Tiers, Reset(t) PROVE RequestServed'
  BY <1>5 DEF Reset, setTierUpdateStartTime
<1>6. ASSUME NEW f \in Fetches, FetchMark(f) PROVE RequestServed'
  BY <1>6 DEF FetchMark, setTierUpdateStartTime
<1>7. ASSUME NEW f \in Fetches, FetchIds(f) PROVE RequestServed'
  <2>1. /\ fetch'[f].tier = fetch[f].tier /\ fetch'[f].ids = topMarketIds
        /\ fetch'[f].state = "request" =>
             topMarketIds # 0 /\ TokenFrom[fetch[f].tier] <= Count(topMarketIds)
        /\ \A g \in Fetches \ {f} : fetch'[g] = fetch[g]
    BY <1>7 DEF FetchIds, Count
  <2> QED
    BY <1>7, <2>1 DEF FetchIds
<1>8. ASSUME NEW f \in Fetches, FetchFail(f) PROVE RequestServed'
  BY <1>8 DEF FetchFail
<1>9. ASSUME NEW f \in Fetches, FetchStore(f) PROVE RequestServed'
  BY <1>9 DEF FetchStore
<1>10. ASSUME NEW f \in Fetches, FetchExtra(f) PROVE RequestServed'
  BY <1>10 DEF FetchExtra
<1>11. ASSUME NEW f \in Fetches, FetchReturn(f) PROVE RequestServed'
  BY <1>11 DEF FetchReturn, setTierUpdateStartTime
<1>12. CASE UNCHANGED vars
  BY <1>12 DEF vars
<1> QED
  BY <1>1, <1>2, <1>3, <1>4, <1>5, <1>6, <1>7, <1>8, <1>9, <1>10, <1>11, <1>12
  DEF Next, FetchStep

\* No step leaves a mark without a fetch.
LEMMA MarkHasFetchStep ==
  TypeOK /\ RequestServed /\ MarkHasFetch /\ [Next]_vars => MarkHasFetch'
<1> SUFFICES ASSUME TypeOK /\ RequestServed /\ MarkHasFetch, [Next]_vars
    PROVE MarkHasFetch'
  OBVIOUS
<1> USE PricesAssumption DEF TypeOK, RequestServed, MarkHasFetch, InUpdate, FetchState, NoFetch, None,
  tierVars
<1>1. CASE SetTopMarketIds
  BY <1>1 DEF SetTopMarketIds
<1>2. CASE Elapse
  BY <1>2 DEF Elapse
<1>3. ASSUME NEW w \in Checks, CheckBegin(w) PROVE MarkHasFetch'
  BY <1>3 DEF CheckBegin
<1>4. ASSUME NEW w \in Checks, CheckTier(w) PROVE MarkHasFetch'
  <2>1. next[w] \in Tiers
    BY <1>4, PricesAssumption DEF CheckTier, Tiers
  <2>2. CASE UNCHANGED fetch
    BY <1>4, <2>2 DEF CheckTier
  <2>3. CASE \E f \in Fetches :
               /\ fetch[f] = NoFetch
               /\ fetch' = [fetch EXCEPT ![f] =
                              [state |-> "spawned", tier |-> next[w], ids |-> 0]]
    <3> SUFFICES ASSUME NEW t \in Tiers, started'[t] # None
        PROVE \E f \in Fetches : InUpdate(f, t)'
      BY DEF MarkHasFetch
    <3>1. PICK f \in Fetches : InUpdate(f, t)
      BY <1>4 DEF CheckTier
    <3>2. fetch'[f] = fetch[f]
      BY <2>3, <3>1
    <3> QED
      BY <3>1, <3>2
  <2> QED
    BY <1>4, <2>2, <2>3, CheckSpawns
<1>5. ASSUME NEW t \in Tiers, Reset(t) PROVE MarkHasFetch'
  BY <1>5 DEF Reset, setTierUpdateStartTime
<1>6. ASSUME NEW f \in Fetches, FetchMark(f) PROVE MarkHasFetch'
  BY <1>6 DEF FetchMark, setTierUpdateStartTime
<1>7. ASSUME NEW f \in Fetches, FetchIds(f) PROVE MarkHasFetch'
  BY <1>7 DEF FetchIds
<1>8. ASSUME NEW f \in Fetches, FetchFail(f) PROVE MarkHasFetch'
  BY <1>8 DEF FetchFail
<1>9. ASSUME NEW f \in Fetches, FetchStore(f) PROVE MarkHasFetch'
  BY <1>9 DEF FetchStore
<1>10. ASSUME NEW f \in Fetches, FetchExtra(f) PROVE MarkHasFetch'
  BY <1>10 DEF FetchExtra
<1>11. ASSUME NEW f \in Fetches, FetchReturn(f) PROVE MarkHasFetch'
  BY <1>11 DEF FetchReturn, setTierUpdateStartTime
<1>12. CASE UNCHANGED vars
  BY <1>12 DEF vars
<1> QED
  BY <1>1, <1>2, <1>3, <1>4, <1>5, <1>6, <1>7, <1>8, <1>9, <1>10, <1>11, <1>12
  DEF Next, FetchStep

\* No step records a refresh that did not happen.
LEMMA StoredIsServedStep ==
  TypeOK /\ RequestServed /\ StoredIsServed /\ [Next]_vars => StoredIsServed'
<1> SUFFICES ASSUME TypeOK /\ RequestServed /\ StoredIsServed, [Next]_vars
    PROVE StoredIsServed'
  OBVIOUS
<1> USE PricesAssumption DEF TypeOK, RequestServed, StoredIsServed, tierVars
<1>1. CASE SetTopMarketIds
  BY <1>1 DEF SetTopMarketIds
<1>2. CASE Elapse
  BY <1>2 DEF Elapse
<1>3. ASSUME NEW w \in Checks, CheckBegin(w) PROVE StoredIsServed'
  BY <1>3 DEF CheckBegin
<1>4. ASSUME NEW w \in Checks, CheckTier(w) PROVE StoredIsServed'
  <2>1. next[w] \in Tiers
    BY <1>4, PricesAssumption DEF CheckTier, Tiers
  <2> QED
    BY <1>4, <2>1 DEF CheckTier, Spawn
<1>5. ASSUME NEW t \in Tiers, Reset(t) PROVE StoredIsServed'
  BY <1>5 DEF Reset, setTierUpdateStartTime
<1>6. ASSUME NEW f \in Fetches, FetchMark(f) PROVE StoredIsServed'
  BY <1>6 DEF FetchMark, setTierUpdateStartTime
<1>7. ASSUME NEW f \in Fetches, FetchIds(f) PROVE StoredIsServed'
  BY <1>7 DEF FetchIds
<1>8. ASSUME NEW f \in Fetches, FetchFail(f) PROVE StoredIsServed'
  BY <1>8 DEF FetchFail
<1>9. ASSUME NEW f \in Fetches, FetchStore(f) PROVE StoredIsServed'
  BY <1>9 DEF FetchStore
<1>10. ASSUME NEW f \in Fetches, FetchExtra(f) PROVE StoredIsServed'
  BY <1>10 DEF FetchExtra
<1>11. ASSUME NEW f \in Fetches, FetchReturn(f) PROVE StoredIsServed'
  BY <1>11 DEF FetchReturn, setTierUpdateStartTime
<1>12. CASE UNCHANGED vars
  BY <1>12 DEF vars
<1> QED
  BY <1>1, <1>2, <1>3, <1>4, <1>5, <1>6, <1>7, <1>8, <1>9, <1>10, <1>11, <1>12
  DEF Next, FetchStep

-----------------------------------------------------------------------------
\* IInv holds of every reachable state.
LEMMA Inductive == Spec => []IInv
<1>1. Init => TypeOK
  <2> SUFFICES ASSUME Init PROVE TypeOK
    OBVIOUS
  <2>1. /\ 0 \in 0 .. NTiers /\ 0 \in 0 .. Len(Counts)
        /\ 0 \in 0 .. MaxResets
    BY PricesAssumption
  <2>2. fetch \in [Fetches -> FetchState]
    BY FetchStates DEF Init
  <2> QED
    BY <2>1, <2>2, PricesAssumption DEF Init, TypeOK, None
<1>2. Init => RequestServed /\ MarkHasFetch /\ StoredIsServed
  BY PricesAssumption
  DEF Init, RequestServed, MarkHasFetch, StoredIsServed, NoFetch, None
<1> QED
  BY <1>1, <1>2, TypeOKStep, RequestServedStep, MarkHasFetchStep,
     StoredIsServedStep, PTL DEF Spec, IInv

\* Type correctness of the prices updater.
THEOREM TypeCorrect == Spec => []TypeOK
  BY Inductive, PTL DEF IInv

\* A tier is marked as updating only while one of its fetches is under way.
THEOREM MarksAreCleared == Spec => []MarkHasFetch
  BY Inductive, PTL DEF IInv

\* Only a fetch whose list reached into the tier counts as a refresh of it.
THEOREM RefreshesAreReal == Spec => []StoredIsServed
  BY Inductive, PTL DEF IInv
=============================================================================
