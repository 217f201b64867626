-------------------------------- MODULE TopIds --------------------------------
(***************************************************************************)
(* coingecko_markets/top_ids.go: the ids of the listed pages and the list  *)
(* made of them, rebuilt by the first reader after an update.  Every       *)
(* method holds the mutex, so each is one step.  A page that is not in the *)
(* map and one without ids do the same to the list: both are <<>>.         *)
(***************************************************************************)
EXTENDS Integers, SequencesExt

CONSTANTS Ids,    \* the ids of tokens
          NPages  \* the pages are 1 .. NPages

Pages == 1 .. NPages

ASSUME TopIdsAssumption == NPages \in Nat

VARIABLES pageToIds,  \* pageToIds[p]: the ids of page p
          topIds,     \* the list as last built
          dirty       \* pages have changed since

topVars == <<pageToIds, topIds, dirty>>

TopInit ==
  /\ pageToIds = [p \in Pages |-> <<>>]
  /\ topIds = <<>>
  /\ dirty = FALSE

\* Mutant: an id that several pages list is kept on each of them.
rebuildWithDuplicates == FlattenSeq(pageToIds)

\* The pages in order, of each id the first occurrence only: ranked[n] is the
\* list after n ids of the pages.
rebuildTopIds ==
  LET ids == FlattenSeq(pageToIds)
      ranked[n \in 0 .. Len(ids)] ==
        IF n = 0 THEN <<>>
        ELSE LET list == ranked[n - 1]
             IN IF Contains(list, ids[n]) THEN list ELSE Append(list, ids[n])
  IN ranked[Len(ids)]

\* pagesData is a function from some of the pages to their new ids.
UpdatePagesFromPageData(pagesData) ==
  /\ pageToIds' = [p \in Pages |-> IF p \in DOMAIN pagesData THEN pagesData[p]
                                                              ELSE pageToIds[p]]
  /\ dirty' = TRUE
  /\ UNCHANGED topIds

\* What GetTopIds(limit) returns, and what it does on the way.
TopIdsNow == IF dirty THEN rebuildTopIds ELSE topIds
TopIdsUpTo(limit) ==
  IF limit <= 0 \/ limit > Len(TopIdsNow) THEN TopIdsNow
                                          ELSE SubSeq(TopIdsNow, 1, limit)
GetTopIds ==
  /\ topIds' = TopIdsNow
  /\ dirty' = FALSE
  /\ UNCHANGED pageToIds

Clear ==
  /\ pageToIds' = [p \in Pages |-> <<>>]
  /\ topIds' = <<>>
  /\ dirty' = FALSE

-----------------------------------------------------------------------------
\* The rank of an id among all listed ones, counting duplicates.
Rank(id) == Min({i \in DOMAIN FlattenSeq(pageToIds) : FlattenSeq(pageToIds)[i] = id})

\* A list that is not dirty ranks the listed ids: each of them once, none
\* else, in the order in which the pages name them first.  Tiers choose their
\* ids by position, so a duplicate or a forgotten update moves all ids behind.
ListRanksPages ==
  ~dirty => /\ ToSet(topIds) = ToSet(FlattenSeq(pageToIds))
            /\ \A i, j \in DOMAIN topIds : i < j => Rank(topIds[i]) < Rank(topIds[j])
=============================================================================
