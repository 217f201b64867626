---------------------------- MODULE MCFetcherById ----------------------------
(* Model-checking instances of FetcherById.                                *)
EXTENDS FetcherById

CONSTANTS f1, f2, a, b, x, u

MCFetches == {f1, f2}
MCIds == {a, b, x, u}
MCFrom == <<1, 3>>
MCTo == <<2, 4>>
SecondTier == {2}
OneExtra == <<x>>
OneUnknown == {u}
NoUnknown == {}
\* The list is <<a, u>>, then <<a, u, b>>: the first tier ends with u, the
\* second one begins with b, if u is not counted twice.
MCUpdates == <<1 :> <<a, u>>, 2 :> <<u, b>>>>
\* For one tier of one id.
OneFrom == <<1>>
OneTier == {1}
OneUpdate == <<1 :> <<a>>>>
\* Only u has a name that is too long for any request.
MCLength == [id \in MCIds |-> IF id = u THEN 3 ELSE 1]

\* Lists of at most four ids, cut from any position on, against a definition of
\* the longest chunk by what may be in it.
ASSUME ChunksAreLongest ==
  \A n \in 1 .. 4 : \A lengths \in [1 .. n -> 0 .. 3] :
    \A start \in 0 .. n - 1, itemsLimit \in 1 .. 3, lengthLimit \in 0 .. 4 :
      LET total(end) == SumFunctionOnSet(lengths, start + 1 .. end)
          fitting == {end \in start + 1 .. n :
                        /\ end - start <= itemsLimit
                        /\ lengthLimit = 0 \/ total(end) <= lengthLimit}
      IN ChunkEnd(lengths, start, itemsLimit, lengthLimit)
           = IF fitting = {} THEN start + 1 ELSE Max(fitting)
=============================================================================
