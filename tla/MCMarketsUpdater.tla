-------------------------- MODULE MCMarketsUpdater --------------------------
(* Model-checking instances of MarketsUpdater.                             *)
EXTENDS MarketsUpdater, TLC

CONSTANTS f1, f2, h1, top, rest

MCFetches == {f1, f2}
MCNames == {top, rest}

TwoNames == <<top, rest>>      \* two tiers with names of their own
OneName  == <<top, top>>       \* two tiers that share a name
TwoFrom  == <<1, 2>>           \* the first pages of the two tiers and ...
TwoTo    == <<1, 2>>           \* ... the last ones: one page each

JustTop == <<top>>             \* one tier of two pages
OneFrom == <<1>>
OneTo   == <<2>>

Symmetry == Permutations({f1, f2})
=============================================================================
