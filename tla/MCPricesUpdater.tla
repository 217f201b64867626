-------------------------- MODULE MCPricesUpdater --------------------------
(* Model-checking instance of PricesUpdater: a tier from the second        *)
(* position on, and lists of which the first ends before it.               *)
EXTENDS PricesUpdater

CONSTANTS f1, f2

MCFetches == {f1, f2}
OneInterval == <<1>>
OneFrom == <<2>>
MCCounts == <<1, 3>>
=============================================================================
