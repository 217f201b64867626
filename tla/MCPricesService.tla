--------------------------- MODULE MCPricesService ---------------------------
(* One tier that also asks for the extra id, in chunks of one id.  Its     *)
(* callbacks outlive the fetch and meet those of the next one.  The second *)
(* list has the ids in another order and is longer.                        *)
EXTENDS PricesService, TLC

CONSTANTS a, b, top, f1, c1, c2

MCRankings == <<<<a>>, <<b, a>>>>
MCFrom == (top :> 1)
MCTo == (top :> 2)

Symmetry == Permutations(Callbacks)
=============================================================================
