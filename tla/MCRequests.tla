----------------------------- MODULE MCRequests -----------------------------
(* Two requests at a time: for charts of one coin in a year of four days,  *)
(* or for two items, one of them twice.                                    *)
EXTENDS Requests, TLC

CONSTANTS a, b

MCLists == {<<a, b>>, <<a, a>>}
Ask(days, interval) == [coin |-> "coin", days |-> days, interval |-> interval]
MCAsks == {Ask(NoDays, ""), Ask(1, ""), Ask(1, "daily"), Ask(3, ""), Ask(MaxDays, ""),
           Ask(0, ""), Ask(Year + 1, "")}
Symmetry == Permutations(Clients)
=============================================================================
