---------------------------- MODULE MCScheduler ----------------------------
(* Model-checking instance of Scheduler: two tasks would be enough for an   *)
(* overlap, two callers for a race of Start and Stop.                       *)
EXTENDS Scheduler, TLC

CONSTANTS c1, c2, t1, t2

MCCallers == {c1, c2}
MCTasks == {t1, t2}

Symmetry == Permutations(MCCallers) \cup Permutations(MCTasks)
=============================================================================
