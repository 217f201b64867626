------------------------------ MODULE MCEvents ------------------------------
(* Model-checking instance of Events: two publishers and one watcher, which *)
(* calls back at once.  Subscriptions meet only at the lock.                *)
EXTENDS Events

CONSTANTS p1, p2, s1

MCPublishers == {p1, p2}
MCSubs == {s1}
=============================================================================
