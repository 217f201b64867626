-------------------------------- MODULE Cache --------------------------------
(***************************************************************************)
(* cache/: the process's cache, a map from keys to data with a time to     *)
(* live.  The services use it with keys of their own (price:id:, markets:, *)
(* markets_page:, chart keys, ...).  Set and Get of several keys are loops *)
(* over the keys: a step of this module is one key, and the loops are in   *)
(* the modules of the callers.                                             *)
(***************************************************************************)
EXTENDS Integers

CONSTANT CacheKeys

VARIABLES val,  \* val[k]: the data last stored for k
          ttl   \* ttl[k]: ticks until it expires; 0 if it has, or if there is none

cacheVars == <<val, ttl>>

CacheInit(noData) ==
    /\ val = [k \in CacheKeys |-> noData]
    /\ ttl = [k \in CacheKeys |-> 0]

(* An expired item is not found, whether or not the cleanup has removed it *)
Found(k) == ttl[k] > 0

(* Mutant: an item that has not expired is kept *)
SetKeyIfAbsent(k, data, timeout) ==
    IF Found(k) THEN UNCHANGED cacheVars
    ELSE /\ val' = [val EXCEPT ![k] = data]
         /\ ttl' = [ttl EXCEPT ![k] = timeout]

SetKey(k, data, timeout) ==
    /\ val' = [val EXCEPT ![k] = data]
    /\ ttl' = [ttl EXCEPT ![k] = timeout]

CacheTick ==
    /\ ttl' = [k \in CacheKeys |-> IF ttl[k] > 0 THEN ttl[k] - 1 ELSE 0]
    /\ UNCHANGED val
=============================================================================
