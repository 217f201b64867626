---------------------------- MODULE MCHttpClient ----------------------------
(* Two calls of one client with a Pro key, which a sole Pro key uses even  *)
(* in backoff, or a Demo key, which rests; both have the free API as well. *)
EXTENDS HttpClient

CONSTANT k1

MCSetups == {[pro |-> <<k1>>, demo |-> <<>>, knownHost |-> TRUE,
              limits |-> [pro |-> [rpm |-> 0, burst |-> 1],
                          demo |-> [rpm |-> 0, burst |-> 0],
                          none |-> [rpm |-> 0, burst |-> 0]]],
             [pro |-> <<>>, demo |-> <<k1>>, knownHost |-> FALSE,
              limits |-> [pro |-> [rpm |-> 0, burst |-> 0],
                          demo |-> [rpm |-> 60, burst |-> 0],
                          none |-> [rpm |-> 0, burst |-> 0]]]}
=============================================================================
