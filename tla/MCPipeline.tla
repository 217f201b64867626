----------------------------- MODULE MCPipeline -----------------------------
(* Two market lists, one token list: the second list makes the versions    *)
(* that a watcher has seen old again.                                      *)
EXTENDS Pipeline

MCMaxVersion == [s \in {"tokens", "markets"} |-> IF s = "markets" THEN 2 ELSE 1]
=============================================================================
