------------------------------- MODULE MCServer -------------------------------
(* A small instance of Server: most dependencies, some of them, or none.   *)
EXTENDS Server

MCConfigs == {{}, {"queue"}, {"db", "replica", "redis"}, {"db", "redis", "queue"}}

AllButReplica == {{"db", "redis", "queue"}}

MCCallers == Txs \cup {Main, Starter, Collector}
=============================================================================
