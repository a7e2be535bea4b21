----------------------------- MODULE MCCacheAside -----------------------------
(* A small instance of CacheAside: every transfer touches every account.   *)
EXTENDS CacheAside

MCTouches == [tx \in Txs |-> Accounts]
=============================================================================
