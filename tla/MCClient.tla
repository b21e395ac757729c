------------------------------ MODULE MCClient ------------------------------
(* Instances of MarketClient: the daily sync and the pool refresh on one     *)
(* thread, the index and the dragon tiger seats on the other.                *)
EXTENDS MarketClient

CONSTANTS sync, tables

MCFetches == [t \in Threads |-> IF t = sync THEN {"quotes", "spot"} ELSE {"index", "seats"}]
=============================================================================
