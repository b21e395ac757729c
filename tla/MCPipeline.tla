----------------------------- MODULE MCPipeline -----------------------------
(* Small instances of Pipeline for TLC: a data step with its 23:00 alias, a  *)
(* non-critical step and the final step, which is also a long task.          *)
EXTENDS Pipeline, TLC

MCSteps    == {"daily_k_sync", "sector_sync", "paper_tick"}
MCCritical == {"daily_k_sync", "paper_tick"}
MCTasks    == MCSteps \cup {"daily_k_sync_retry"}
MCStepOf   == [t \in MCTasks |-> IF t = "daily_k_sync_retry" THEN "daily_k_sync" ELSE t]
MCData     == {"daily_k_sync", "daily_k_sync_retry"}
MCLong     == {"paper_tick"}
LongStepOf == [t \in {"paper_tick"} |-> t]
LongCron   == <<"paper_tick">>
OneCron    == <<"daily_k_sync">>
TwoCron    == <<"daily_k_sync", "paper_tick">>

MCSymmetry == Permutations(Ids)
=============================================================================
