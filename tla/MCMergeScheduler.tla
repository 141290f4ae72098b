-------------------------- MODULE MCMergeScheduler --------------------------
(* The `--jobs N` loop on the requests of PlanRequests.                    *)
EXTENDS MergeScheduler, PlanRequests
=============================================================================
