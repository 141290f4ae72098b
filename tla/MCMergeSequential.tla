-------------------------- MODULE MCMergeSequential --------------------------
(* The sequential loop on the requests of PlanRequests, in its own work    *)
(* directories (it runs one merge at a time).                              *)
EXTENDS MergeSequential, PlanRequests

MCSequentialRequests == {r \in MCRequests : r.entries = 2 \/ r.work_key = OwnDirs}
=============================================================================
