--------------------------- MODULE MergeScheduler ---------------------------
(***************************************************************************)
(* `merge_parallel` and its `Scheduler` (portage-cli/src/merge/mod.rs):    *)
(* the `em --jobs N` loop.  One task owns the loop; the node futures it    *)
(* starts run concurrently and end in any order.                           *)
(*                                                                         *)
(* The loop is either filling its slots (pc = "fill", the inner `while`)   *)
(* or awaiting the next future (pc = "await", `inflight.next()`); it ends  *)
(* when it awaits with nothing in flight, flushes the merge gate, and      *)
(* returns (pc = "done").                                                  *)
(***************************************************************************)
EXTENDS MergePlan, Sequences, Functions

CONSTANT Jobs          \* --jobs N

ASSUME JobsAssumption == Jobs \in Nat /\ Jobs > 1

VARIABLES
    run,               \* the request, fixed when the loop is entered
    outstanding,       \* Scheduler::outstanding: blockers not completed yet
    dependents,        \* Scheduler::dependents: reverse edges not taken yet
    ready,             \* Scheduler::ready: the FIFO of startable nodes
    status,            \* what became of each node so far
    inflight_workdirs, \* work directories held by a running merge
    stop_new,          \* a merge failed without --keep-going
    interrupted,       \* interrupt::requested()
    unremoved,         \* unmerges that returned Ok and removed nothing
    flush_failed,      \* MergeGate::finish failed at the end of the run
    pc                 \* where the loop is

sched == <<outstanding, dependents, ready>>
vars  == <<run, sched, status, inflight_workdirs, stop_new, interrupted,
           unremoved, flush_failed, pc>>

Inflight  == {i \in Nodes(run) : status[i] = "inflight"}
Completed == {i \in Nodes(run) : status[i] \in {"ok", "skipped"}}
Failed    == {i \in Nodes(run) : status[i] = "failed"}

(* The listing of S in ascending order: the order in which a scan over the *)
(* node indices pushes them.                                               *)
Ascending(S) ==
    {s \in [1 .. Cardinality(S) -> S] :
        /\ \A j, k \in DOMAIN s : j < k => s[j] < s[k]
        /\ Range(s) = S}

-----------------------------------------------------------------------------
(* Scheduler::new over the extended blockers, and the loop's locals.       *)
Init ==
    /\ run \in Requests
    /\ outstanding = [i \in Nodes(run) |-> Cardinality(Extended(run)[i])]
    /\ dependents = [j \in Nodes(run) |->
                        {i \in Nodes(run) : j \in Extended(run)[i]}]
    /\ ready \in Ascending({i \in Nodes(run) : outstanding[i] = 0})
    /\ status = [i \in Nodes(run) |-> "waiting"]
    /\ inflight_workdirs = {}
    /\ stop_new = FALSE
    /\ interrupted = FALSE
    /\ unremoved = {}
    /\ flush_failed = FALSE
    /\ pc = "fill"

(* Slip of Scheduler::complete (each named XxxSlip operator of this        *)
(* project is a mutant: no specification uses it, and a property of a run  *)
(* fails once it stands for the definition that follows it).  A dependent  *)
(* pushed one blocker too early.                                           *)
CompleteEarlySlip(i, queue) ==
    /\ dependents' = [dependents EXCEPT ![i] = {}]
    /\ outstanding' = [d \in Nodes(run) |-> IF d \in dependents[i]
                                            THEN outstanding[d] - 1
                                            ELSE outstanding[d]]
    /\ \E pushed \in Ascending({d \in dependents[i] : outstanding[d] <= 2}) :
           ready' = queue \o pushed

(* Scheduler::complete(i) on a queue: unblock i's dependents, pushing the  *)
(* ones that reach zero.                                                   *)
Complete(i, queue) ==
    /\ dependents' = [dependents EXCEPT ![i] = {}]
    /\ outstanding' = [d \in Nodes(run) |-> IF d \in dependents[i]
                                            THEN outstanding[d] - 1
                                            ELSE outstanding[d]]
    /\ \E pushed \in Ascending({d \in dependents[i] : outstanding[d] = 1}) :
           ready' = queue \o pushed

(* A work directory taken, but not looked at.                              *)
PathFreeSlip(i) == TRUE

(* The closure given to next_ready_free: an unmerge has no work directory. *)
PathFree(i) ==
    i \in Entries(run) => run.work_key[i] \notin inflight_workdirs

(* next_ready_free pops the first free node, rotating the others behind.   *)
NextReadyFree(k) ==
    /\ k \in 1 .. Len(ready)
    /\ PathFree(ready[k])
    /\ \A j \in 1 .. (k - 1) : ~PathFree(ready[j])

(* The nodes passed over, dropped instead of rotated.                      *)
AfterPopSlip(k) == SubSeq(ready, k + 1, Len(ready))

AfterPop(k) ==
    SubSeq(ready, k + 1, Len(ready)) \o SubSeq(ready, 1, k - 1)

(* One job too many.                                                       *)
MayStartSlip == /\ pc = "fill"
                /\ ~stop_new
                /\ ~interrupted
                /\ Cardinality(Inflight) <= Jobs

(* The head of the inner `while`.                                          *)
MayStart == /\ pc = "fill"
            /\ ~stop_new
            /\ ~interrupted
            /\ Cardinality(Inflight) < Jobs

-----------------------------------------------------------------------------
(* A plan entry is started: its work directory is taken and its future     *)
(* pushed.                                                                 *)
StartMerge ==
    /\ MayStart
    /\ \E k \in 1 .. Len(ready) :
        /\ NextReadyFree(k)
        /\ ready[k] \in Entries(run)
        /\ ready' = AfterPop(k)
        /\ status' = [status EXCEPT ![ready[k]] = "inflight"]
        /\ inflight_workdirs' = inflight_workdirs \cup {run.work_key[ready[k]]}
    /\ UNCHANGED <<run, outstanding, dependents, stop_new, interrupted,
                   unremoved, flush_failed, pc>>

(* The entry's VDB directory exists by now: it is completed on the spot.   *)
(* The work directory is taken and given back in the same step.            *)
SkipInstalled ==
    /\ MayStart
    /\ \E k \in 1 .. Len(ready) :
        /\ NextReadyFree(k)
        /\ ready[k] \in run.skippable
        /\ Complete(ready[k], AfterPop(k))
        /\ status' = [status EXCEPT ![ready[k]] = "skipped"]
    /\ UNCHANGED <<run, inflight_workdirs, stop_new, interrupted,
                   unremoved, flush_failed, pc>>

(* An unmerge node is started.                                             *)
StartUnmerge ==
    /\ MayStart
    /\ \E k \in 1 .. Len(ready) :
        /\ NextReadyFree(k)
        /\ ready[k] \in Unmerges(run)
        /\ ready' = AfterPop(k)
        /\ status' = [status EXCEPT ![ready[k]] = "inflight"]
    /\ UNCHANGED <<run, outstanding, dependents, inflight_workdirs, stop_new,
                   interrupted, unremoved, flush_failed, pc>>

(* The signal stops new starts but is not a way out of the inner loop.     *)
StopFillingSlip ==
    /\ pc = "fill"
    /\ \/ stop_new
       \/ Cardinality(Inflight) >= Jobs
       \/ \A k \in 1 .. Len(ready) : ~PathFree(ready[k])
       \/ Inflight # {}
    /\ pc' = "await"
    /\ UNCHANGED <<run, sched, status, inflight_workdirs, stop_new,
                   interrupted, unremoved, flush_failed>>

(* The inner loop is left: no slot, a stop, nothing startable, or (with a  *)
(* job already running) too high a load average.                           *)
StopFilling ==
    /\ pc = "fill"
    /\ \/ stop_new \/ interrupted
       \/ Cardinality(Inflight) >= Jobs
       \/ \A k \in 1 .. Len(ready) : ~PathFree(ready[k])
       \/ Inflight # {}
    /\ pc' = "await"
    /\ UNCHANGED <<run, sched, status, inflight_workdirs, stop_new,
                   interrupted, unremoved, flush_failed>>

(* record_package_outcome's effect on the locals of the loop.              *)
ReleaseWorkdir(i) ==
    inflight_workdirs' = IF i \in Entries(run)
                         THEN inflight_workdirs \ {run.work_key[i]}
                         ELSE inflight_workdirs

(* The unmerge batch checks the signal before it removes anything, and     *)
(* having stopped there returns Ok.                                        *)
MaybeUnremoved(i) ==
    \/ UNCHANGED unremoved
    \/ /\ i \in Unmerges(run)
       /\ interrupted
       /\ unremoved' = unremoved \cup {i}

(* A future resolved Ok: its dependents are unblocked.                     *)
FinishOk(i) ==
    /\ pc = "await"
    /\ i \in Inflight
    /\ Complete(i, ready)
    /\ status' = [status EXCEPT ![i] = "ok"]
    /\ ReleaseWorkdir(i)
    /\ MaybeUnremoved(i)
    /\ pc' = "fill"
    /\ UNCHANGED <<run, stop_new, interrupted, flush_failed>>

(* complete() called whatever the result: `if res.is_ok()` dropped.        *)
FinishErrSlip(i) ==
    /\ pc = "await"
    /\ i \in Inflight
    /\ Complete(i, ready)
    /\ status' = [status EXCEPT ![i] = "failed"]
    /\ ReleaseWorkdir(i)
    /\ stop_new' = (stop_new \/ (i \in Entries(run) /\ ~run.keep_going))
    /\ pc' = "fill"
    /\ UNCHANGED <<run, interrupted, unremoved, flush_failed>>

(* A future resolved Err: its dependents stay blocked.  Only a package     *)
(* failure can stop the run; a failed unmerge never does.                  *)
FinishErr(i) ==
    /\ pc = "await"
    /\ i \in Inflight
    /\ status' = [status EXCEPT ![i] = "failed"]
    /\ ReleaseWorkdir(i)
    /\ stop_new' = (stop_new \/ (i \in Entries(run) /\ ~run.keep_going))
    /\ pc' = "fill"
    /\ UNCHANGED <<run, sched, interrupted, unremoved, flush_failed>>

(* inflight.next() yields None: flush the deferred preserve-libs work and  *)
(* return.  A failed flush is one more MergeFailure.                       *)
Finish ==
    /\ pc = "await"
    /\ Inflight = {}
    /\ flush_failed' \in BOOLEAN
    /\ pc' = "done"
    /\ UNCHANGED <<run, sched, status, inflight_workdirs, stop_new,
                   interrupted, unremoved>>

(* The first SIGINT or SIGTERM.                                            *)
Interrupt ==
    /\ pc # "done"
    /\ ~interrupted
    /\ interrupted' = TRUE
    /\ UNCHANGED <<run, sched, status, inflight_workdirs, stop_new,
                   unremoved, flush_failed, pc>>

Terminated == pc = "done" /\ UNCHANGED vars

Next == \/ StartMerge \/ SkipInstalled \/ StartUnmerge \/ StopFilling
        \/ \E i \in Nodes(run) : FinishOk(i) \/ FinishErr(i)
        \/ Finish \/ Interrupt \/ Terminated

Spec == Init /\ [][Next]_vars

(* The loop runs whenever it can, and every future it awaits resolves: a   *)
(* build ends, one way or the other.                                       *)
Fairness ==
    /\ WF_vars(StartMerge \/ SkipInstalled \/ StartUnmerge \/ StopFilling \/ Finish)
    /\ WF_vars(\E i \in Nodes(run) : FinishOk(i) \/ FinishErr(i))

FairSpec == Spec /\ Fairness

-----------------------------------------------------------------------------
TypeOK ==
    /\ run \in Requests
    /\ outstanding \in [Nodes(run) -> Nat]
    /\ dependents \in [Nodes(run) -> SUBSET Nodes(run)]
    /\ ready \in Seq(Nodes(run))
    /\ status \in [Nodes(run) -> {"waiting", "inflight", "ok", "skipped", "failed"}]
    /\ inflight_workdirs \subseteq Range(run.work_key)
    /\ stop_new \in BOOLEAN
    /\ interrupted \in BOOLEAN
    /\ unremoved \subseteq Unmerges(run)
    /\ flush_failed \in BOOLEAN
    /\ pc \in {"fill", "await", "done"}

(* Nothing is started before everything that blocks it has completed, in   *)
(* whatever order the futures end: the counters of Scheduler::complete are *)
(* right about the set they stand for.                                     *)
OrderRespected ==
    \A i \in Nodes(run) :
        status[i] # "waiting" => Extended(run)[i] \subseteq Completed

(* The ready queue holds each startable node once and nothing else: no     *)
(* node is queued twice (it would be built twice) and none is lost (it     *)
(* would never be built), whatever was rotated, skipped or failed.         *)
QueueExact ==
    /\ \A j, k \in DOMAIN ready : ready[j] = ready[k] => j = k
    /\ Range(ready) = {i \in Nodes(run) : /\ status[i] = "waiting"
                                          /\ Extended(run)[i] \subseteq Completed}

(* The counters and the reverse edges say what the graph says: a node's    *)
(* counter is the number of its blockers still to complete, and an edge is *)
(* taken exactly when its source completes.  This is what makes counting   *)
(* down to zero a sound test of "all blockers done".                       *)
Bookkeeping ==
    \A i \in Nodes(run) :
        /\ outstanding[i] = Cardinality(Extended(run)[i] \ Completed)
        /\ dependents[i] = IF i \in Completed THEN {}
                           ELSE {d \in Nodes(run) : i \in Extended(run)[d]}

(* PMS 8.3.2 at every interleaving: no owner of a `!!` victim is started   *)
(* while the victim is installed, also when the signal made its unmerge    *)
(* return early; no `!` victim is removed before each of its owners is in. *)
VictimOrder ==
    /\ \A u \in Strong(run) : \A i \in run.owners[u] :
            status[i] # "waiting" => status[u] = "ok" /\ u \notin unremoved
    /\ \A u \in Weak(run) :
            status[u] # "waiting" => run.owners[u] \subseteq Completed

(* inflight_workdirs is the work directories of the running merges, each   *)
(* held by one: two merges never share a build tree, and none stays taken  *)
(* after its merge failed.                                                 *)
WorkdirsExclusive ==
    LET building == Inflight \cap Entries(run)
    IN  /\ inflight_workdirs = {run.work_key[i] : i \in building}
        /\ \A i, j \in building : run.work_key[i] = run.work_key[j] => i = j

(* A run that was neither stopped nor interrupted gave every node its      *)
(* turn: what it never started waits on something that failed or, through  *)
(* such a node, was itself never started.                                  *)
NothingRunnableLeft ==
    (pc = "done" /\ ~stop_new /\ ~interrupted) =>
        \A i \in Nodes(run) : status[i] = "waiting" =>
            \E j \in Extended(run)[i] : status[j] \in {"waiting", "failed"}

(* A run that returns no failure (so that `em` exits 0 and forgets the     *)
(* saved job) and was not interrupted did all of the plan: the blockers    *)
(* cannot strand a node silently.                                          *)
CleanExit ==
    (pc = "done" /\ Failed = {} /\ ~interrupted) => Completed = Nodes(run)

(* The loop returns, whatever fails and whenever the signal arrives.       *)
Terminates == <>(pc = "done")

(* The scheduler implements the dependency-ordered run of BuildOrder.      *)
Order == INSTANCE BuildOrder WITH PastFailures <- FALSE,
            done <- Completed, running <- Inflight, failed <- Failed
ImplementsBuildOrder == Order!BSpec
=============================================================================
