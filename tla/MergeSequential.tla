--------------------------- MODULE MergeSequential ---------------------------
(***************************************************************************)
(* `merge_sequential` (portage-cli/src/merge/mod.rs): the default loop of  *)
(* `em`, one plan entry after the other in install order, with the         *)
(* unmerges spliced in at the position of their owners.  Only the signal   *)
(* handler runs beside it.                                                 *)
(***************************************************************************)
EXTENDS MergePlan

VARIABLES
    run,               \* the request
    pos,               \* the index of the plan entry whose turn it is
    due,               \* unmerges of this splice point still to run
    status,            \* what became of each node so far
    interrupted,       \* interrupt::requested()
    unremoved,         \* unmerges that returned Ok and removed nothing
    flush_failed,      \* MergeGate::finish failed at the end of the run
    pc                 \* where the loop is

vars == <<run, pos, due, status, interrupted, unremoved, flush_failed, pc>>

Inflight  == {i \in Nodes(run) : status[i] = "inflight"}
Completed == {i \in Nodes(run) : status[i] \in {"ok", "skipped"}}
Failed    == {i \in Nodes(run) : status[i] = "failed"}

Init ==
    /\ run \in Requests
    /\ pos = 0
    /\ due = {}
    /\ status = [i \in Nodes(run) |-> "waiting"]
    /\ interrupted = FALSE
    /\ unremoved = {}
    /\ flush_failed = FALSE
    /\ pc = "head"

-----------------------------------------------------------------------------
(* The head of the `for`: the plan is at its end, the signal is looked at  *)
(* (it is not again before the next entry), or the entry's turn begins     *)
(* with the strong victims it is the earliest owner of.                    *)
LoopHead ==
    /\ pc = "head"
    /\ IF interrupted \/ pos = run.entries
       THEN pc' = "flush" /\ UNCHANGED due
       ELSE pc' = "before" /\ due' = BeforeUnmerges(run, pos)
    /\ UNCHANGED <<run, pos, status, interrupted, unremoved, flush_failed>>

(* run_due_unmerges tries every unmerge that is due, in the order of the   *)
(* list, whether or not one before it failed.  After the signal the        *)
(* unmerge batch stops before it removes anything, and returns Ok.         *)
UnmergeDue ==
    /\ pc \in {"before", "after"}
    /\ due # {}
    /\ \/ /\ \E outcome \in {"ok", "failed"} :
                  status' = [status EXCEPT ![Earliest(due)] = outcome]
          /\ UNCHANGED unremoved
       \/ /\ interrupted
          /\ status' = [status EXCEPT ![Earliest(due)] = "ok"]
          /\ unremoved' = unremoved \cup {Earliest(due)}
    /\ due' = due \ {Earliest(due)}
    /\ UNCHANGED <<run, pos, interrupted, flush_failed, pc>>

(* Its result looked at for the weak victims only.                         *)
BeforeDoneSlip ==
    /\ pc = "before"
    /\ due = {}
    /\ pc' = "package"
    /\ UNCHANGED <<run, pos, due, status, interrupted, unremoved, flush_failed>>

(* The run stops if a strong victim is still installed.                    *)
BeforeDone ==
    /\ pc = "before"
    /\ due = {}
    /\ pc' = IF BeforeUnmerges(run, pos) \cap Failed # {} THEN "flush" ELSE "package"
    /\ UNCHANGED <<run, pos, due, status, interrupted, unremoved, flush_failed>>

(* The entry's VDB directory exists: `continue`, past the weak victims     *)
(* this entry is the latest owner of.                                      *)
SkipInstalled ==
    /\ pc = "package"
    /\ pos \in run.skippable
    /\ status' = [status EXCEPT ![pos] = "skipped"]
    /\ pos' = pos + 1
    /\ pc' = "head"
    /\ UNCHANGED <<run, due, interrupted, unremoved, flush_failed>>

StartPackage ==
    /\ pc = "package"
    /\ status' = [status EXCEPT ![pos] = "inflight"]
    /\ pc' = "building"
    /\ UNCHANGED <<run, pos, due, interrupted, unremoved, flush_failed>>

(* The weak victims forgotten.                                             *)
PackageOkSlip ==
    /\ pc = "building"
    /\ status' = [status EXCEPT ![pos] = "ok"]
    /\ pos' = pos + 1
    /\ pc' = "head"
    /\ UNCHANGED <<run, due, interrupted, unremoved, flush_failed>>

(* The entry merged: the weak victims it is the latest owner of are due.   *)
PackageOk ==
    /\ pc = "building"
    /\ status' = [status EXCEPT ![pos] = "ok"]
    /\ due' = AfterUnmerges(run, pos)
    /\ pc' = "after"
    /\ UNCHANGED <<run, pos, interrupted, unremoved, flush_failed>>

(* --keep-going assumed.                                                   *)
PackageErrSlip ==
    /\ pc = "building"
    /\ status' = [status EXCEPT ![pos] = "failed"]
    /\ pos' = pos + 1
    /\ pc' = "head"
    /\ UNCHANGED <<run, due, interrupted, unremoved, flush_failed>>

(* The entry failed: no unmerge is due, and without --keep-going the run   *)
(* stops.                                                                  *)
PackageErr ==
    /\ pc = "building"
    /\ status' = [status EXCEPT ![pos] = "failed"]
    /\ IF run.keep_going
       THEN pos' = pos + 1 /\ pc' = "head"
       ELSE pc' = "flush" /\ UNCHANGED pos
    /\ UNCHANGED <<run, due, interrupted, unremoved, flush_failed>>

(* A weak victim that could not be removed never stops the run.            *)
AfterDone ==
    /\ pc = "after"
    /\ due = {}
    /\ pos' = pos + 1
    /\ pc' = "head"
    /\ UNCHANGED <<run, due, status, interrupted, unremoved, flush_failed>>

Finish ==
    /\ pc = "flush"
    /\ flush_failed' \in BOOLEAN
    /\ pc' = "done"
    /\ UNCHANGED <<run, pos, due, status, interrupted, unremoved>>

Interrupt ==
    /\ pc # "done"
    /\ ~interrupted
    /\ interrupted' = TRUE
    /\ UNCHANGED <<run, pos, due, status, unremoved, flush_failed, pc>>

Loop == \/ LoopHead \/ UnmergeDue \/ BeforeDone \/ SkipInstalled \/ StartPackage
        \/ PackageOk \/ PackageErr \/ AfterDone \/ Finish

Terminated == pc = "done" /\ UNCHANGED vars

Next == Loop \/ Interrupt \/ Terminated

Spec == Init /\ [][Next]_vars

-----------------------------------------------------------------------------
TypeOK ==
    /\ run \in Requests
    /\ pos \in 0 .. run.entries
    /\ due \subseteq Unmerges(run)
    /\ status \in [Nodes(run) -> {"waiting", "inflight", "ok", "skipped", "failed"}]
    /\ interrupted \in BOOLEAN
    /\ unremoved \subseteq Unmerges(run)
    /\ flush_failed \in BOOLEAN
    /\ pc \in {"head", "before", "package", "building", "after", "flush", "done"}

Started(i) == status[i] \in {"inflight", "ok", "failed"}

(* PMS 8.3.2 `!!`: no owner is built while a victim of its is installed,   *)
(* also when the victim has several owners and when its unmerge failed,    *)
(* with --keep-going or without; but for the one entry whose turn it was   *)
(* when the signal came.                                                   *)
StrongVictimGone ==
    \A u \in Strong(run) : \A i \in run.owners[u] :
        Started(i) => /\ status[u] = "ok"
                      /\ u \in unremoved => interrupted /\ \A j \in Entries(run) :
                                                j > i => ~Started(j)

(* PMS 8.3.2 `!`: the removal of a victim is not tried before its latest   *)
(* owner merged, and then the turns of all its owners are over (with       *)
(* --keep-going the earlier ones may have failed).                         *)
WeakVictimKept ==
    \A u \in Weak(run) : status[u] # "waiting" =>
        /\ status[Latest(run.owners[u])] = "ok"
        /\ \A i \in run.owners[u] : status[i] \notin {"waiting", "inflight"}

(* Without --keep-going nothing is built on a failure: whatever is started *)
(* has all its build dependencies and its blockers done, as in the         *)
(* `--jobs N` loop.                                                        *)
OrderRespected ==
    ~run.keep_going =>
        \A i \in Nodes(run) :
            status[i] # "waiting" => Extended(run)[i] \subseteq Completed

(* The loop implements the dependency-ordered run of BuildOrder with one   *)
(* job: each node at most once, after what blocks it; --keep-going goes    *)
(* past the entries that failed, never past a strong victim that is still  *)
(* there.                                                                  *)
Order == INSTANCE BuildOrder WITH Jobs <- 1, PastFailures <- TRUE,
            done <- Completed, running <- Inflight, failed <- Failed
ImplementsBuildOrder == Order!BSpec

(* A run that returns no failure and was not interrupted did all of the    *)
(* plan; it leaves a weak victim only where it found its latest owner      *)
(* installed.                                                              *)
CleanExit ==
    (pc = "done" /\ Failed = {} /\ ~interrupted) =>
        \A i \in Nodes(run) \ Completed :
            i \in Weak(run) /\ status[Latest(run.owners[i])] = "skipped"
=============================================================================
