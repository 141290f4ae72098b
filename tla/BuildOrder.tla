----------------------------- MODULE BuildOrder -----------------------------
(***************************************************************************)
(* What either merge loop promises, with none of the bookkeeping: every    *)
(* node runs at most once, and only once everything that blocks it is      *)
(* done.  A node that fails is never done, so nothing that needs it runs:  *)
(* but where --keep-going goes past failures, an entry that failed blocks  *)
(* nothing more.  MergeScheduler implements this specification, and so     *)
(* does MergeSequential, which goes past failures.                         *)
(***************************************************************************)
EXTENDS MergePlan

CONSTANTS
    Jobs,              \* the most nodes that may run at once
    PastFailures       \* whether --keep-going runs what a failed entry blocks

VARIABLES
    run,               \* the request
    done,              \* nodes that succeeded, or were found installed
    running,           \* nodes started and not ended
    failed             \* nodes that ran and failed

bvars == <<run, done, running, failed>>

BInit == /\ run \in Requests
         /\ done = {}
         /\ running = {}
         /\ failed = {}

(* What blocks nothing any more.  An unmerge that failed still does.       *)
Passed == IF PastFailures /\ run.keep_going THEN done \cup (failed \cap Entries(run))
          ELSE done

Startable(i) == /\ i \in Nodes(run) \ (done \cup running \cup failed)
                /\ Extended(run)[i] \subseteq Passed

BStart(i) == /\ Startable(i)
             /\ Cardinality(running) < Jobs
             /\ running' = running \cup {i}
             /\ UNCHANGED <<run, done, failed>>

(* Only a plan entry can be found installed; no unmerge is ever skipped.   *)
BSkip(i) == /\ Startable(i)
            /\ i \in run.skippable
            /\ done' = done \cup {i}
            /\ UNCHANGED <<run, running, failed>>

BEnd(i) == /\ i \in running
           /\ running' = running \ {i}
           /\ \/ done' = done \cup {i} /\ UNCHANGED failed
              \/ failed' = failed \cup {i} /\ UNCHANGED done
           /\ UNCHANGED run

(* A node run from its start to its end with nothing beside it.            *)
BAlone(i) == /\ Startable(i)
             /\ running = {}
             /\ \/ done' = done \cup {i} /\ UNCHANGED failed
                \/ failed' = failed \cup {i} /\ UNCHANGED done
             /\ UNCHANGED <<run, running>>

BNext == \E i \in Nodes(run) : BStart(i) \/ BSkip(i) \/ BEnd(i) \/ BAlone(i)

BSpec == BInit /\ [][BNext]_bvars
=============================================================================
