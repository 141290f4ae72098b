---------------------------- MODULE EmergeSession ----------------------------
(***************************************************************************)
(* One `em` invocation after another on a root, and the resume state they  *)
(* leave for `em -r` (portage-cli/src/emerge.rs, maint/resume.rs):         *)
(*   em-resume.json      the live and the backup slot, written atomically  *)
(*   em-resume.done/<id> one marker file per package a job finished        *)
(* An invocation resolves its atoms to a plan, saves a job, runs the merge *)
(* loop, marks what finishes, and on success clears the job and adds its   *)
(* atoms to the world file.  It may fail, be interrupted by a signal, or   *)
(* die between any two writes.                                             *)
(*                                                                         *)
(* The merge loop is reduced to what it leaves behind: the packages of the *)
(* plan, in any order, merged and then marked, or failed (MergeSequential  *)
(* and MergeScheduler model the loop).                                     *)
(***************************************************************************)
EXTENDS Integers, FiniteSets

CONSTANTS
    Packages,          \* the packages of the repository
    Shapes,            \* what an invocation may ask for
    MaxJobs,           \* bound: jobs started (by an invocation that is no -r)
    MaxFaults          \* bound: invocations that failed, died or were stopped

(* What an invocation asks for: the packages its atoms resolve to, and     *)
(* whether it builds the installed ones again (--emptytree, reinstalls).   *)
ASSUME SessionAssumption ==
    /\ Shapes \subseteq [goal : (SUBSET Packages) \ {{}}, rebuild : BOOLEAN]
    /\ MaxJobs \in Nat
    /\ MaxFaults \in Nat

JobIds == 1 .. MaxJobs
NoJob  == 0

VARIABLES
    live, backup,      \* ResumeFile::resume and ::resume_backup, by job id
    shape,             \* the atoms and flags saved with each job
    markers,           \* the marker files of each job
    installed,         \* the VDB
    world,             \* the goals added to the world file
    pc,                \* where the invocation is
    asked,             \* its atoms and flags
    job,               \* the job it runs, NoJob before it has one
    resuming,          \* -r
    pretend,           \* -p
    todo, running,     \* the plan: not started, building
    unmarked,          \* merged, the marker not written yet
    failed,            \* a failure was recorded
    interrupted,       \* interrupt::requested()
    faults,            \* counts towards MaxFaults
    built              \* history: what the sessions of each job merged

disk    == <<live, backup, shape, markers, installed, world>>
session == <<pc, asked, job, resuming, pretend, todo, running, unmarked,
             failed, interrupted>>
vars    == <<disk, session, faults, built>>

NoAtoms == [goal |-> {}, rebuild |-> FALSE]

Init ==
    /\ live = NoJob /\ backup = NoJob
    /\ shape = [j \in JobIds |-> NoAtoms]
    /\ markers = [j \in JobIds |-> {}]
    /\ installed = {} /\ world = {}
    /\ pc = "idle" /\ asked = NoAtoms /\ job = NoJob
    /\ resuming = FALSE /\ pretend = FALSE
    /\ todo = {} /\ running = {} /\ unmarked = {}
    /\ failed = FALSE /\ interrupted = FALSE
    /\ faults = 0
    /\ built = [j \in JobIds |-> {}]

(* The process is gone, and with it all it had in memory.                  *)
Exit ==
    /\ pc' = "idle" /\ asked' = NoAtoms /\ job' = NoJob
    /\ resuming' = FALSE /\ pretend' = FALSE
    /\ todo' = {} /\ running' = {} /\ unmarked' = {}
    /\ failed' = FALSE /\ interrupted' = FALSE

Fault == faults < MaxFaults /\ faults' = faults + 1

-----------------------------------------------------------------------------
(* `em <atoms>`: a preview changes nothing, so only real ones are modelled.*)
Invoke ==
    /\ pc = "idle"
    /\ \E j \in JobIds : shape[j] = NoAtoms      \* bound
    /\ asked' \in Shapes
    /\ pc' = "resolve"
    /\ UNCHANGED <<disk, job, resuming, pretend, todo, running, unmarked,
                   failed, interrupted, faults, built>>

(* `em -r`, with -p or not: take_for_resume promotes the backup.           *)
InvokeResume ==
    /\ pc = "idle"
    /\ {live, backup} # {NoJob}
    /\ live' = IF live # NoJob THEN live ELSE backup
    /\ backup' = IF live # NoJob THEN backup ELSE NoJob
    /\ asked' = shape[live']
    /\ resuming' = TRUE
    /\ pretend' \in BOOLEAN
    /\ pc' = "resolve"
    /\ UNCHANGED <<shape, markers, installed, world, job, todo, running,
                   unmarked, failed, interrupted, faults, built>>

(* The plan of a fresh resolution, before the completed entries are        *)
(* dropped from it.                                                        *)
Resolved == IF asked.rebuild THEN asked.goal ELSE asked.goal \ installed

(* Slip: the completed keys ignored.                                       *)
PlanRebuildsSlip == Resolved

(* completed_keys: the markers of the live job, on -r only.                *)
Plan == IF resuming THEN Resolved \ markers[live] ELSE Resolved

(* Nothing left to do, but the saved job stays.                            *)
NothingToDoSlip ==
    /\ pc = "resolve"
    /\ Plan = {}
    /\ pc' = "world"
    /\ UNCHANGED <<disk, asked, job, resuming, pretend, todo, running,
                   unmarked, failed, interrupted, faults, built>>

(* Nothing left to do: the job is cleared on -r, before the pretend flag   *)
(* is looked at.                                                           *)
NothingToDo ==
    /\ pc = "resolve"
    /\ Plan = {}
    /\ pc' = IF resuming THEN "clear" ELSE "world"
    /\ UNCHANGED <<disk, asked, job, resuming, pretend, todo, running,
                   unmarked, failed, interrupted, faults, built>>

Preview ==
    /\ pc = "resolve"
    /\ Plan # {}
    /\ pretend
    /\ Exit
    /\ UNCHANGED <<disk, faults, built>>

(* The resolution, a preflight check or the prompt ends it, or it cannot   *)
(* write the job.                                                          *)
Declined ==
    /\ pc = "resolve"
    /\ Fault
    /\ Exit
    /\ UNCHANGED <<disk, built>>

(* save on -r: the slot and its job id stay as they are.                   *)
SaveResumed ==
    /\ pc = "resolve"
    /\ Plan # {} /\ ~pretend
    /\ resuming
    /\ job' = live
    /\ todo' = Plan
    /\ pc' = "merge"
    /\ UNCHANGED <<disk, asked, resuming, pretend, running, unmarked, failed,
                   interrupted, faults, built>>

(* The live job overwritten, not backed up.                                *)
SaveFreshSlip ==
    /\ pc = "resolve"
    /\ Plan # {} /\ ~resuming
    /\ \E id \in JobIds :
        /\ shape[id] = NoAtoms /\ \A j \in 1 .. (id - 1) : shape[j] # NoAtoms
        /\ live' = id /\ job' = id
        /\ shape' = [shape EXCEPT ![id] = asked]
    /\ todo' = Plan
    /\ pc' = "merge"
    /\ UNCHANGED <<backup, markers, installed, world, asked, resuming,
                   pretend, running, unmarked, failed, interrupted, faults, built>>

(* save of a new job: a pending one becomes the backup, under its own id,  *)
(* and the new one gets an id of its own.                                  *)
SaveFresh ==
    /\ pc = "resolve"
    /\ Plan # {} /\ ~resuming
    /\ \E id \in JobIds :
        /\ shape[id] = NoAtoms /\ \A j \in 1 .. (id - 1) : shape[j] # NoAtoms
        /\ live' = id /\ job' = id
        /\ shape' = [shape EXCEPT ![id] = asked]
    /\ backup' = IF live # NoJob THEN live ELSE backup
    /\ todo' = Plan
    /\ pc' = "merge"
    /\ UNCHANGED <<markers, installed, world, asked, resuming, pretend,
                   running, unmarked, failed, interrupted, faults, built>>

-----------------------------------------------------------------------------
(* The merge loop.  After a failure it goes on or not, as --keep-going     *)
(* and the blockers have it.                                               *)
StartPackage(x) ==
    /\ pc = "merge"
    /\ x \in todo
    /\ ~interrupted
    /\ todo' = todo \ {x}
    /\ running' = running \cup {x}
    /\ UNCHANGED <<disk, pc, asked, job, resuming, pretend, unmarked, failed,
                   interrupted, faults, built>>

(* The package is in the VDB; its future has yet to be polled.             *)
PackageMerged(x) ==
    /\ pc = "merge"
    /\ x \in running
    /\ running' = running \ {x}
    /\ unmarked' = unmarked \cup {x}
    /\ installed' = installed \cup {x}
    /\ built' = [built EXCEPT ![job] = @ \cup {x}]
    /\ UNCHANGED <<live, backup, shape, markers, world, pc, asked, job,
                   resuming, pretend, todo, failed, interrupted, faults>>

(* Marked when it starts, not when it ends.                                *)
PackageFailedSlip(x) ==
    /\ pc = "merge"
    /\ x \in running
    /\ Fault
    /\ running' = running \ {x}
    /\ failed' = TRUE
    /\ markers' = [markers EXCEPT ![job] = @ \cup {x}]
    /\ UNCHANGED <<live, backup, shape, installed, world, pc, asked, job,
                   resuming, pretend, todo, unmarked, interrupted, built>>

PackageFailed(x) ==
    /\ pc = "merge"
    /\ x \in running
    /\ Fault
    /\ running' = running \ {x}
    /\ failed' = TRUE
    /\ UNCHANGED <<disk, pc, asked, job, resuming, pretend, todo, unmarked,
                   interrupted, built>>

(* mark_completed; if it cannot write the marker, that is a warning.       *)
MarkCompleted(x) ==
    /\ pc = "merge"
    /\ x \in unmarked
    /\ unmarked' = unmarked \ {x}
    /\ \/ /\ markers' = [markers EXCEPT ![job] = @ \cup {x}]
          /\ UNCHANGED faults
       \/ Fault /\ UNCHANGED markers
    /\ UNCHANGED <<live, backup, shape, installed, world, pc, asked, job,
                   resuming, pretend, todo, running, failed, interrupted, built>>

(* The loop ends: the plan is done, or a failure or the signal keeps the   *)
(* rest from starting.  Err if a failure was recorded or something after   *)
(* the loop fails (the flush, an unmerge), Ok otherwise.                   *)
LoopEnds == /\ pc = "merge"
            /\ running = {} /\ unmarked = {}
            /\ todo = {} \/ failed \/ interrupted

RunFailed ==
    /\ LoopEnds
    /\ IF failed THEN UNCHANGED faults ELSE Fault
    /\ Exit
    /\ UNCHANGED <<disk, built>>

RunOk ==
    /\ LoopEnds
    /\ ~failed
    /\ pc' = "clear"
    /\ UNCHANGED <<disk, asked, job, resuming, pretend, todo, running,
                   unmarked, failed, interrupted, faults, built>>

-----------------------------------------------------------------------------
(* Every job's markers removed, as cleanresume does.                       *)
ClearMarkersSlip ==
    /\ pc = "clear"
    /\ markers' = [j \in JobIds |-> {}]
    /\ pc' = "cleared"
    /\ UNCHANGED <<live, backup, shape, installed, world, asked, job,
                   resuming, pretend, todo, running, unmarked, failed,
                   interrupted, faults, built>>

(* clear: the markers of the live job go first (remove_dir_all, whose       *)
(* failure is not looked at and may leave some of them), ...               *)
ClearMarkers ==
    /\ pc = "clear"
    /\ IF live = NoJob
       THEN UNCHANGED <<markers, faults>>
       ELSE \E kept \in SUBSET markers[live] :
                /\ markers' = [markers EXCEPT ![live] = kept]
                /\ IF kept = {} THEN UNCHANGED faults ELSE Fault
    /\ pc' = "cleared"
    /\ UNCHANGED <<live, backup, shape, installed, world, asked, job,
                   resuming, pretend, todo, running, unmarked, failed,
                   interrupted, built>>

(* ... then the slot; a write that fails is not looked at either.          *)
ClearSlot ==
    /\ pc = "cleared"
    /\ \/ live' = NoJob /\ UNCHANGED faults
       \/ Fault /\ UNCHANGED live
    /\ pc' = "world"
    /\ UNCHANGED <<backup, shape, markers, installed, world, asked, job,
                   resuming, pretend, todo, running, unmarked, failed,
                   interrupted, built>>

(* world::add_atoms; the list is empty under --pretend.                    *)
AddToWorld ==
    /\ pc = "world"
    /\ world' = IF pretend THEN world ELSE world \cup {asked.goal}
    /\ Exit
    /\ UNCHANGED <<live, backup, shape, markers, installed, faults, built>>

(* The first SIGINT or SIGTERM (a preview installs no handler).            *)
Interrupt ==
    /\ pc \notin {"idle", "fix"} /\ ~pretend /\ ~interrupted
    /\ Fault
    /\ interrupted' = TRUE
    /\ UNCHANGED <<disk, pc, asked, job, resuming, pretend, todo, running,
                   unmarked, failed, built>>

(* A second signal, SIGKILL, a power cut.                                  *)
Die ==
    /\ pc # "idle"
    /\ Fault
    /\ Exit
    /\ UNCHANGED <<disk, built>>

(* `em maint cleanresume --fix`: the slots first, then every marker.       *)
CleanResume ==
    /\ pc = "idle"
    /\ {live, backup} # {NoJob}
    /\ Fault
    /\ live' = NoJob /\ backup' = NoJob
    /\ pc' = "fix"
    /\ UNCHANGED <<shape, markers, installed, world, asked, job, resuming,
                   pretend, todo, running, unmarked, failed, interrupted, built>>

CleanMarkers ==
    /\ pc = "fix"
    /\ markers' = [j \in JobIds |-> {}]
    /\ Exit
    /\ UNCHANGED <<live, backup, shape, installed, world, faults, built>>

-----------------------------------------------------------------------------
(* What a running invocation does by itself.                               *)
Steps == \/ NothingToDo \/ Preview \/ SaveResumed \/ SaveFresh
         \/ \E x \in Packages : StartPackage(x) \/ PackageMerged(x) \/ MarkCompleted(x)
         \/ RunOk \/ RunFailed
         \/ ClearMarkers \/ ClearSlot \/ AddToWorld \/ CleanMarkers

Faults == \/ \E x \in Packages : PackageFailed(x)
          \/ Declined \/ Interrupt \/ Die

Next == Invoke \/ InvokeResume \/ CleanResume \/ Steps \/ Faults

Spec == Init /\ [][Next]_vars

(* An invocation keeps running, and the user repeats `em -r` (and not only *)
(* `em -r -p`) as long as there is a job to resume.                        *)
FairSpec == /\ Spec
            /\ WF_vars(Steps)
            /\ SF_vars(InvokeResume /\ ~pretend')

-----------------------------------------------------------------------------
TypeOK ==
    /\ {live, backup, job} \subseteq JobIds \cup {NoJob}
    /\ shape \in [JobIds -> Shapes \cup {NoAtoms}]
    /\ markers \in [JobIds -> SUBSET Packages]
    /\ installed \in SUBSET Packages
    /\ world \in SUBSET (SUBSET Packages)
    /\ pc \in {"idle", "resolve", "merge", "clear", "cleared", "world", "fix"}
    /\ asked \in Shapes \cup {NoAtoms}
    /\ {resuming, pretend, failed, interrupted} \subseteq BOOLEAN
    /\ {todo, running, unmarked} \subseteq SUBSET Packages
    /\ faults \in 0 .. MaxFaults
    /\ built \in [JobIds -> SUBSET Packages]

(* What `em -r` may skip, the job really did: a marker is never there for  *)
(* a package no session of this job merged, whatever failed or died.       *)
ResumeSound == \A j \in JobIds : markers[j] \subseteq built[j]

(* `em -r` does not build what this job already finished, --emptytree or   *)
(* not: a package that is started has no marker.                           *)
NoRebuild ==
    [][\A x \in Packages : x \in running' \ running => x \notin markers[job]]_vars

Done(j) == shape[j].goal \subseteq IF shape[j].rebuild THEN built[j] ELSE installed

(* Job j leaves both slots unfinished, and cleanresume did not do it.      *)
Forgotten(j) ==
    /\ j \in {live, backup} \ {NoJob}
    /\ j \notin {live', backup'}
    /\ pc' # "fix"
    /\ ~Done(j)

(* There are two slots, and now two jobs newer than j are in them.         *)
Superseded(j) == NoJob \notin {live', backup'} /\ live' > backup' /\ backup' > j

(* Whatever fails, dies or is resumed halfway, `em -r` gets back to each   *)
(* unfinished job, but for two: the live one when a signal stopped its     *)
(* run, and one that two newer jobs pushed out of the backup slot.         *)
NoJobForgotten ==
    [][\A j \in JobIds :
          Forgotten(j) => (j = live /\ interrupted) \/ Superseded(j)]_vars

(* "Persist enough to replay this invocation via -r/--resume if it gets    *)
(* interrupted or fails" (emerge.rs): an unfinished job stays until two    *)
(* newer ones push it out.                                                 *)
InterruptedJobKept == [][\A j \in JobIds : Forgotten(j) => Superseded(j)]_vars

(* A superseded job comes back as it was: nothing another job does touches *)
(* its markers.                                                            *)
BackupUntouched ==
    [][(backup # NoJob /\ backup' = backup) => markers'[backup] = markers[backup]]_vars

(* The world file only lists what was installed, unless an interrupt cut   *)
(* the run short.                                                          *)
WorldInstalled ==
    [][\A g \in world' \ world : interrupted \/ g \subseteq installed]_vars

(* Every saved job is done or dropped in the end if the user keeps         *)
(* resuming: `-r` never loops on a job it cannot finish or forget.         *)
EventuallyNothingPending == <>[](live = NoJob /\ backup = NoJob)
=============================================================================
