------------------------ MODULE EmergeSessionProofs ------------------------
(***************************************************************************)
(* Proofs about EmergeSession for every set of packages and shapes and any *)
(* number of jobs and faults: what a resumed job may skip, when a job may  *)
(* be forgotten, and what the world file may list.                         *)
(***************************************************************************)
EXTENDS EmergeSession, TLAPS

BuiltInstalled == \A j \in JobIds : built[j] \subseteq installed

(* An id that was never given out has left no trace.                       *)
Unused ==
    \A j \in JobIds : shape[j] = NoAtoms => markers[j] = {} /\ live # j /\ backup # j

SlotsDistinct == live # NoJob => live # backup

Asks == pc \notin {"idle", "fix"} => asked \in Shapes

(* The job an invocation works on is the live one, as it was saved.        *)
WorksOnLive ==
    /\ (pc = "resolve" /\ resuming) \/ pc \in {"merge", "clear", "cleared"} =>
          live \in JobIds /\ asked = shape[live]
    /\ pc = "merge" => job = live
    /\ pc = "idle" => ~resuming

WorkLists ==
    /\ todo \cap running = {} /\ todo \cap unmarked = {}
    /\ pc # "merge" => running = {} /\ unmarked = {}
    /\ pc = "merge" => unmarked \subseteq built[live] /\ todo \cap markers[live] = {}

Fixing == pc = "fix" => live = NoJob /\ backup = NoJob

(* What the invocation may count as done for its job.                      *)
Has == IF asked.rebuild THEN built[live] ELSE installed

(* What it was asked for is done, under way or still to start.             *)
Covered ==
    /\ pc = "merge" => failed \/ asked.goal \subseteq Has \cup todo \cup running
    /\ pc \in {"clear", "cleared"} => interrupted \/ asked.goal \subseteq Has
    /\ pc = "world" => interrupted \/ asked.goal \subseteq installed

IInv == /\ TypeOK /\ ResumeSound /\ BuiltInstalled /\ Unused /\ SlotsDistinct /\ Asks
        /\ WorksOnLive /\ WorkLists /\ Fixing /\ Covered

LEMMA Shape ==
    ASSUME NEW s \in Shapes
    PROVE  s # NoAtoms /\ s.goal \subseteq Packages /\ s.goal # {} /\ s.rebuild \in BOOLEAN
<1>1. s \in [goal : (SUBSET Packages) \ {{}}, rebuild : BOOLEAN]
    BY SessionAssumption
<1>2. s.goal # {} /\ s.goal \subseteq Packages /\ s.rebuild \in BOOLEAN
    BY <1>1
<1>3. s # NoAtoms
    BY <1>2 DEF NoAtoms
<1> QED BY <1>2, <1>3

LEMMA Ids == NoJob \notin JobIds
    BY DEF NoJob, JobIds

LEMMA ExitTypes ==
    ASSUME Exit
    PROVE  /\ pc' = "idle" /\ asked' \in Shapes \cup {NoAtoms} /\ job' \in JobIds \cup {NoJob}
           /\ resuming' \in BOOLEAN /\ pretend' \in BOOLEAN
           /\ failed' \in BOOLEAN /\ interrupted' \in BOOLEAN
           /\ todo' \subseteq Packages /\ running' \subseteq Packages
           /\ unmarked' \subseteq Packages
    BY DEF Exit

LEMMA FaultTypes ==
    ASSUME faults \in 0 .. MaxFaults, Fault \/ UNCHANGED faults
    PROVE  faults' \in 0 .. MaxFaults
    BY SessionAssumption DEF Fault

LEMMA InitInv == Init => IInv
<1> SUFFICES ASSUME Init PROVE IInv
    OBVIOUS
<1>1. TypeOK
  <2>1. faults \in 0 .. MaxFaults
      BY SessionAssumption DEF Init
  <2> QED BY <2>1 DEF Init, TypeOK
<1>2. /\ ResumeSound /\ BuiltInstalled /\ Unused /\ SlotsDistinct /\ Asks
      /\ WorksOnLive /\ WorkLists /\ Fixing /\ Covered
    BY Ids DEF Init, ResumeSound, BuiltInstalled, Unused, SlotsDistinct, Asks, WorksOnLive,
           WorkLists, Fixing, Covered
<1> QED BY <1>1, <1>2 DEF IInv

(* Types.                                                                  *)
LEMMA TypeStep == ASSUME IInv, [Next]_vars PROVE TypeOK'
<1> USE DEF IInv
<1>1. CASE Invoke
    BY <1>1 DEF TypeOK, Invoke, disk
<1>2. CASE InvokeResume
  <2>1. live' \in JobIds
      BY <1>2 DEF TypeOK, InvokeResume
  <2> QED BY <1>2, <2>1 DEF TypeOK, InvokeResume
<1>3. CASE NothingToDo
    BY <1>3 DEF TypeOK, NothingToDo, disk
<1>4. CASE Preview
    BY <1>4, ExitTypes DEF TypeOK, Preview, disk
<1>5. CASE SaveResumed
    BY <1>5, Shape DEF TypeOK, SaveResumed, disk, Plan, Resolved, Asks
<1>6. CASE SaveFresh
    BY <1>6, Shape DEF TypeOK, SaveFresh, Plan, Resolved, Asks
<1>7. ASSUME NEW x \in Packages, StartPackage(x)
      PROVE  TypeOK'
    BY <1>7 DEF TypeOK, StartPackage, disk
<1>8. ASSUME NEW x \in Packages, PackageMerged(x)
      PROVE  TypeOK'
  <2>1. built' \in [JobIds -> SUBSET Packages]
      BY <1>8 DEF TypeOK, PackageMerged
  <2>2. {todo, running, unmarked}' \subseteq SUBSET Packages
        /\ installed' \in SUBSET Packages
      BY <1>8 DEF TypeOK, PackageMerged
  <2> QED BY <1>8, <2>1, <2>2 DEF TypeOK, PackageMerged
<1>9. ASSUME NEW x \in Packages, MarkCompleted(x)
      PROVE  TypeOK'
    BY <1>9, FaultTypes DEF TypeOK, MarkCompleted
<1>10. ASSUME NEW x \in Packages, PackageFailed(x)
       PROVE  TypeOK'
    BY <1>10, FaultTypes DEF TypeOK, PackageFailed, disk
<1>11. CASE RunOk
    BY <1>11 DEF TypeOK, RunOk, disk
<1>12. CASE RunFailed
    BY <1>12, ExitTypes, FaultTypes DEF TypeOK, RunFailed, disk
<1>13. CASE Declined
    BY <1>13, ExitTypes, FaultTypes DEF TypeOK, Declined, disk
<1>14. CASE Interrupt
    BY <1>14, FaultTypes DEF TypeOK, Interrupt, disk
<1>15. CASE Die
    BY <1>15, ExitTypes, FaultTypes DEF TypeOK, Die, disk
<1>16. CASE ClearMarkers
    BY <1>16, FaultTypes DEF TypeOK, ClearMarkers
<1>17. CASE ClearSlot
    BY <1>17, FaultTypes DEF TypeOK, ClearSlot
<1>18. CASE AddToWorld
  <2>1. asked.goal \subseteq Packages
      BY <1>18, Shape DEF AddToWorld, Asks
  <2> QED BY <1>18, <2>1, ExitTypes DEF TypeOK, AddToWorld
<1>19. CASE CleanResume
    BY <1>19, FaultTypes DEF TypeOK, CleanResume
<1>20. CASE CleanMarkers
    BY <1>20, ExitTypes DEF TypeOK, CleanMarkers
<1>21. CASE UNCHANGED vars
    BY <1>21 DEF TypeOK, vars, disk, session
<1> QED BY <1>1, <1>2, <1>3, <1>4, <1>5, <1>6, <1>7, <1>8, <1>9, <1>10, <1>11, <1>12, <1>13,
           <1>14, <1>15, <1>16, <1>17, <1>18, <1>19, <1>20, <1>21 DEF Next, Steps, Faults

-----------------------------------------------------------------------------
(* The inductive step, action by action.                                   *)

(* The invariant but for the types.                                        *)
Rest == /\ ResumeSound /\ BuiltInstalled /\ Unused /\ SlotsDistinct /\ Asks
        /\ WorksOnLive /\ WorkLists /\ Fixing /\ Covered

(* Nothing but the session is gone, and maybe a fault counted.             *)
LEMMA ExitRest ==
    ASSUME IInv, Exit, UNCHANGED <<disk, built>>
    PROVE  Rest'
    BY DEF IInv, Rest, TypeOK, Exit, disk, ResumeSound, BuiltInstalled, Unused, SlotsDistinct,
           Asks, WorksOnLive, WorkLists, Fixing, Covered

LEMMA InvokeRest == ASSUME IInv, Invoke \/ InvokeResume PROVE Rest'
<1> USE DEF IInv
<1>1. CASE Invoke
    BY <1>1 DEF Rest, TypeOK, Invoke, disk, ResumeSound, BuiltInstalled, Unused, SlotsDistinct,
                Asks, WorksOnLive, WorkLists, Fixing, Covered
<1>2. CASE InvokeResume
  <2>1. live' \in JobIds /\ live' # NoJob /\ asked' = shape[live']
      BY <1>2, Ids DEF TypeOK, InvokeResume
  <2>2. shape[live'] # NoAtoms
      BY <1>2, <2>1 DEF InvokeResume, Unused
  <2>3. asked' \in Shapes
      BY <2>1, <2>2 DEF TypeOK
  <2>4. SlotsDistinct' /\ Unused'
      BY <1>2, <2>1, Ids DEF InvokeResume, SlotsDistinct, Unused
  <2>5. ResumeSound' /\ BuiltInstalled' /\ WorkLists' /\ Fixing' /\ Covered'
      BY <1>2 DEF InvokeResume, ResumeSound, BuiltInstalled, WorkLists, Fixing, Covered
  <2>6. WorksOnLive' /\ Asks'
      BY <1>2, <2>1, <2>3 DEF InvokeResume, WorksOnLive, Asks
  <2> QED BY <2>4, <2>5, <2>6 DEF Rest
<1> QED BY <1>1, <1>2

(* What is left out of a plan is there already.                            *)
LEMMA PlanCovers ==
    ASSUME IInv, pc = "resolve"
    PROVE  /\ asked \in Shapes
           /\ resuming => asked.goal \subseteq Has \cup Plan
           /\ ~resuming => asked.goal \subseteq Plan \/ (~asked.rebuild /\ asked.goal \subseteq installed \cup Plan)
           /\ resuming => live \in JobIds /\ asked = shape[live] /\ Plan \cap markers[live] = {}
<1> USE DEF IInv
<1>1. asked \in Shapes
    BY DEF Asks
<1>2. ASSUME resuming
      PROVE  live \in JobIds /\ asked = shape[live] /\ Plan \cap markers[live] = {}
    BY <1>2 DEF WorksOnLive, Plan
<1>3. ASSUME resuming PROVE asked.goal \subseteq Has \cup Plan
  <2>1. markers[live] \subseteq built[live] /\ built[live] \subseteq installed
      BY <1>2, <1>3 DEF ResumeSound, BuiltInstalled
  <2> QED BY <1>3, <2>1 DEF Has, Plan, Resolved
<1>4. ASSUME ~resuming
      PROVE  asked.goal \subseteq Plan \/ (~asked.rebuild /\ asked.goal \subseteq installed \cup Plan)
    BY <1>4 DEF Plan, Resolved
<1> QED BY <1>1, <1>2, <1>3, <1>4

LEMMA NothingRest == ASSUME IInv, NothingToDo PROVE Rest'
<1> USE DEF IInv
<1> DEFINE Kept == ResumeSound /\ BuiltInstalled /\ Unused /\ SlotsDistinct /\ Asks
<1>1. Kept'
    BY DEF NothingToDo, disk, ResumeSound, BuiltInstalled, Unused, SlotsDistinct, Asks
<1>2. WorkLists' /\ Fixing'
    BY DEF NothingToDo, disk, WorkLists, Fixing
<1>3. WorksOnLive'
    BY DEF NothingToDo, disk, WorksOnLive
<1>4. Covered'
  <2>1. CASE resuming
    <3>1. asked.goal \subseteq Has
        BY <2>1, PlanCovers DEF NothingToDo
    <3> QED BY <2>1, <3>1 DEF NothingToDo, disk, Covered, Has
  <2>2. CASE ~resuming
    <3>1. asked.goal \subseteq installed
        BY <2>2, PlanCovers, Shape DEF NothingToDo
    <3> QED BY <2>2, <3>1 DEF NothingToDo, disk, Covered
  <2> QED BY <2>1, <2>2
<1> QED BY <1>1, <1>2, <1>3, <1>4 DEF Rest

LEMMA SaveResumedRest == ASSUME IInv, SaveResumed PROVE Rest'
<1> USE DEF IInv
<1>1. ResumeSound' /\ BuiltInstalled' /\ Unused' /\ SlotsDistinct' /\ Asks' /\ Fixing'
    BY DEF SaveResumed, disk, ResumeSound, BuiltInstalled, Unused, SlotsDistinct, Asks, Fixing
<1>2. WorksOnLive'
    BY DEF SaveResumed, disk, WorksOnLive
<1>3. WorkLists'
    BY PlanCovers DEF SaveResumed, disk, WorkLists
<1>4. Covered'
    BY PlanCovers DEF SaveResumed, disk, Covered, Has
<1> QED BY <1>1, <1>2, <1>3, <1>4 DEF Rest

LEMMA SaveFreshRest == ASSUME IInv, SaveFresh PROVE Rest'
<1> USE DEF IInv
<1>1. PICK id \in JobIds : /\ shape[id] = NoAtoms /\ live' = id /\ job' = id
                           /\ shape' = [shape EXCEPT ![id] = asked]
    BY DEF SaveFresh
<1>2. asked \in Shapes /\ asked # NoAtoms
    BY PlanCovers, Shape DEF SaveFresh
<1>3. markers[id] = {} /\ live # id /\ backup # id
    BY <1>1 DEF Unused
<1>4. /\ shape'[id] = asked
      /\ \A j \in JobIds : j # id => shape'[j] = shape[j]
    BY <1>1 DEF TypeOK
<1>5. ResumeSound' /\ BuiltInstalled' /\ Asks' /\ Fixing'
    BY DEF SaveFresh, ResumeSound, BuiltInstalled, Asks, Fixing
<1>6. Unused' /\ SlotsDistinct'
  <2>1. backup' = live \/ backup' = backup
      BY DEF SaveFresh
  <2>2. UNCHANGED markers
      BY DEF SaveFresh
  <2> QED BY <1>1, <1>2, <1>3, <1>4, <2>1, <2>2 DEF Unused, SlotsDistinct
<1>7. WorksOnLive'
    BY <1>1, <1>4 DEF SaveFresh, WorksOnLive
<1>8. WorkLists'
    BY <1>1, <1>3 DEF SaveFresh, WorkLists
<1>9. Covered'
    BY PlanCovers DEF SaveFresh, Covered, Has
<1> QED BY <1>5, <1>6, <1>7, <1>8, <1>9 DEF Rest

LEMMA LoopRest ==
    ASSUME IInv, NEW x \in Packages,
           StartPackage(x) \/ PackageMerged(x) \/ PackageFailed(x) \/ MarkCompleted(x)
    PROVE  Rest'
<1> USE DEF IInv
<1>1. pc = "merge" /\ job = live /\ live \in JobIds /\ asked = shape[live]
    BY DEF WorksOnLive, StartPackage, PackageMerged, PackageFailed, MarkCompleted
<1>2. shape[live] # NoAtoms
    BY <1>1 DEF Unused
<1>3. CASE StartPackage(x)
    BY <1>3 DEF Rest, StartPackage, disk, ResumeSound, BuiltInstalled, Unused, SlotsDistinct,
                Asks, WorksOnLive, WorkLists, Fixing, Covered, Has
<1>4. CASE PackageFailed(x)
    BY <1>4 DEF Rest, PackageFailed, disk, ResumeSound, BuiltInstalled, Unused, SlotsDistinct,
                Asks, WorksOnLive, WorkLists, Fixing, Covered, Has
<1>5. CASE PackageMerged(x)
  <2>1. /\ built'[live] = built[live] \cup {x}
        /\ \A j \in JobIds : j # live => built'[j] = built[j]
        /\ installed' = installed \cup {x}
      BY <1>1, <1>5 DEF TypeOK, PackageMerged
  <2>2. ResumeSound' /\ BuiltInstalled'
      BY <1>5, <2>1 DEF PackageMerged, ResumeSound, BuiltInstalled
  <2>3. Unused' /\ SlotsDistinct' /\ Asks' /\ WorksOnLive' /\ Fixing'
      BY <1>5 DEF PackageMerged, Unused, SlotsDistinct, Asks, WorksOnLive, Fixing
  <2>4. WorkLists'
      BY <1>1, <1>5, <2>1 DEF PackageMerged, WorkLists
  <2>5. Covered'
      BY <1>1, <1>5, <2>1 DEF PackageMerged, Covered, Has
  <2> QED BY <2>2, <2>3, <2>4, <2>5 DEF Rest
<1>6. CASE MarkCompleted(x)
  <2>1. /\ markers'[live] \subseteq markers[live] \cup {x}
        /\ \A j \in JobIds : j # live => markers'[j] = markers[j]
      BY <1>1, <1>6 DEF TypeOK, MarkCompleted
  <2>2. x \in built[live] /\ x \notin todo
      BY <1>1, <1>6 DEF MarkCompleted, WorkLists
  <2>3. ResumeSound'
      BY <1>6, <2>1, <2>2 DEF MarkCompleted, ResumeSound
  <2>4. Unused'
      BY <1>2, <1>6, <2>1 DEF MarkCompleted, Unused
  <2>5. BuiltInstalled' /\ SlotsDistinct' /\ Asks' /\ WorksOnLive' /\ Fixing'
      BY <1>6 DEF MarkCompleted, BuiltInstalled, SlotsDistinct, Asks, WorksOnLive, Fixing
  <2>6. WorkLists'
      BY <1>1, <1>6, <2>1, <2>2 DEF MarkCompleted, WorkLists
  <2>7. Covered'
      BY <1>1, <1>6 DEF MarkCompleted, Covered, Has
  <2> QED BY <2>3, <2>4, <2>5, <2>6, <2>7 DEF Rest
<1> QED BY <1>3, <1>4, <1>5, <1>6

LEMMA EndRest == ASSUME IInv, RunOk \/ ClearMarkers \/ ClearSlot \/ AddToWorld PROVE Rest'
<1> USE DEF IInv
<1>1. CASE RunOk
  <2>1. /\ pc = "merge" /\ running = {} /\ unmarked = {} /\ ~failed
        /\ todo = {} \/ interrupted
      BY <1>1 DEF RunOk, LoopEnds
  <2>2. Covered'
      BY <1>1, <2>1 DEF RunOk, disk, Covered, Has
  <2>3. /\ ResumeSound' /\ BuiltInstalled' /\ Unused' /\ SlotsDistinct' /\ Asks'
        /\ WorksOnLive' /\ Fixing'
      BY <1>1, <2>1 DEF RunOk, disk, ResumeSound, BuiltInstalled, Unused, SlotsDistinct, Asks,
                        WorksOnLive, Fixing
  <2>4. WorkLists'
      BY <1>1, <2>1 DEF RunOk, disk, WorkLists
  <2> QED BY <2>2, <2>3, <2>4 DEF Rest
<1>2. CASE ClearMarkers
  <2>1. \A j \in JobIds : markers'[j] \subseteq markers[j]
      BY <1>2, Ids DEF TypeOK, ClearMarkers
  <2>2. ResumeSound' /\ Unused'
      BY <1>2, <2>1 DEF ClearMarkers, ResumeSound, Unused
  <2>3. /\ BuiltInstalled' /\ SlotsDistinct' /\ Asks' /\ WorksOnLive' /\ WorkLists'
        /\ Fixing' /\ Covered'
      BY <1>2 DEF ClearMarkers, BuiltInstalled, SlotsDistinct, Asks, WorksOnLive, WorkLists,
                  Fixing, Covered, Has
  <2> QED BY <2>2, <2>3 DEF Rest
<1>3. CASE ClearSlot
  <2>1. interrupted \/ asked.goal \subseteq installed
      BY <1>3 DEF ClearSlot, WorksOnLive, Covered, Has, BuiltInstalled
  <2>2. SlotsDistinct' /\ Unused'
      BY <1>3, Ids DEF ClearSlot, SlotsDistinct, Unused
  <2>3. Covered'
      BY <1>3, <2>1 DEF ClearSlot, Covered
  <2>4. ResumeSound' /\ BuiltInstalled' /\ Asks' /\ WorksOnLive' /\ WorkLists' /\ Fixing'
      BY <1>3 DEF ClearSlot, ResumeSound, BuiltInstalled, Asks, WorksOnLive, WorkLists, Fixing
  <2> QED BY <2>2, <2>3, <2>4 DEF Rest
<1>4. CASE AddToWorld
    BY <1>4 DEF Rest, AddToWorld, Exit, ResumeSound, BuiltInstalled, Unused, SlotsDistinct,
                Asks, WorksOnLive, WorkLists, Fixing, Covered
<1> QED BY <1>1, <1>2, <1>3, <1>4

LEMMA StopRest == ASSUME IInv, Interrupt \/ CleanResume \/ CleanMarkers PROVE Rest'
<1> USE DEF IInv
<1>1. CASE Interrupt
    BY <1>1 DEF Rest, Interrupt, disk, ResumeSound, BuiltInstalled, Unused, SlotsDistinct,
                Asks, WorksOnLive, WorkLists, Fixing, Covered, Has
<1>2. CASE CleanResume
    BY <1>2, Ids DEF Rest, CleanResume, ResumeSound, BuiltInstalled, Unused, SlotsDistinct,
                     Asks, WorksOnLive, WorkLists, Fixing, Covered
<1>3. CASE CleanMarkers
  <2>1. \A j \in JobIds : markers'[j] = {}
      BY <1>3 DEF CleanMarkers
  <2>2. ResumeSound' /\ Unused'
      BY <1>3, <2>1 DEF CleanMarkers, ResumeSound, Unused
  <2>3. /\ BuiltInstalled' /\ SlotsDistinct' /\ Asks' /\ WorksOnLive' /\ WorkLists'
        /\ Fixing' /\ Covered'
      BY <1>3 DEF CleanMarkers, Exit, BuiltInstalled, SlotsDistinct, Asks, WorksOnLive,
                  WorkLists, Fixing, Covered
  <2> QED BY <2>2, <2>3 DEF Rest
<1> QED BY <1>1, <1>2, <1>3

LEMMA InvStep == ASSUME IInv, [Next]_vars PROVE IInv'
<1>1. CASE Preview \/ RunFailed \/ Declined \/ Die
  <2>1. Exit /\ UNCHANGED <<disk, built>>
      BY <1>1 DEF Preview, RunFailed, Declined, Die
  <2> QED BY <2>1, ExitRest, TypeStep DEF IInv, Rest
<1>2. CASE UNCHANGED vars
  <2>1. Rest'
      BY <1>2 DEF IInv, Rest, vars, disk, session, ResumeSound, BuiltInstalled, Unused,
                  SlotsDistinct, Asks, WorksOnLive, WorkLists, Fixing, Covered, Has
  <2> QED BY <2>1, TypeStep DEF IInv, Rest
<1> QED BY <1>1, <1>2, InvokeRest, NothingRest, SaveResumedRest, SaveFreshRest, LoopRest,
           EndRest, StopRest, TypeStep DEF Next, Steps, Faults, IInv, Rest

-----------------------------------------------------------------------------
LEMMA Invariance == Spec => []IInv
<1>1. Init => IInv
    BY InitInv
<1>2. IInv /\ [Next]_vars => IInv'
    BY InvStep
<1> QED BY <1>1, <1>2, PTL DEF Spec

(* The saved state and the session keep their types, for every job: what   *)
(* an invocation may ask for is what was saved (ResumeEntry).              *)
THEOREM SessionTypes == Spec => []TypeOK
<1>1. IInv => TypeOK
    BY DEF IInv
<1> QED BY <1>1, Invariance, PTL

(* What `em -r` may skip was built by that very job, after any sequence of *)
(* failures, kills, failed writes and promotions (mark_completed,          *)
(* completed_keys).                                                        *)
THEOREM SkipsOnlyBuilt == Spec => []ResumeSound
<1>1. IInv => ResumeSound
    BY DEF IInv
<1> QED BY <1>1, Invariance, PTL

(* No package is started for a job that has it marked, reinstalls and      *)
(* --emptytree included (the completed filter of the resumed plan).        *)
THEOREM NothingBuiltTwice == Spec => NoRebuild
<1>1. ASSUME IInv, [Next]_vars, NEW x \in Packages, x \in running' \ running
      PROVE  x \notin markers[job]
  <2>1. x \in todo /\ pc = "merge"
    <3>1. PICK y \in Packages : StartPackage(y)
        BY <1>1 DEF Next, Steps, Faults, Invoke, InvokeResume, CleanResume, NothingToDo,
                    Preview, SaveResumed, SaveFresh, PackageMerged, MarkCompleted, RunOk,
                    RunFailed, ClearMarkers, ClearSlot, AddToWorld, CleanMarkers,
                    PackageFailed, Declined, Interrupt, Die, Exit, vars, session
    <3> QED BY <1>1, <3>1 DEF StartPackage
  <2> QED BY <1>1, <2>1 DEF IInv, WorksOnLive, WorkLists
<1>2. IInv /\ [Next]_vars =>
          [\A x \in Packages : x \in running' \ running => x \notin markers[job]]_vars
    BY <1>1
<1> QED BY <1>2, Invariance, PTL DEF Spec, NoRebuild

(* A superseded job keeps its markers until it is promoted: no step of     *)
(* another job changes them (ResumeFile::resume_backup).                   *)
THEOREM SupersededKept == Spec => BackupUntouched
<1>1. ASSUME IInv, Next, backup # NoJob, backup' = backup
      PROVE  markers'[backup] = markers[backup]
  <2> USE DEF IInv
  <2>1. CASE ClearMarkers
      BY <1>1, <2>1 DEF TypeOK, ClearMarkers, SlotsDistinct
  <2>2. ASSUME NEW x \in Packages, MarkCompleted(x)
        PROVE  markers'[backup] = markers[backup]
      BY <1>1, <2>2, Ids DEF TypeOK, MarkCompleted, SlotsDistinct, WorksOnLive
  <2>3. CASE CleanMarkers
      BY <1>1, <2>3 DEF CleanMarkers, Fixing
  <2>4. CASE UNCHANGED markers
      BY <2>4
  <2> QED BY <1>1, <2>1, <2>2, <2>3, <2>4
          DEF Next, Steps, Faults, Invoke, InvokeResume, CleanResume, NothingToDo, Preview,
              SaveResumed, SaveFresh, StartPackage, PackageMerged, RunOk, RunFailed, ClearSlot,
              AddToWorld, PackageFailed, Declined, Interrupt, Die, disk
<1>2. IInv /\ [Next]_vars =>
          [(backup # NoJob /\ backup' = backup) => markers'[backup] = markers[backup]]_vars
    BY <1>1
<1> QED BY <1>2, Invariance, PTL DEF Spec, BackupUntouched

(* Whatever fails, only atoms whose packages are all installed reach the   *)
(* world file, but for an interrupted run (emerge_atoms_inner).            *)
THEOREM WorldOnlyInstalled == Spec => WorldInstalled
<1>1. ASSUME IInv, Next, NEW g \in world' \ world
      PROVE  interrupted \/ g \subseteq installed
  <2>1. CASE AddToWorld
      BY <1>1, <2>1 DEF IInv, AddToWorld, Covered
  <2>2. CASE UNCHANGED world
      BY <1>1, <2>2
  <2> QED BY <1>1, <2>1, <2>2
          DEF Next, Steps, Faults, Invoke, InvokeResume, CleanResume, NothingToDo, Preview,
              SaveResumed, SaveFresh, StartPackage, PackageMerged, MarkCompleted, RunOk,
              RunFailed, ClearMarkers, ClearSlot, CleanMarkers, PackageFailed, Declined,
              Interrupt, Die, disk
<1>2. IInv /\ [Next]_vars =>
          [\A g \in world' \ world : interrupted \/ g \subseteq installed]_vars
    BY <1>1
<1> QED BY <1>2, Invariance, PTL DEF Spec, WorldInstalled

(* Ids are given out in turn, and the backup is the older of the two jobs. *)
InOrder ==
    /\ live # NoJob /\ backup # NoJob => backup < live
    /\ \A j \in JobIds : shape[j] # NoAtoms =>
          \A i \in 1 .. (j - 1) : shape[i] # NoAtoms

(* A new job is newer than the live one, which moves to the backup.        *)
LEMMA FreshIsNewest ==
    ASSUME IInv, InOrder, SaveFresh
    PROVE  /\ live' \in JobIds /\ shape[live'] = NoAtoms
           /\ \A i \in 1 .. (live' - 1) : shape[i] # NoAtoms
           /\ shape' = [shape EXCEPT ![live'] = asked]
           /\ live # NoJob => live \in JobIds /\ live < live' /\ backup' = live
           /\ live = NoJob => backup' = backup
           /\ backup # NoJob => backup \in JobIds /\ backup < live'
<1> USE DEF IInv
<1>1. /\ live' \in JobIds /\ shape[live'] = NoAtoms
      /\ \A i \in 1 .. (live' - 1) : shape[i] # NoAtoms
      /\ shape' = [shape EXCEPT ![live'] = asked]
    BY DEF SaveFresh
<1>2. ASSUME NEW j \in {live, backup}, j # NoJob PROVE j \in JobIds /\ j < live'
  <2>1. j \in JobIds /\ shape[j] # NoAtoms
      BY <1>2 DEF TypeOK, Unused
  <2>2. ~(live' < j) /\ live' # j
      BY <1>1, <2>1 DEF InOrder, JobIds
  <2> QED BY <1>1, <2>1, <2>2 DEF JobIds
<1> QED BY <1>1, <1>2 DEF SaveFresh

LEMMA InOrderStep == ASSUME IInv, InOrder, [Next]_vars PROVE InOrder'
<1>1. CASE SaveFresh
  <2>1. live' # NoJob /\ backup' # NoJob => backup' < live'
      BY <1>1, FreshIsNewest
  <2>2. \A j \in JobIds : shape'[j] = IF j = live' THEN asked ELSE shape[j]
      BY <1>1, FreshIsNewest DEF IInv, TypeOK
  <2>3. asked # NoAtoms
      BY <1>1, PlanCovers, Shape DEF SaveFresh
  <2>4. ASSUME NEW j \in JobIds, shape'[j] # NoAtoms, NEW i \in 1 .. (j - 1)
        PROVE  shape'[i] # NoAtoms
    <3>1. i \in JobIds
        BY SessionAssumption DEF JobIds
    <3>2. i = live' \/ shape[i] # NoAtoms
      <4>1. CASE j = live'
          BY <1>1, <4>1, FreshIsNewest
      <4>2. CASE j # live'
          BY <2>2, <2>4, <4>2 DEF InOrder
      <4> QED BY <4>1, <4>2
    <3> QED BY <2>2, <2>3, <3>1, <3>2
  <2> QED BY <2>1, <2>4 DEF InOrder
<1>2. CASE InvokeResume
  <2>1. live' # NoJob /\ backup' # NoJob => live' = live /\ backup' = backup
      BY <1>2 DEF InvokeResume
  <2> QED BY <1>2, <2>1 DEF InvokeResume, InOrder
<1>3. CASE ClearSlot
    BY <1>3 DEF ClearSlot, InOrder
<1>4. CASE CleanResume
    BY <1>4 DEF CleanResume, InOrder
<1>5. CASE UNCHANGED <<live, backup, shape>>
    BY <1>5 DEF InOrder
<1> QED BY <1>1, <1>2, <1>3, <1>4, <1>5
        DEF Next, Steps, Faults, Invoke, NothingToDo, Preview, SaveResumed, StartPackage,
            PackageMerged, MarkCompleted, RunOk, RunFailed, ClearMarkers, AddToWorld,
            CleanMarkers, PackageFailed, Declined, Interrupt, Die, disk, vars

LEMMA Ordered == Spec => [](IInv /\ InOrder)
<1>1. Init => IInv /\ InOrder
    BY InitInv DEF Init, InOrder
<1>2. IInv /\ InOrder /\ [Next]_vars => (IInv /\ InOrder)'
    BY InvStep, InOrderStep
<1> QED BY <1>1, <1>2, PTL DEF Spec

(* An unfinished job is only lost when a signal stopped its run (clear),   *)
(* or from the backup slot when two newer jobs fill both slots (save): no  *)
(* failure, kill, failed write or promotion of the backup loses one.       *)
THEOREM JobsStayResumable == Spec => NoJobForgotten
<1>1. ASSUME IInv, InOrder, Next, NEW j \in JobIds, Forgotten(j)
      PROVE  (j = live /\ interrupted) \/ Superseded(j)
  <2> USE DEF IInv
  <2>1. CASE ClearSlot
    <3>1. pc = "cleared" /\ j = live
        BY <1>1, <2>1 DEF ClearSlot, Forgotten
    <3>2. asked = shape[live]
        BY <1>1, <3>1 DEF WorksOnLive
    <3>3. interrupted \/ asked.goal \subseteq Has
        BY <1>1, <3>1 DEF Covered
    <3> QED BY <1>1, <3>1, <3>2, <3>3 DEF Forgotten, Done, Has
  <2>2. CASE InvokeResume
      BY <1>1, <2>2 DEF InvokeResume, Forgotten
  <2>3. CASE SaveFresh
    <3>1. live # NoJob /\ j = backup /\ j # NoJob
        BY <1>1, <2>3, FreshIsNewest DEF Forgotten
    <3>2. backup' = live /\ live < live' /\ live' # NoJob /\ backup < live
        BY <1>1, <2>3, <3>1, FreshIsNewest, Ids DEF InOrder
    <3>3. live' > backup' /\ backup' > j
        BY <1>1, <2>3, <3>1, <3>2, FreshIsNewest DEF JobIds
    <3> QED BY <3>1, <3>2, <3>3 DEF Superseded
  <2>4. CASE CleanResume
      BY <1>1, <2>4 DEF CleanResume, Forgotten
  <2>5. CASE UNCHANGED <<live, backup>>
      BY <1>1, <2>5 DEF Forgotten
  <2> QED BY <1>1, <2>1, <2>2, <2>3, <2>4, <2>5
          DEF Next, Steps, Faults, Invoke, NothingToDo, Preview, SaveResumed, StartPackage,
              PackageMerged, MarkCompleted, RunOk, RunFailed, ClearMarkers, AddToWorld,
              CleanMarkers, PackageFailed, Declined, Interrupt, Die, disk
<1>2. IInv /\ InOrder /\ [Next]_vars =>
          [\A j \in JobIds :
              Forgotten(j) => (j = live /\ interrupted) \/ Superseded(j)]_vars
    BY <1>1
<1> QED BY <1>2, Ordered, PTL DEF Spec, NoJobForgotten
=============================================================================
