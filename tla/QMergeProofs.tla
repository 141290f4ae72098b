---------------------------- MODULE QMergeProofs ----------------------------
(***************************************************************************)
(* Proofs about QMerge for any packages, processes and tasks, whoever      *)
(* keeps an index, and any number of jobs, failures and deaths: what the   *)
(* VDB and the disk hold, and what a kept index knows.                     *)
(***************************************************************************)
EXTENDS QMerge, TLAPS

(* A merge or a scheduled unmerge past its lock.                           *)
Holding(t) == t \notin Removers /\ task[t].pc \notin {"idle", "gate", "lock"}

Mutex == \A t \in Tasks : Holding(t) <=> lock = {t}

Removing == {"read", "remove", "unregister", "rmdir"}

(* What a task is at tells what it has.                                    *)
Shaped(t) ==
    /\ task[t].new = {} =>
          /\ task[t].image = {} /\ task[t].idx = {}
          /\ task[t].pc \in {"idle", "gate", "lock", "removed"} \cup Removing
          /\ ~At(t, "idle") => task[t].victim # {}
    /\ task[t].new # {} =>
          /\ task[t].pc # "removed"
          /\ task[t].pc \in {"gate", "lock", "occupant"} => task[t].victim = {}
    /\ task[t].pc \in Removing => task[t].victim # {}
    /\ ~Holding(t) => task[t].idx = {}
    /\ t \in Removers => /\ task[t].new = {}
                         /\ task[t].pc \in {"idle", "removed"} \cup Removing
                         /\ removals = 0 => task[t].pc = "idle"

TaskShape == \A t \in Tasks : Shaped(t)

VdbShape == \A x \in Packages : x \notin listing => contents[x] = {}

(* Between the lock and the registration of a merge.                       *)
Merging == {"index", "stamp", "check", "write"} \cup Removing

(* A merge knows every package a reader can see in its slot.               *)
SlotKept(t) ==
    \A x \in task[t].new :
        /\ task[t].pc \in Merging => Occupants(x) \subseteq task[t].victim
        /\ task[t].pc = "register" => Occupants(x) = {}

SlotHeld == \A t \in Tasks : SlotKept(t)

(* Nobody has got a path of its image since it was checked.                *)
ImageClear(t) ==
    task[t].new # {} =>
        /\ task[t].pc \in {"write"} \cup Removing =>
              \A y \in Packages \ task[t].victim : contents[y] \cap task[t].image = {}
        /\ task[t].pc = "register" =>
              \A y \in Packages : contents[y] \cap task[t].image = {}

ImageFree == \A t \in Tasks : ImageClear(t)

(* No index that may be used lacks an owner.                               *)
Ahead(i) == \A x \in Packages : contents[x] \subseteq i.owners[x]

AtHand(i) == i.stamp.counter <= counter /\ Ahead(i)

Kept(i) == i.stamp.counter <= counter /\ (i.stamp.counter = counter => Ahead(i))

IndexAhead ==
    /\ \A t \in Tasks : \A i \in task[t].idx : AtHand(i)
    /\ \A p \in Procs : \A i \in index[p] : Kept(i)

(* What a task is about to delete is nobody else's; what it wrote is there.*)
DiskSafe(t) ==
    /\ task[t].pc = "remove" =>
          \A y \in Packages \ task[t].victim : contents[y] \cap task[t].listed = {}
    /\ task[t].pc \in {"register"} \cup Removing => task[t].image \subseteq disk

DiskHeld == removals = 0 => \A t \in Tasks : DiskSafe(t)

(* Nothing failed and nobody removed by hand: an entry is complete but     *)
(* while it is being removed, and the victim of a merge is there.          *)
Vanishing(x) == \E t \in Tasks : At(t, "rmdir") /\ x \in task[t].victim

VictimThere(t) ==
    \/ /\ task[t].new # {}
       /\ task[t].pc \in {"index", "stamp", "check", "write", "read"}
    \/ task[t].pc \in {"remove", "unregister", "rmdir"}
    => task[t].victim \subseteq dirs

QuietVdb ==
    Undisturbed =>
        /\ \A x \in dirs : (x \in slotted /\ x \in listing) \/ Vanishing(x)
        /\ \A t \in Tasks : VictimThere(t)

(* Then the disk is what is owned, and what the holder merges or removes.  *)
OwnedBut(S) == UNION {contents[x] : x \in Packages \ S}

HeldDisk(t) ==
    /\ task[t].pc \notin {"register"} \cup Removing => disk = OwnedBut({})
    /\ task[t].pc \in {"read", "remove", "register"} =>
          disk = OwnedBut({}) \cup task[t].image
    /\ task[t].pc \in {"unregister", "rmdir"} =>
          disk = OwnedBut(task[t].victim) \cup task[t].image
    /\ task[t].pc = "remove" =>
          \A v \in task[t].victim : task[t].listed = contents[v]

QuietDisk ==
    Undisturbed => /\ lock = {} => disk = OwnedBut({})
                   /\ \A t \in Tasks : Holding(t) => HeldDisk(t)

(* ... and no index knows an owner too many.                               *)
ExactKept(i, x) ==
    /\ i.owners[x] # {} => x \in i.stamp.names
    /\ i.owners[x] = contents[x] \/ x \notin dirs \/ Vanishing(x)

ExactAtHand(t) ==
    \A i \in task[t].idx :
        /\ \A x \in Packages :
              i.owners[x] = contents[x] \/ (At(t, "rmdir") /\ x \in task[t].victim)
        /\ At(t, "postinst") => i.stamp = Stamp

QuietIndex ==
    Undisturbed =>
        /\ \A p \in Procs : \A i \in index[p] :
               i.stamp.counter = counter => \A x \in Packages : ExactKept(i, x)
        /\ \A t \in Tasks : ExactAtHand(t)

IInv == /\ TypeOK /\ Mutex /\ TaskShape /\ VdbShape
        /\ SlotUnique /\ SlotHeld /\ NoSharedPaths /\ ImageFree
        /\ IndexAhead /\ OwnedOnDisk /\ DiskHeld
        /\ QuietVdb /\ QuietDisk /\ QuietIndex

-----------------------------------------------------------------------------
(* Types.                                                                  *)

LEMMA NoneType == ASSUME NEW S PROVE {} \in Option(S)
    BY DEF Option

LEMMA SomeType == ASSUME NEW S, NEW s \in S PROVE {s} \in Option(S)
    BY DEF Option

LEMMA IdleType == Idle \in Task
    BY NoneType DEF Idle, Task, Pcs

LEMMA GotoType ==
    ASSUME TypeOK, NEW t \in Tasks, NEW pc \in Pcs, Goto(t, pc)
    PROVE  task' \in [Tasks -> Task]
    BY DEF TypeOK, Goto, Task

(* A step of a task that also sets its victim, or its index.               *)
LEMMA VictimType ==
    ASSUME TypeOK, NEW t \in Tasks, NEW pc \in Pcs, NEW o \in Option(Packages),
           task' = [task EXCEPT ![t].pc = pc, ![t].victim = o]
    PROVE  task' \in [Tasks -> Task]
<1>1. task \in [Tasks -> Task] /\ task[t] \in Task
    BY DEF TypeOK
<1>2. [task[t] EXCEPT !.pc = pc, !.victim = o] \in Task
    BY <1>1 DEF Task
<1>3. task' = [task EXCEPT ![t] = [task[t] EXCEPT !.pc = pc, !.victim = o]]
    BY <1>1
<1> QED BY <1>1, <1>2, <1>3

LEMMA IdxType ==
    ASSUME TypeOK, NEW t \in Tasks, NEW pc \in Pcs, NEW o \in Option(Index),
           task' = [task EXCEPT ![t].pc = pc, ![t].idx = o]
    PROVE  task' \in [Tasks -> Task]
<1>1. task \in [Tasks -> Task] /\ task[t] \in Task
    BY DEF TypeOK
<1>2. [task[t] EXCEPT !.pc = pc, !.idx = o] \in Task
    BY <1>1 DEF Task
<1>3. task' = [task EXCEPT ![t] = [task[t] EXCEPT !.pc = pc, !.idx = o]]
    BY <1>1
<1> QED BY <1>1, <1>2, <1>3

LEMMA EndType ==
    ASSUME TypeOK, NEW t \in Tasks, End(t)
    PROVE  /\ task' \in [Tasks -> Task]
           /\ lock' \in Option(Tasks) /\ gate' \in [Procs -> Option(Tasks)]
<1>1. task' \in [Tasks -> Task]
    BY IdleType DEF TypeOK, End
<1>2. lock' \in Option(Tasks)
    BY DEF TypeOK, End, Option
<1>3. gate' \in [Procs -> Option(Tasks)]
    BY DEF TypeOK, End, Option
<1> QED BY <1>1, <1>2, <1>3

LEMMA InvalidateType ==
    ASSUME TypeOK, NEW t \in Tasks, Invalidate(t)
    PROVE  index' \in [Procs -> Option(Index)]
    BY NoneType DEF TypeOK, Invalidate

LEMMA FaultType ==
    ASSUME TypeOK, Fault
    PROVE  /\ jobs' \in 0 .. MaxJobs /\ removals' \in Nat /\ faults' \in Nat
           /\ removals' + faults' <= MaxUpsets
    BY QMergeAssumption DEF TypeOK, Fault

LEMMA StampType == ASSUME TypeOK PROVE Stamp \in [counter : Nat, names : SUBSET Packages]
    BY DEF TypeOK, Stamp

LEMMA RestampedType ==
    ASSUME TypeOK, NEW t \in Tasks
    PROVE  Restamped(t) \in Option(Index)
<1>1. task[t].idx \in Option(Index)
    BY DEF TypeOK, Task
<1> QED BY <1>1, StampType DEF Restamped, Option, Index

(* A VDB whose entries only lost something.                                *)
LEMMA FewerContents ==
    ASSUME TypeOK, contents' = [x \in Packages |-> IF x \in listing' THEN contents[x] ELSE {}]
    PROVE  contents' \in SomeOwned
    BY DEF TypeOK, SomeOwned

LEMMA InitTypes == Init => TypeOK
<1> SUFFICES ASSUME Init PROVE TypeOK
    OBVIOUS
<1> USE QMergeAssumption DEF Init
<1>1. /\ dirs \subseteq Packages /\ slotted \subseteq dirs /\ listing \subseteq dirs
      /\ contents \in SomeOwned /\ counter \in Nat /\ gnawed \subseteq Packages
      /\ jobs \in 0 .. MaxJobs /\ removals \in Nat /\ faults \in Nat
      /\ removals + faults <= MaxUpsets
    OBVIOUS
<1>2. disk \subseteq Paths
    BY <1>1 DEF SomeOwned
<1>3. gate \in [Procs -> Option(Tasks)] /\ lock \in Option(Tasks)
    BY NoneType
<1>4. index \in [Procs -> Option(Index)]
  <2>1. [owners |-> contents, stamp |-> Stamp] \in Index
      BY <1>1 DEF Index, Stamp
  <2>2. {} \in Option(Index) /\ {[owners |-> contents, stamp |-> Stamp]} \in Option(Index)
      BY <2>1, NoneType, SomeType
  <2> QED BY <2>2
<1>5. task \in [Tasks -> Task]
    BY IdleType
<1> QED BY <1>1, <1>2, <1>3, <1>4, <1>5 DEF TypeOK

LEMMA TypeStep == ASSUME TypeOK, [Next]_vars PROVE TypeOK'
<1>1. ASSUME NEW t \in Tasks, BeginMerge(t) PROVE TypeOK'
  <2>0. PICK x \in Packages :
          \E c \in Images[x] :
            task' = [task EXCEPT ![t] = [Idle EXCEPT !.pc = "gate", !.new = {x}, !.image = c]]
      BY <1>1 DEF BeginMerge
  <2>1. PICK c \in Images[x] :
            task' = [task EXCEPT ![t] = [Idle EXCEPT !.pc = "gate", !.new = {x}, !.image = c]]
      BY <2>0
  <2>2. c \subseteq Paths /\ {x} \in Option(Packages)
      BY QMergeAssumption, SomeType
  <2>3. [Idle EXCEPT !.pc = "gate", !.new = {x}, !.image = c] \in Task
      BY <2>2, NoneType DEF Idle, Task, Pcs
  <2>4. task' \in [Tasks -> Task]
      BY <2>1, <2>3 DEF TypeOK
  <2> QED BY <1>1, <2>4, QMergeAssumption DEF TypeOK, BeginMerge, vdb, locks
<1>2. ASSUME NEW t \in Tasks, BeginUnmerge(t) \/ BeginRemoval(t) PROVE TypeOK'
  <2>1. PICK x \in dirs, pc \in {"gate", "read"} :
            task' = [task EXCEPT ![t] = [Idle EXCEPT !.pc = pc, !.victim = {x}]]
      BY <1>2 DEF BeginUnmerge, BeginRemoval
  <2>2. {x} \in Option(Packages)
      BY SomeType DEF TypeOK
  <2>3. [Idle EXCEPT !.pc = pc, !.victim = {x}] \in Task
      BY <2>2, NoneType DEF Idle, Task, Pcs
  <2>4. task' \in [Tasks -> Task]
      BY <2>1, <2>3 DEF TypeOK
  <2>5. jobs' \in 0 .. MaxJobs /\ removals' \in Nat /\ faults' \in Nat
        /\ removals' + faults' <= MaxUpsets
    <3>1. CASE BeginUnmerge(t)
        BY <3>1, QMergeAssumption DEF TypeOK, BeginUnmerge
    <3>2. CASE BeginRemoval(t)
        BY <3>2, QMergeAssumption DEF TypeOK, BeginRemoval
    <3> QED BY <1>2, <3>1, <3>2
  <2> QED BY <1>2, <2>4, <2>5 DEF TypeOK, BeginUnmerge, BeginRemoval, vdb, locks
<1>3. ASSUME NEW t \in Tasks, TakeGate(t) \/ TakeLock(t) PROVE TypeOK'
  <2>1. task' \in [Tasks -> Task]
      BY <1>3, GotoType DEF TakeGate, TakeLock, Pcs
  <2>2. {t} \in Option(Tasks)
      BY SomeType
  <2> QED BY <1>3, <2>1, <2>2 DEF TypeOK, TakeGate, TakeLock, vdb, count
<1>4. ASSUME NEW t \in Tasks, FindOccupant(t) PROVE TypeOK'
  <2>1. task' \in [Tasks -> Task]
    <3>1. CASE Goto(t, "index")
        BY <3>1, GotoType DEF Pcs
    <3>2. ASSUME NEW y \in dirs,
                 task' = [task EXCEPT ![t].pc = "index", ![t].victim = {y}]
          PROVE  task' \in [Tasks -> Task]
      <4>1. {y} \in Option(Packages)
          BY SomeType DEF TypeOK
      <4> QED BY <3>2, <4>1, VictimType DEF Pcs
    <3> QED BY <1>4, <3>1, <3>2 DEF FindOccupant, Occupants
  <2>2. UNCHANGED <<vdb, disk, counter, locks, index, count, gnawed>>
      BY <1>4 DEF FindOccupant
  <2> QED BY <2>1, <2>2 DEF TypeOK, vdb, locks, count
<1>5. ASSUME NEW t \in Tasks, TakeOrBuild(t) PROVE TypeOK'
  <2>1. index' \in [Procs -> Option(Index)]
    <3>1. index' = index \/ index' = [index EXCEPT ![ProcOf[t]] = {}]
        BY <1>5 DEF TakeOrBuild
    <3> QED BY <3>1, NoneType DEF TypeOK
  <2>2. task' \in [Tasks -> Task]
    <3>1. CASE Goto(t, "check")
        BY <3>1, GotoType DEF Pcs
    <3>2. index[ProcOf[t]] \in Option(Index)
        BY QMergeAssumption DEF TypeOK
    <3>3. {[owners |-> contents, stamp |-> Stamp]} \in Option(Index)
      <4>1. [owners |-> contents, stamp |-> Stamp] \in Index
          BY StampType DEF TypeOK, Index
      <4> QED BY <4>1, SomeType
    <3>4. ASSUME NEW o \in Option(Index), NEW pc \in {"check", "stamp"},
                 task' = [task EXCEPT ![t].pc = pc, ![t].idx = o]
          PROVE  task' \in [Tasks -> Task]
        BY <3>4, IdxType DEF Pcs
    <3> QED BY <1>5, <3>1, <3>2, <3>3, <3>4 DEF TakeOrBuild
  <2> QED BY <1>5, <2>1, <2>2 DEF TypeOK, TakeOrBuild, vdb, locks, count
<1>6. ASSUME NEW t \in Tasks, StampIndex(t) \/ RefreshIndex(t) PROVE TypeOK'
  <2>1. PICK pc \in {"check", "postinst"} :
            task' = [task EXCEPT ![t].pc = pc, ![t].idx = Restamped(t)]
      BY <1>6 DEF StampIndex, RefreshIndex
  <2>2. task' \in [Tasks -> Task]
      BY <2>1, RestampedType, IdxType DEF Pcs
  <2> QED BY <1>6, <2>2 DEF TypeOK, StampIndex, RefreshIndex, vdb, locks, count
<1>7. ASSUME NEW t \in Tasks, CheckCollisions(t) PROVE TypeOK'
  <2>1. task' \in [Tasks -> Task]
      BY <1>7, GotoType DEF CheckCollisions, Pcs
  <2> QED BY <1>7, <2>1 DEF TypeOK, CheckCollisions, vdb, locks, count
<1>8. ASSUME NEW t \in Tasks,
             Refuse(t) \/ NoContents(t) \/ NoDirectory(t) \/ EndUnmerge(t) PROVE TypeOK'
  <2>1. End(t) /\ (UNCHANGED index \/ Invalidate(t))
      BY <1>8 DEF Refuse, NoContents, NoDirectory, EndUnmerge
  <2>2. index' \in [Procs -> Option(Index)]
      BY <2>1, InvalidateType DEF TypeOK
  <2> QED BY <1>8, <2>1, <2>2, EndType
          DEF TypeOK, Refuse, NoContents, NoDirectory, EndUnmerge, vdb, count
<1>9. ASSUME NEW t \in Tasks, Fails(t) PROVE TypeOK'
    BY <1>9, EndType, FaultType, InvalidateType DEF TypeOK, Fails, vdb
<1>10. ASSUME NEW t \in Tasks, WriteFails(t) PROVE TypeOK'
  <2>1. disk' \subseteq Paths
      BY <1>10 DEF TypeOK, Task, WriteFails
  <2> QED BY <1>10, <2>1, EndType, FaultType DEF TypeOK, WriteFails, vdb
<1>11. ASSUME NEW t \in Tasks, WriteFiles(t) PROVE TypeOK'
  <2>1. task' \in [Tasks -> Task]
      BY <1>11, GotoType DEF WriteFiles, Pcs
  <2>2. disk' \subseteq Paths
      BY <1>11 DEF TypeOK, Task, WriteFiles
  <2> QED BY <1>11, <2>1, <2>2 DEF TypeOK, WriteFiles, vdb, locks, count
<1>12. ASSUME NEW t \in Tasks, ReadContents(t) PROVE TypeOK'
  <2>1. PICK v \in task[t].victim :
            task' = [task EXCEPT ![t].pc = "remove", ![t].listed = contents[v]]
      BY <1>12 DEF ReadContents
  <2>2. contents[v] \subseteq Paths
      BY <2>1 DEF TypeOK, Task, Option, SomeOwned
  <2>3. task[t] \in Task
      BY DEF TypeOK
  <2>4. [task[t] EXCEPT !.pc = "remove", !.listed = contents[v]] \in Task
      BY <2>2, <2>3 DEF Task, Pcs
  <2>5. task' = [task EXCEPT ![t] = [task[t] EXCEPT !.pc = "remove", !.listed = contents[v]]]
      BY <2>1
  <2>6. task' \in [Tasks -> Task]
      BY <2>4, <2>5 DEF TypeOK
  <2> QED BY <1>12, <2>6 DEF TypeOK, ReadContents, vdb, locks, count
<1>13. ASSUME NEW t \in Tasks, RemoveFiles(t) PROVE TypeOK'
  <2>1. task' \in [Tasks -> Task]
      BY <1>13, GotoType DEF RemoveFiles, Pcs
  <2>2. gnawed' \subseteq Packages /\ disk' \subseteq Paths
      BY <1>13 DEF TypeOK, Task, Option, RemoveFiles
  <2> QED BY <1>13, <2>1, <2>2 DEF TypeOK, RemoveFiles, vdb, locks, count
<1>14. ASSUME NEW t \in Tasks, RemoveFields(t) PROVE TypeOK'
  <2>1. task' \in [Tasks -> Task]
      BY <1>14, GotoType DEF RemoveFields, Pcs
  <2>2. contents' \in SomeOwned
      BY <1>14, FewerContents DEF RemoveFields
  <2> QED BY <1>14, <2>1, <2>2 DEF TypeOK, RemoveFields, locks, count
<1>15. ASSUME NEW t \in Tasks, RemoveDir(t) PROVE TypeOK'
  <2>1. contents' \in SomeOwned
      BY <1>15, FewerContents DEF RemoveDir
  <2>2. task' \in [Tasks -> Task]
    <3> DEFINE o == {[i EXCEPT !.owners = [x \in Packages |-> IF x \in task[t].victim
                                                             THEN {} ELSE @[x]]] :
                     i \in task[t].idx}
               pc == IF task[t].new = {} THEN "removed" ELSE "register"
    <3>1. task[t].idx \in Option(Index)
        BY DEF TypeOK, Task
    <3>2. o \in Option(Index)
      <4>1. ASSUME NEW i \in Index
            PROVE  [i EXCEPT !.owners = [x \in Packages |-> IF x \in task[t].victim
                                                            THEN {} ELSE @[x]]] \in Index
          BY DEF Index, SomeOwned
      <4> QED BY <3>1, <4>1 DEF Option
    <3>3. task' = [task EXCEPT ![t].pc = pc, ![t].idx = o]
        BY <1>15 DEF RemoveDir
    <3>4. pc \in Pcs
        BY DEF Pcs
    <3> HIDE DEF o, pc
    <3> QED BY <3>2, <3>3, <3>4 DEF TypeOK, Task
  <2> QED BY <1>15, <2>1, <2>2 DEF TypeOK, RemoveDir, locks, count
<1>16. ASSUME NEW t \in Tasks, Displace(t) PROVE TypeOK'
  <2>1. contents' \in SomeOwned
      BY <1>16, FewerContents DEF Displace
  <2> QED BY <1>16, <2>1 DEF TypeOK, Displace, locks, count
<1>17. ASSUME NEW t \in Tasks, Publish(t) PROVE TypeOK'
  <2>1. task[t].image \subseteq Paths /\ task[t].new \subseteq Packages
        /\ task[t].idx \in Option(Index)
      BY DEF TypeOK, Task, Option
  <2>2. contents' \in SomeOwned
      BY <1>17, <2>1 DEF TypeOK, SomeOwned, Publish
  <2>3. task' \in [Tasks -> Task]
    <3> DEFINE o == {[i EXCEPT !.owners = [x \in Packages |-> IF x \in task[t].new
                                                             THEN task[t].image ELSE @[x]]] :
                     i \in task[t].idx}
    <3>1. o \in Option(Index)
        BY <2>1 DEF Option, Index, SomeOwned
    <3>2. task' = [task EXCEPT ![t].pc = "refresh", ![t].idx = o]
        BY <1>17 DEF Publish
    <3> HIDE DEF o
    <3> QED BY <3>1, <3>2, IdxType DEF Pcs
  <2> QED BY <1>17, <2>1, <2>2, <2>3 DEF TypeOK, Publish, locks, count
<1>18. ASSUME NEW t \in Tasks, EndMerge(t) PROVE TypeOK'
  <2>1. index' \in [Procs -> Option(Index)]
      BY <1>18 DEF TypeOK, Task, EndMerge
  <2> QED BY <1>18, <2>1, EndType DEF TypeOK, EndMerge, vdb, count
<1>19. ASSUME NEW p \in Procs, Die(p) PROVE TypeOK'
  <2>1. task' \in [Tasks -> Task]
      BY <1>19, IdleType DEF TypeOK, Die
  <2>2. gate' \in [Procs -> Option(Tasks)] /\ index' \in [Procs -> Option(Index)]
      BY <1>19, NoneType DEF TypeOK, Die
  <2>3. lock' \in Option(Tasks)
      BY <1>19 DEF TypeOK, Die, Option
  <2>4. disk' \subseteq Paths /\ gnawed' \subseteq Packages
      BY <1>19 DEF TypeOK, Task, Option, Die, TasksOf
  <2> QED BY <1>19, <2>1, <2>2, <2>3, <2>4, FaultType DEF TypeOK, Die, vdb
<1>20. CASE UNCHANGED vars
    BY <1>20 DEF TypeOK, vars, vdb, locks, count
<1> QED BY <1>1, <1>2, <1>3, <1>4, <1>5, <1>6, <1>7, <1>8, <1>9, <1>10, <1>11, <1>12, <1>13,
           <1>14, <1>15, <1>16, <1>17, <1>18, <1>19, <1>20 DEF Next, Step

-----------------------------------------------------------------------------
(* What a step does, by kind: a task begins, ends or moves on, or a        *)
(* process dies.                                                           *)
Begins(t) == BeginMerge(t) \/ BeginUnmerge(t) \/ BeginRemoval(t)

Ends(t) ==
    \/ Refuse(t) \/ NoContents(t) \/ NoDirectory(t) \/ EndUnmerge(t) \/ EndMerge(t)
    \/ WriteFails(t) \/ Fails(t)

(* Moves that leave the VDB and the disk alone, and those that do not.     *)
Looks(t) ==
    \/ TakeGate(t) \/ TakeLock(t) \/ FindOccupant(t) \/ TakeOrBuild(t) \/ StampIndex(t)
    \/ CheckCollisions(t) \/ ReadContents(t) \/ RefreshIndex(t)

LEMMA StepKinds ==
    ASSUME Next
    PROVE  \/ \E t \in Tasks : \/ Begins(t) \/ Ends(t) \/ Looks(t)
                               \/ WriteFiles(t) \/ RemoveFiles(t) \/ RemoveFields(t)
                               \/ RemoveDir(t) \/ Displace(t) \/ Publish(t)
           \/ \E p \in Procs : Die(p)
    BY DEF Next, Step, Begins, Ends, Looks

(* An entry, or a file of one, may go; nothing comes.                      *)
Fewer ==
    /\ dirs' \subseteq dirs /\ slotted' \subseteq slotted /\ listing' \subseteq listing
    /\ contents' = [x \in Packages |-> IF x \in listing' THEN contents[x] ELSE {}]
    /\ counter' = counter

LEMMA SameVdb ==
    ASSUME TypeOK, VdbShape, UNCHANGED <<vdb, counter>>
    PROVE  Fewer
    BY DEF TypeOK, SomeOwned, VdbShape, Fewer, vdb

LEMMA BeginEffect ==
    ASSUME TypeOK, NEW t \in Tasks, Begins(t)
    PROVE  /\ At(t, "idle") /\ UNCHANGED <<vdb, disk, counter, locks, index, gnawed>>
           /\ \A u \in Tasks \ {t} : task'[u] = task[u]
           /\ task'[t].image \subseteq Paths /\ task'[t].idx = {}
           /\ \/ /\ t \notin Removers /\ At(t, "gate")' /\ UNCHANGED <<removals, faults>>
                 /\ task'[t].new = {} => task'[t].image = {} /\ task'[t].victim # {}
                 /\ task'[t].new # {} => task'[t].victim = {}
              \/ /\ t \in Removers /\ At(t, "read")' /\ removals' = removals + 1
                 /\ task'[t].new = {} /\ task'[t].image = {} /\ task'[t].victim # {}
<1>1. CASE BeginMerge(t)
  <2>1. PICK x \in Packages :
          \E c \in Images[x] :
            task' = [task EXCEPT ![t] = [Idle EXCEPT !.pc = "gate", !.new = {x}, !.image = c]]
      BY <1>1 DEF BeginMerge
  <2>2. PICK c \in Images[x] :
            task' = [task EXCEPT ![t] = [Idle EXCEPT !.pc = "gate", !.new = {x}, !.image = c]]
      BY <2>1
  <2>3. task'[t] = [Idle EXCEPT !.pc = "gate", !.new = {x}, !.image = c]
        /\ \A u \in Tasks \ {t} : task'[u] = task[u]
      BY <2>2 DEF TypeOK
  <2>4. task'[t].pc = "gate" /\ task'[t].new = {x} /\ task'[t].image = c /\ task'[t].idx = {}
        /\ task'[t].victim = {}
      BY <2>3 DEF Idle
  <2>5. c \subseteq Paths
      BY QMergeAssumption
  <2> QED BY <1>1, <2>3, <2>4, <2>5 DEF BeginMerge, At, vdb, locks
<1>2. CASE BeginUnmerge(t) \/ BeginRemoval(t)
  <2>1. PICK x \in dirs, pc \in {"gate", "read"} :
            task' = [task EXCEPT ![t] = [Idle EXCEPT !.pc = pc, !.victim = {x}]]
      BY <1>2 DEF BeginUnmerge, BeginRemoval
  <2>2. task'[t] = [Idle EXCEPT !.pc = pc, !.victim = {x}]
        /\ \A u \in Tasks \ {t} : task'[u] = task[u]
      BY <2>1 DEF TypeOK
  <2>3. task'[t].pc = pc /\ task'[t].new = {} /\ task'[t].image = {} /\ task'[t].idx = {}
        /\ task'[t].victim # {}
      BY <2>2 DEF Idle
  <2>4. CASE BeginUnmerge(t)
    <3>1. At(t, "gate")'
        BY <2>4 DEF BeginUnmerge, TypeOK, Idle, At
    <3> QED BY <2>2, <2>3, <2>4, <3>1 DEF BeginUnmerge, At, vdb, locks
  <2>5. CASE BeginRemoval(t)
    <3>1. At(t, "read")'
        BY <2>5 DEF BeginRemoval, TypeOK, Idle, At
    <3> QED BY <2>2, <2>3, <2>5, <3>1 DEF BeginRemoval, At, vdb, locks
  <2> QED BY <1>2, <2>4, <2>5
<1> QED BY <1>1, <1>2 DEF Begins

LEMMA EndEffect ==
    ASSUME TypeOK, NEW t \in Tasks, Ends(t)
    PROVE  /\ UNCHANGED <<vdb, counter, gnawed>> /\ disk \subseteq disk'
           /\ task' = [task EXCEPT ![t] = Idle] /\ lock' = lock \ {t}
           /\ ~At(t, "idle") /\ ~At(t, "gate")
           /\ \A p \in Procs : index'[p] \in {index[p], {}, task[t].idx}
           /\ removals' = removals /\ faults' \in {faults, faults + 1}
<1>1. CASE Refuse(t) \/ NoContents(t) \/ NoDirectory(t) \/ EndUnmerge(t) \/ Fails(t)
  <2>1. \A p \in Procs : index'[p] \in {index[p], {}, task[t].idx}
      BY <1>1 DEF TypeOK, Refuse, NoContents, NoDirectory, EndUnmerge, Fails, Invalidate
  <2> QED BY <1>1, <2>1
          DEF Refuse, NoContents, NoDirectory, EndUnmerge, Fails, End, Fault, At, vdb, count
<1>2. CASE EndMerge(t)
    BY <1>2 DEF TypeOK, EndMerge, End, At, vdb, count
<1>3. CASE WriteFails(t)
    BY <1>3 DEF WriteFails, End, Fault, At, vdb
<1> QED BY <1>1, <1>2, <1>3 DEF Ends

LEMMA LookEffect ==
    ASSUME NEW t \in Tasks, Looks(t)
    PROVE  UNCHANGED <<vdb, disk, counter, gnawed, removals, faults>>
    BY DEF Looks, TakeGate, TakeLock, FindOccupant, TakeOrBuild, StampIndex, CheckCollisions,
           ReadContents, RefreshIndex, vdb, count

LEMMA DieEffect ==
    ASSUME TypeOK, NEW p \in Procs, Die(p)
    PROVE  /\ UNCHANGED <<vdb, counter>> /\ removals' = removals /\ faults' = faults + 1
           /\ \A t \in Tasks : task'[t] = IF ProcOf[t] = p THEN Idle ELSE task[t]
           /\ lock' = lock \ TasksOf(p)
           /\ \A q \in Procs : index'[q] \in {index[q], {}}
    BY DEF TypeOK, Die, Fault

(* Only the publication of an entry adds to the VDB.                       *)
LEMMA FewerStep ==
    ASSUME TypeOK, VdbShape, Next
    PROVE  Fewer \/ \E t \in Tasks : Publish(t)
<1>1. ASSUME NEW t \in Tasks, Begins(t) \/ Ends(t) \/ Looks(t) PROVE Fewer
    BY <1>1, BeginEffect, EndEffect, LookEffect, SameVdb
<1>2. ASSUME NEW p \in Procs, Die(p) PROVE Fewer
    BY <1>2, DieEffect, SameVdb
<1>3. ASSUME NEW t \in Tasks, WriteFiles(t) \/ RemoveFiles(t) PROVE Fewer
    BY <1>3, SameVdb DEF WriteFiles, RemoveFiles, vdb
<1>4. ASSUME NEW t \in Tasks, RemoveFields(t) \/ RemoveDir(t) \/ Displace(t) PROVE Fewer
    BY <1>4 DEF Fewer, RemoveFields, RemoveDir, Displace
<1> QED BY <1>1, <1>2, <1>3, <1>4, StepKinds

(* A task past its locks stays there, with what it merges, until it ends.  *)
Works(t) ==
    \/ FindOccupant(t) \/ TakeOrBuild(t) \/ StampIndex(t) \/ CheckCollisions(t)
    \/ ReadContents(t) \/ RefreshIndex(t) \/ WriteFiles(t) \/ RemoveFiles(t)
    \/ RemoveFields(t) \/ RemoveDir(t) \/ Displace(t) \/ Publish(t)

Past == Pcs \ {"idle", "gate", "lock"}

LEMMA WorkEffect ==
    ASSUME TypeOK, NEW t \in Tasks, Works(t)
    PROVE  /\ UNCHANGED <<locks, count>> /\ \A u \in Tasks \ {t} : task'[u] = task[u]
           /\ task[t].pc \in Past /\ task'[t].pc \in Past
           /\ task'[t].new = task[t].new /\ task'[t].image = task[t].image
           /\ \A p \in Procs : index'[p] \in {index[p], {}}
<1>1. CASE FindOccupant(t)
  <2>1. CASE Goto(t, "index")
      BY <1>1, <2>1 DEF TypeOK, Task, FindOccupant, Goto, At, Past, Pcs
  <2>2. CASE \E y \in dirs : task' = [task EXCEPT ![t].pc = "index", ![t].victim = {y}]
    <3>1. task[t].pc = "occupant" /\ UNCHANGED <<locks, count, index>>
        BY <1>1 DEF FindOccupant, At
    <3>2. PICK y \in dirs : task' = [task EXCEPT ![t].pc = "index", ![t].victim = {y}]
        BY <2>2
    <3>3. /\ \A u \in Tasks \ {t} : task'[u] = task[u]
          /\ task'[t].pc = "index"
          /\ task'[t].new = task[t].new /\ task'[t].image = task[t].image
        BY <3>2 DEF TypeOK, Task
    <3> QED BY <3>1, <3>3 DEF Past, Pcs
  <2> QED BY <1>1, <2>1, <2>2 DEF FindOccupant, Occupants
<1>2. CASE TakeOrBuild(t)
  <2>1. \A p \in Procs : index'[p] \in {index[p], {}}
      BY <1>2 DEF TypeOK, TakeOrBuild
  <2>2. PICK pc \in {"check", "stamp"} :
            \/ task' = [task EXCEPT ![t].pc = pc]
            \/ \E o : task' = [task EXCEPT ![t].pc = pc, ![t].idx = o]
      BY <1>2 DEF TakeOrBuild, Goto
  <2> QED BY <1>2, <2>1, <2>2 DEF TypeOK, Task, TakeOrBuild, At, Past, Pcs
<1>3. CASE StampIndex(t) \/ RefreshIndex(t)
    BY <1>3 DEF TypeOK, Task, StampIndex, RefreshIndex, At, Past, Pcs
<1>4. CASE CheckCollisions(t) \/ WriteFiles(t) \/ RemoveFiles(t) \/ RemoveFields(t)
  <2>1. PICK pc \in Past : Goto(t, pc)
      BY <1>4 DEF CheckCollisions, WriteFiles, RemoveFiles, RemoveFields, Past, Pcs
  <2> QED BY <1>4, <2>1 DEF TypeOK, Task, CheckCollisions, WriteFiles, RemoveFiles, RemoveFields,
                            Goto, At, Past, Pcs
<1>5. CASE ReadContents(t)
    BY <1>5 DEF TypeOK, Task, ReadContents, At, Past, Pcs
<1>6. CASE RemoveDir(t)
    BY <1>6 DEF TypeOK, Task, RemoveDir, At, Past, Pcs
<1>7. CASE Displace(t) \/ Publish(t)
    BY <1>7 DEF TypeOK, Task, Displace, Publish, At, Past, Pcs
<1> QED BY <1>1, <1>2, <1>3, <1>4, <1>5, <1>6, <1>7 DEF Works

LEMMA StepParts ==
    ASSUME Next
    PROVE  \/ \E t \in Tasks : Begins(t) \/ Ends(t) \/ TakeGate(t) \/ TakeLock(t) \/ Works(t)
           \/ \E p \in Procs : Die(p)
    BY StepKinds DEF Looks, Works

-----------------------------------------------------------------------------
(* One task of all the processes is past the lock.                         *)

LEMMA OneHolder ==
    ASSUME Mutex, NEW t \in Tasks, NEW u \in Tasks, Holding(t), Holding(u)
    PROVE  t = u
    BY DEF Mutex

LEMMA MutexStep == ASSUME TypeOK, TaskShape, Mutex, Next PROVE Mutex'
<1>1. ASSUME NEW t \in Tasks, Begins(t) PROVE Mutex'
    BY <1>1, BeginEffect DEF Mutex, Holding, At, locks
<1>2. ASSUME NEW t \in Tasks, Ends(t) PROVE Mutex'
  <2>1. ~Holding(t)' /\ \A u \in Tasks \ {t} : Holding(u)' <=> Holding(u)
      BY <1>2, EndEffect DEF TypeOK, Holding, Idle
  <2>2. lock' = lock \ {t} /\ lock \in Option(Tasks)
      BY <1>2, EndEffect DEF TypeOK
  <2>3. \A u \in Tasks \ {t} : lock' = {u} <=> lock = {u}
      BY <2>2 DEF Option
  <2> QED BY <2>1, <2>2, <2>3 DEF Mutex
<1>3. ASSUME NEW t \in Tasks, TakeGate(t) PROVE Mutex'
    BY <1>3 DEF TypeOK, Task, Mutex, Holding, TakeGate, Goto, At
<1>4. ASSUME NEW t \in Tasks, TakeLock(t) PROVE Mutex'
  <2>1. t \notin Removers
      BY <1>4 DEF TaskShape, Shaped, TakeLock, At, Removing
  <2>2. Holding(t)' /\ \A u \in Tasks \ {t} : Holding(u)' <=> Holding(u)
      BY <1>4, <2>1 DEF TypeOK, Task, Holding, TakeLock, Goto
  <2> QED BY <1>4, <2>2 DEF Mutex, TakeLock
<1>5. ASSUME NEW t \in Tasks, Works(t) PROVE Mutex'
    BY <1>5, WorkEffect DEF Mutex, Holding, Past, locks
<1>6. ASSUME NEW p \in Procs, Die(p) PROVE Mutex'
  <2>1. \A t \in Tasks : Holding(t)' <=> (Holding(t) /\ ProcOf[t] # p)
      BY <1>6, DieEffect DEF Holding, Idle
  <2>2. lock' = lock \ TasksOf(p) /\ lock \in Option(Tasks)
      BY <1>6, DieEffect DEF TypeOK
  <2>3. \A t \in Tasks : lock' = {t} <=> (lock = {t} /\ ProcOf[t] # p)
      BY <2>2 DEF Option, TasksOf
  <2> QED BY <2>1, <2>3 DEF Mutex
<1> QED BY <1>1, <1>2, <1>3, <1>4, <1>5, <1>6, StepParts

-----------------------------------------------------------------------------
(* What a task is at, and what the VDB looks like.                         *)

LEMMA OthersShaped ==
    ASSUME TypeOK, TaskShape, NEW t \in Tasks, task'[t] = task[t], removals' \in Nat,
           removals' = 0 => removals = 0
    PROVE  Shaped(t)'
    BY DEF TypeOK, TaskShape, Shaped, Holding, At

LEMMA IdleShaped == ASSUME NEW t \in Tasks, task'[t] = Idle PROVE Shaped(t)'
    BY DEF Shaped, Holding, At, Idle, Removing

LEMMA TaskShapeStep == ASSUME TypeOK, TaskShape, Next, TypeOK' PROVE TaskShape'
<1>1. ASSUME NEW t \in Tasks, Begins(t) PROVE TaskShape'
  <2>1. Shaped(t)'
    <3>1. TypeOK /\ TypeOK'
        OBVIOUS
    <3>2. CASE t \in Removers /\ At(t, "read")' /\ removals' = removals + 1
               /\ task'[t].new = {} /\ task'[t].image = {} /\ task'[t].victim # {}
        BY <1>1, <3>2, BeginEffect DEF TypeOK, Shaped, Holding, At, Removing
    <3>3. CASE t \notin Removers /\ At(t, "gate")'
        BY <1>1, <3>3, BeginEffect DEF Shaped, Holding, At, Removing
    <3> QED BY <1>1, <3>2, <3>3, BeginEffect
  <2>2. removals' \in Nat /\ (removals' = 0 => removals = 0)
      BY <1>1, BeginEffect DEF TypeOK
  <2> QED BY <1>1, <2>1, <2>2, BeginEffect, OthersShaped DEF TaskShape
<1>2. ASSUME NEW t \in Tasks, Ends(t) PROVE TaskShape'
  <2>1. Shaped(t)' /\ \A u \in Tasks \ {t} : task'[u] = task[u]
      BY <1>2, EndEffect, IdleShaped DEF TypeOK
  <2> QED BY <1>2, <2>1, EndEffect, OthersShaped DEF TypeOK, TaskShape
<1>3. ASSUME NEW t \in Tasks, TakeGate(t) \/ TakeLock(t) PROVE TaskShape'
  <2>1. Shaped(t)'
      BY <1>3 DEF TypeOK, Task, TaskShape, Shaped, TakeGate, TakeLock, Goto, Holding, At, Removing,
                  count
  <2>2. \A u \in Tasks \ {t} : task'[u] = task[u]
      BY <1>3 DEF TypeOK, TakeGate, TakeLock, Goto
  <2>3. removals' = removals
      BY <1>3 DEF TakeGate, TakeLock, count
  <2> QED BY <2>1, <2>2, <2>3, OthersShaped DEF TypeOK, TaskShape
<1>4. ASSUME NEW t \in Tasks, Works(t) PROVE TaskShape'
  <2>1. Shaped(t)'
    <3>1. Shaped(t) /\ task[t] \in Task
        BY DEF TaskShape, TypeOK
    <3>2. CASE FindOccupant(t) \/ TakeOrBuild(t) \/ StampIndex(t) \/ CheckCollisions(t)
               \/ RefreshIndex(t) \/ WriteFiles(t)
      <4>1. task[t].new # {} /\ task[t].pc # "removed" /\ t \notin Removers
            /\ task[t].pc \notin Removing /\ (At(t, "write") \/ ~WriteFiles(t))
          BY <3>1, <3>2 DEF Shaped, FindOccupant, TakeOrBuild, StampIndex, CheckCollisions,
                            RefreshIndex, WriteFiles, At, Removing
      <4>2. task'[t].pc \in {"index", "check", "stamp", "refused", "write", "postinst"}
            \/ (WriteFiles(t) /\ task'[t].pc \in {"read", "register"}
                /\ task'[t].victim = task[t].victim
                /\ task'[t].pc = IF task[t].victim = {} THEN "register" ELSE "read")
        <5>1. CASE FindOccupant(t)
            BY <5>1 DEF TypeOK, Task, FindOccupant, Goto, Occupants
        <5>2. CASE TakeOrBuild(t)
            BY <5>2 DEF TypeOK, Task, TakeOrBuild, Goto
        <5>3. CASE StampIndex(t) \/ RefreshIndex(t) \/ CheckCollisions(t)
            BY <5>3 DEF TypeOK, Task, StampIndex, RefreshIndex, CheckCollisions, Goto
        <5>4. CASE WriteFiles(t)
            BY <5>4 DEF TypeOK, Task, WriteFiles, Goto
        <5> QED BY <3>2, <5>1, <5>2, <5>3, <5>4
      <4>3. task'[t].new # {} /\ task'[t].pc \in Past
          BY <1>4, <4>1, WorkEffect
      <4> QED BY <4>1, <4>2, <4>3 DEF Shaped, Holding, Past, Pcs, Removing, At
    <3>3. CASE ReadContents(t) \/ RemoveFiles(t) \/ RemoveFields(t)
      <4>1. task'[t].pc \in Removing /\ task[t].pc \in Removing
            /\ task'[t].victim = task[t].victim /\ task'[t].idx = task[t].idx
          BY <3>3 DEF TypeOK, Task, ReadContents, RemoveFiles, RemoveFields, Goto, At, Removing
      <4> QED BY <3>1, <4>1, <1>4, WorkEffect DEF TypeOK, Shaped, Holding, Removing, At, count
    <3>4. CASE RemoveDir(t)
      <4>1. task[t].pc = "rmdir" /\ task'[t].victim = task[t].victim
            /\ task'[t].pc = (IF task[t].new = {} THEN "removed" ELSE "register")
            /\ (task[t].idx = {} => task'[t].idx = {})
        <5>1. task[t].pc = "rmdir"
            BY <3>4 DEF RemoveDir, At
        <5>2. PICK o : /\ task[t].idx = {} => o = {}
                       /\ task' = [task EXCEPT
                             ![t].pc = IF task[t].new = {} THEN "removed" ELSE "register",
                             ![t].idx = o]
            BY <3>4 DEF RemoveDir
        <5> QED BY <5>1, <5>2 DEF TypeOK, Task
      <4> QED BY <3>1, <4>1, <1>4, WorkEffect DEF TypeOK, Shaped, Holding, Removing, At, count
    <3>5. CASE Displace(t) \/ Publish(t)
      <4>1. task[t].pc = "register" /\ task'[t].pc \in {"register", "refresh"}
          BY <3>5 DEF TypeOK, Task, Displace, Publish, At
      <4> QED BY <3>1, <4>1, <1>4, WorkEffect DEF TypeOK, Shaped, Holding, Removing, At, count
    <3> QED BY <1>4, <3>2, <3>3, <3>4, <3>5 DEF Works
  <2>2. removals' = removals /\ \A u \in Tasks \ {t} : task'[u] = task[u]
      BY <1>4, WorkEffect DEF count
  <2> QED BY <2>1, <2>2, OthersShaped DEF TypeOK, TaskShape
<1>5. ASSUME NEW p \in Procs, Die(p) PROVE TaskShape'
    BY <1>5, DieEffect, IdleShaped, OthersShaped DEF TypeOK, TaskShape
<1> QED BY <1>1, <1>2, <1>3, <1>4, <1>5, StepParts

LEMMA VdbShapeStep == ASSUME TypeOK, VdbShape, Next, TypeOK' PROVE VdbShape'
<1>1. CASE Fewer
    BY <1>1 DEF Fewer, VdbShape
<1>2. ASSUME NEW t \in Tasks, Publish(t) PROVE VdbShape'
    BY <1>2 DEF VdbShape, Publish
<1> QED BY <1>1, <1>2, FewerStep

-----------------------------------------------------------------------------
(* Slots.                                                                  *)

LEMMA SlotUniqueStep == ASSUME TypeOK, SlotUnique, SlotHeld, VdbShape, Next PROVE SlotUnique'
<1>1. CASE Fewer
    BY <1>1 DEF Fewer, SlotUnique
<1>2. ASSUME NEW t \in Tasks, Publish(t) PROVE SlotUnique'
  <2>1. \A x \in task[t].new : Occupants(x) = {}
      BY <1>2 DEF SlotHeld, SlotKept, Publish, At
  <2>2. task[t].new \in Option(Packages) /\ slotted \subseteq dirs
      BY DEF TypeOK, Task
  <2>3. \A x \in task[t].new, y \in slotted : SlotOf[x] # SlotOf[y]
      BY <2>1, <2>2 DEF Occupants
  <2> QED BY <1>2, <2>2, <2>3 DEF SlotUnique, Publish, Option
<1> QED BY <1>1, <1>2, FewerStep

(* What another task holds is not disturbed: only the holder publishes.    *)
LEMMA HolderAlone ==
    ASSUME TypeOK, TaskShape, Mutex, VdbShape, Next,
           NEW u \in Tasks, Holding(u)
    PROVE  Fewer \/ Publish(u)
<1>1. ASSUME NEW t \in Tasks, Publish(t) PROVE t = u
  <2>1. Holding(t)
      BY <1>1 DEF TaskShape, Shaped, Publish, Holding, At, Removing
  <2> QED BY <2>1, OneHolder
<1> QED BY <1>1, FewerStep

LEMMA SlotHeldStep ==
    ASSUME TypeOK, TaskShape, Mutex, VdbShape, SlotUnique, SlotHeld, Next PROVE SlotHeld'
<1>1. \A t \in Tasks : SlotKept(t)
    BY DEF SlotHeld
<1>2. ASSUME NEW t \in Tasks, task'[t] = task[t] PROVE SlotKept(t)'
  <2>1. CASE ~Holding(t) \/ task[t].new = {}
      BY <1>2, <2>1 DEF TaskShape, Shaped, SlotKept, Holding, Merging, Removing
  <2>2. CASE Fewer
      BY <1>1, <1>2, <2>2 DEF Fewer, SlotKept, Occupants
  <2>3. CASE Publish(t)
      BY <1>2, <2>3 DEF TypeOK, Task, Publish, At
  <2> QED BY <1>2, <2>1, <2>2, <2>3, HolderAlone
<1>3. ASSUME NEW t \in Tasks, task'[t].pc \in {"idle", "gate", "lock"} PROVE SlotKept(t)'
    BY <1>3 DEF SlotKept, Merging, Removing
<1>4. ASSUME NEW t \in Tasks, Begins(t) \/ Ends(t) PROVE SlotHeld'
  <2>1. SlotKept(t)'
      BY <1>3, <1>4, BeginEffect, EndEffect DEF TypeOK, Idle, At, SlotKept
  <2> QED BY <1>2, <1>4, <2>1, BeginEffect, EndEffect DEF TypeOK, SlotHeld
<1>5. ASSUME NEW t \in Tasks, TakeGate(t) \/ TakeLock(t) PROVE SlotHeld'
  <2>1. SlotKept(t)'
      BY <1>5 DEF TypeOK, Task, TakeGate, TakeLock, Goto, SlotKept, Merging, Removing
  <2>2. \A u \in Tasks \ {t} : task'[u] = task[u]
      BY <1>5 DEF TypeOK, TakeGate, TakeLock, Goto
  <2> QED BY <1>2, <2>1, <2>2 DEF SlotHeld
<1>6. ASSUME NEW t \in Tasks, Works(t) PROVE SlotHeld'
  <2>1. SlotKept(t)'
    <3>1. CASE FindOccupant(t)
      <4>1. UNCHANGED vdb /\ task'[t].new = task[t].new /\ task'[t].pc = "index"
          BY <1>6, <3>1, WorkEffect DEF TypeOK, Task, FindOccupant, Goto, Occupants
      <4>2. PICK x \in task[t].new :
                \/ Occupants(x) = {}
                \/ \E y \in Occupants(x) :
                       task' = [task EXCEPT ![t].pc = "index", ![t].victim = {y}]
          BY <3>1 DEF FindOccupant
      <4>3. \A y \in Occupants(x) : Occupants(x) \subseteq {y}
          BY DEF TypeOK, Occupants, SlotUnique
      <4>4. Occupants(x) \subseteq task'[t].victim
          BY <4>2, <4>3 DEF TypeOK, Task
      <4>5. task[t].new = {x}
          BY <4>2 DEF TypeOK, Task, Option
      <4> QED BY <4>1, <4>4, <4>5 DEF SlotKept, Occupants, vdb
    <3>2. CASE TakeOrBuild(t) \/ StampIndex(t) \/ CheckCollisions(t) \/ RefreshIndex(t)
               \/ ReadContents(t)
      <4>1. UNCHANGED vdb /\ task'[t].new = task[t].new /\ task'[t].victim = task[t].victim
            /\ \/ task'[t].pc \in Merging /\ task[t].pc \in Merging
               \/ task'[t].pc \in {"refused", "postinst"}
        <5>1. CASE TakeOrBuild(t)
            BY <5>1 DEF TypeOK, Task, TakeOrBuild, Goto, At, Merging
        <5>2. CASE StampIndex(t) \/ CheckCollisions(t) \/ RefreshIndex(t) \/ ReadContents(t)
            BY <5>2 DEF TypeOK, Task, StampIndex, CheckCollisions, RefreshIndex, ReadContents,
                        Goto, At, Merging, Removing
        <5> QED BY <3>2, <5>1, <5>2
      <4> QED BY <1>1, <4>1 DEF SlotKept, Occupants, vdb, Merging, Removing
    <3>3. CASE WriteFiles(t)
      <4>1. UNCHANGED vdb /\ task'[t].new = task[t].new /\ task'[t].victim = task[t].victim
            /\ task[t].pc \in Merging
            /\ task'[t].pc = (IF task[t].victim = {} THEN "register" ELSE "read")
          BY <3>3 DEF TypeOK, Task, WriteFiles, Goto, At, Merging, vdb
      <4> QED BY <1>1, <4>1 DEF SlotKept, Occupants, vdb, Merging, Removing
    <3>4. CASE RemoveFiles(t) \/ RemoveFields(t)
      <4>1. dirs' \subseteq dirs /\ slotted' \subseteq slotted
            /\ task'[t].new = task[t].new /\ task'[t].victim = task[t].victim
            /\ task[t].pc \in Merging /\ task'[t].pc \in Removing
          BY <3>4 DEF TypeOK, Task, RemoveFiles, RemoveFields, Goto, At, Merging, Removing, vdb
      <4> QED BY <1>1, <4>1 DEF SlotKept, Occupants, Merging, Removing
    <3>5. CASE RemoveDir(t)
      <4>1. dirs' = dirs \ task[t].victim /\ slotted' \subseteq slotted
            /\ task'[t].new = task[t].new
            /\ task[t].pc \in Merging /\ task'[t].pc \in {"removed", "register"}
          BY <3>5 DEF TypeOK, Task, RemoveDir, At, Merging, Removing
      <4> QED BY <1>1, <4>1 DEF SlotKept, Occupants, Merging, Removing
    <3>6. CASE Displace(t) \/ Publish(t)
      <4>1. \/ task'[t].pc = "refresh"
            \/ /\ task' = task /\ dirs' \subseteq dirs /\ slotted' \subseteq slotted
               /\ task[t].pc = "register"
          BY <3>6 DEF TypeOK, Task, Displace, Publish, At
      <4> QED BY <1>1, <4>1 DEF SlotKept, Occupants, Merging, Removing
    <3> QED BY <1>6, <3>1, <3>2, <3>3, <3>4, <3>5, <3>6 DEF Works
  <2> QED BY <1>2, <1>6, <2>1, WorkEffect DEF SlotHeld
<1>7. ASSUME NEW p \in Procs, Die(p) PROVE SlotHeld'
  <2>1. \A t \in Tasks : task'[t] = task[t] \/ task'[t].pc = "idle"
      BY <1>7, DieEffect DEF Idle
  <2> QED BY <1>2, <1>3, <2>1 DEF SlotHeld
<1> QED BY <1>4, <1>5, <1>6, <1>7, StepParts

-----------------------------------------------------------------------------
(* Paths, and the index that merges are checked against.                   *)

LEMMA NoSharedPathsStep ==
    ASSUME TypeOK, VdbShape, NoSharedPaths, ImageFree, Next PROVE NoSharedPaths'
<1>1. CASE Fewer
    BY <1>1 DEF TypeOK, Fewer, NoSharedPaths
<1>2. ASSUME NEW t \in Tasks, Publish(t) PROVE NoSharedPaths'
  <2>1. \A x \in task[t].new, y \in Packages : contents[y] \cap task[t].image = {}
      BY <1>2 DEF ImageFree, ImageClear, Publish, At
  <2>2. task[t].new \in Option(Packages) /\ listing \subseteq Packages
      BY DEF TypeOK, Task
  <2> QED BY <1>2, <2>1, <2>2 DEF NoSharedPaths, Publish, Option
<1> QED BY <1>1, <1>2, FewerStep

LEMMA ImageFreeStep ==
    ASSUME TypeOK, TaskShape, Mutex, VdbShape, ImageFree, IndexAhead, Next
    PROVE  ImageFree'
<1>1. \A t \in Tasks : ImageClear(t)
    BY DEF ImageFree
<1>2. ASSUME NEW t \in Tasks, task'[t] = task[t] PROVE ImageClear(t)'
  <2>1. CASE ~Holding(t) \/ task[t].new = {}
      BY <1>2, <2>1 DEF TaskShape, Shaped, ImageClear, Holding, Removing
  <2>2. CASE Fewer
    <3>1. \A x \in Packages : contents'[x] \subseteq contents[x]
        BY <2>2 DEF Fewer
    <3> QED BY <1>1, <1>2, <3>1 DEF ImageClear
  <2>3. CASE Publish(t)
      BY <1>2, <2>3 DEF TypeOK, Task, Publish, At
  <2> QED BY <1>2, <2>1, <2>2, <2>3, HolderAlone
<1>3. ASSUME NEW t \in Tasks, task'[t].pc \in {"idle", "gate", "lock"} \/ task'[t].new = {}
      PROVE  ImageClear(t)'
    BY <1>3 DEF ImageClear, Removing
<1>4. ASSUME NEW t \in Tasks, Begins(t) \/ Ends(t) PROVE ImageFree'
  <2>1. ImageClear(t)'
      BY <1>3, <1>4, BeginEffect, EndEffect DEF TypeOK, Idle, At
  <2> QED BY <1>2, <1>4, <2>1, BeginEffect, EndEffect DEF TypeOK, ImageFree
<1>5. ASSUME NEW t \in Tasks, TakeGate(t) \/ TakeLock(t) PROVE ImageFree'
  <2>1. ImageClear(t)'
      BY <1>5 DEF TypeOK, Task, TakeGate, TakeLock, Goto, ImageClear, Removing
  <2>2. \A u \in Tasks \ {t} : task'[u] = task[u]
      BY <1>5 DEF TypeOK, TakeGate, TakeLock, Goto
  <2> QED BY <1>2, <2>1, <2>2 DEF ImageFree
<1>6. ASSUME NEW t \in Tasks, Works(t) PROVE ImageFree'
  <2>1. ImageClear(t)'
    <3>1. CASE FindOccupant(t) \/ TakeOrBuild(t) \/ StampIndex(t) \/ RefreshIndex(t)
      <4>1. task'[t].pc \in {"index", "stamp", "check", "postinst"}
        <5>1. CASE FindOccupant(t)
            BY <5>1 DEF TypeOK, Task, FindOccupant, Goto, Occupants
        <5>2. CASE TakeOrBuild(t)
            BY <5>2 DEF TypeOK, Task, TakeOrBuild, Goto
        <5>3. CASE StampIndex(t) \/ RefreshIndex(t)
            BY <5>3 DEF TypeOK, Task, StampIndex, RefreshIndex
        <5> QED BY <3>1, <5>1, <5>2, <5>3
      <4> QED BY <4>1 DEF ImageClear, Removing
    <3>2. CASE CheckCollisions(t)
      <4>1. CASE Collides(t)
          BY <3>2, <4>1 DEF TypeOK, Task, CheckCollisions, Goto, ImageClear, Removing
      <4>2. CASE ~Collides(t)
        <5>1. \A y \in Packages \ task[t].victim : contents[y] \cap task[t].image = {}
          <6>1. CASE task[t].idx = {}
              BY <4>2, <6>1 DEF Collides, KnownOwner
          <6>2. CASE task[t].idx # {}
              BY <4>2, <6>2 DEF Collides, KnownOwner, IndexAhead, AtHand, Ahead
          <6> QED BY <6>1, <6>2
        <5>2. contents' = contents /\ task'[t].victim = task[t].victim
              /\ task'[t].image = task[t].image /\ task'[t].pc = "write"
            BY <3>2, <4>2 DEF TypeOK, Task, CheckCollisions, Goto, vdb
        <5> QED BY <5>1, <5>2 DEF ImageClear
      <4> QED BY <4>1, <4>2
    <3>3. CASE ReadContents(t) \/ RemoveFiles(t) \/ RemoveFields(t) \/ WriteFiles(t)
      <4>1. \A x \in Packages : contents'[x] \subseteq contents[x]
          BY <3>3 DEF ReadContents, RemoveFiles, RemoveFields, WriteFiles, vdb
      <4>2. task'[t].victim = task[t].victim /\ task[t].pc \in {"write"} \cup Removing
            /\ (\/ task'[t].pc \in Removing
                \/ task'[t].pc = "register" /\ task[t].victim = {})
        <5>1. CASE ReadContents(t)
            BY <5>1 DEF TypeOK, Task, ReadContents, At, Removing
        <5>2. CASE RemoveFiles(t) \/ RemoveFields(t)
            BY <5>2 DEF TypeOK, Task, RemoveFiles, RemoveFields, Goto, At, Removing
        <5>3. CASE WriteFiles(t)
            BY <5>3 DEF TypeOK, Task, WriteFiles, Goto, At, Removing
        <5> QED BY <3>3, <5>1, <5>2, <5>3
      <4> QED BY <1>1, <1>6, <4>1, <4>2, WorkEffect DEF ImageClear, Removing
    <3>4. CASE RemoveDir(t)
      <4>1. \A x \in Packages : contents'[x] = {} \/ (x \notin task[t].victim /\ contents'[x] = contents[x])
          BY <3>4 DEF RemoveDir
      <4>2. task[t].pc \in Removing /\ task'[t].pc \in {"removed", "register"}
          BY <3>4 DEF TypeOK, Task, RemoveDir, At, Removing
      <4> QED BY <1>1, <1>6, <4>1, <4>2, WorkEffect DEF ImageClear, Removing
    <3>5. CASE Displace(t) \/ Publish(t)
      <4>1. \/ task'[t].pc = "refresh"
            \/ task' = task /\ \A x \in Packages : contents'[x] \subseteq contents[x]
          BY <3>5 DEF TypeOK, Task, Displace, Publish
      <4> QED BY <1>1, <4>1 DEF ImageClear, Removing
    <3> QED BY <1>6, <3>1, <3>2, <3>3, <3>4, <3>5 DEF Works
  <2> QED BY <1>2, <1>6, <2>1, WorkEffect DEF ImageFree
<1>7. ASSUME NEW p \in Procs, Die(p) PROVE ImageFree'
  <2>1. \A t \in Tasks : task'[t] = task[t] \/ task'[t].pc = "idle"
      BY <1>7, DieEffect DEF Idle
  <2> QED BY <1>2, <1>3, <2>1 DEF ImageFree
<1> QED BY <1>4, <1>5, <1>6, <1>7, StepParts

LEMMA IndexAheadStep ==
    ASSUME TypeOK, TaskShape, Mutex, VdbShape, IndexAhead, Next, TypeOK' PROVE IndexAhead'
<1>1. ASSUME Fewer, NEW i, AtHand(i) PROVE AtHand(i)'
    BY <1>1 DEF Fewer, AtHand, Ahead
<1>2. ASSUME Fewer, NEW i, Kept(i) PROVE Kept(i)'
    BY <1>2 DEF Fewer, Kept, Ahead
<1>3. \A i : AtHand(i) => Kept(i)
    BY DEF AtHand, Kept
<1>4. ASSUME NEW t \in Tasks, task'[t] = task[t] PROVE \A i \in task'[t].idx : AtHand(i)'
  <2>1. CASE task[t].idx = {}
      BY <1>4, <2>1
  <2>2. CASE Fewer
      BY <1>1, <1>4, <2>2 DEF IndexAhead
  <2>3. CASE Publish(t)
      BY <1>4, <2>3 DEF TypeOK, Task, Publish, At
  <2> QED BY <1>4, <2>1, <2>2, <2>3, HolderAlone DEF TaskShape, Shaped
<1>5. ASSUME NEW t \in Tasks, Begins(t) PROVE IndexAhead'
  <2>1. Fewer
      BY <1>5, BeginEffect, SameVdb
  <2> QED BY <1>2, <1>4, <1>5, <2>1, BeginEffect DEF IndexAhead
<1>6. ASSUME NEW t \in Tasks, Ends(t) PROVE IndexAhead'
  <2>1. Fewer
      BY <1>6, EndEffect, SameVdb
  <2>2. \A u \in Tasks : task'[u] = task[u] \/ task'[u].idx = {}
      BY <1>6, EndEffect DEF TypeOK, Idle
  <2>3. \A p \in Procs : \A i \in index'[p] : Kept(i)
      BY <1>3, <1>6, EndEffect DEF IndexAhead
  <2> QED BY <1>2, <1>4, <2>1, <2>2, <2>3 DEF IndexAhead
<1>7. ASSUME NEW t \in Tasks, TakeGate(t) \/ TakeLock(t) PROVE IndexAhead'
  <2>1. Fewer
      BY <1>7, SameVdb DEF TakeGate, TakeLock
  <2>2. \A u \in Tasks : task'[u].idx = task[u].idx
      BY <1>7 DEF TypeOK, Task, TakeGate, TakeLock, Goto
  <2>3. index' = index
      BY <1>7 DEF TakeGate, TakeLock
  <2> QED BY <1>1, <1>2, <2>1, <2>2, <2>3 DEF IndexAhead
<1>8. ASSUME NEW t \in Tasks, Works(t) PROVE IndexAhead'
  <2>1. \A p \in Procs : \A i \in index'[p] : Kept(i)'
    <3>1. CASE Fewer
        BY <1>2, <1>8, <3>1, WorkEffect DEF IndexAhead
    <3>2. ASSUME NEW u \in Tasks, Publish(u) PROVE \A p \in Procs : \A i \in index'[p] : Kept(i)'
      <4>1. counter' = counter + 1 /\ index' = index /\ counter \in Nat
          BY <3>2 DEF TypeOK, Publish
      <4>2. \A p \in Procs : \A i \in index[p] : i.stamp.counter <= counter /\ i.stamp.counter \in Nat
          BY DEF TypeOK, Option, Index, IndexAhead, Kept
      <4> QED BY <4>1, <4>2 DEF Kept
    <3> QED BY <3>1, <3>2, FewerStep
  <2>2. \A i \in task'[t].idx : AtHand(i)'
    <3>0. \A i \in task[t].idx : AtHand(i)
        BY DEF IndexAhead
    <3>1. CASE FindOccupant(t) \/ CheckCollisions(t) \/ ReadContents(t) \/ WriteFiles(t)
               \/ RemoveFiles(t) \/ RemoveFields(t) \/ Displace(t)
      <4>1. task'[t].idx = task[t].idx
        <5>1. CASE FindOccupant(t)
            BY <5>1 DEF TypeOK, Task, FindOccupant, Goto, Occupants
        <5> QED BY <3>1, <5>1 DEF TypeOK, Task, CheckCollisions, ReadContents, WriteFiles,
                                  RemoveFiles, RemoveFields, Displace, Goto
      <4>2. Fewer
        <5>1. CASE UNCHANGED <<vdb, counter>>
            BY <5>1, SameVdb
        <5>2. CASE RemoveFields(t) \/ Displace(t)
            BY <5>2 DEF RemoveFields, Displace, Fewer
        <5> QED BY <3>1, <5>1, <5>2 DEF FindOccupant, CheckCollisions, ReadContents, WriteFiles,
                                        RemoveFiles
      <4> QED BY <1>1, <3>0, <4>1, <4>2
    <3>2. CASE TakeOrBuild(t)
      <4>1. Fewer /\ UNCHANGED <<vdb, counter>>
          BY <3>2, SameVdb DEF TakeOrBuild
      <4>2. CASE Goto(t, "check")
          BY <1>1, <3>0, <4>1, <4>2 DEF TypeOK, Task, Goto
      <4>3. CASE /\ \E i \in index[ProcOf[t]] : Current(i)
                 /\ task' = [task EXCEPT ![t].pc = "check", ![t].idx = index[ProcOf[t]]]
        <5>1. task'[t].idx = index[ProcOf[t]]
            BY <4>3 DEF TypeOK, Task
        <5>2. index[ProcOf[t]] \in Option(Index) /\ ProcOf[t] \in Procs
            BY QMergeAssumption DEF TypeOK
        <5>3. \A i \in index[ProcOf[t]] : i.stamp.counter = counter
            BY <4>3, <5>2 DEF Option, Current, Stamp
        <5>4. \A i \in index[ProcOf[t]] : AtHand(i)
            BY <5>2, <5>3 DEF IndexAhead, Kept, AtHand
        <5> QED BY <1>1, <4>1, <5>1, <5>4
      <4>4. CASE task' = [task EXCEPT ![t].pc = "stamp",
                                      ![t].idx = {[owners |-> contents, stamp |-> Stamp]}]
        <5>1. task'[t].idx = {[owners |-> contents, stamp |-> Stamp]}
            BY <4>4 DEF TypeOK, Task
        <5>2. AtHand([owners |-> contents, stamp |-> Stamp])
            BY DEF TypeOK, AtHand, Ahead, Stamp
        <5> QED BY <1>1, <4>1, <5>1, <5>2
      <4> QED BY <3>2, <4>2, <4>3, <4>4 DEF TakeOrBuild
    <3>3. CASE StampIndex(t) \/ RefreshIndex(t)
      <4>1. Fewer
          BY <3>3, SameVdb DEF StampIndex, RefreshIndex
      <4>2. task'[t].idx = Restamped(t) /\ task[t].idx \subseteq Index
          BY <3>3 DEF TypeOK, Task, Option, StampIndex, RefreshIndex
      <4>3. \A i \in task[t].idx : AtHand([i EXCEPT !.stamp = Stamp])
          BY <3>0, <4>2 DEF TypeOK, Index, AtHand, Ahead, Stamp
      <4>4. \A i \in Restamped(t) : AtHand(i)
          BY <4>3 DEF Restamped
      <4> QED BY <1>1, <4>1, <4>2, <4>4
    <3>4. CASE RemoveDir(t)
      <4>1. task'[t].idx = {[i EXCEPT !.owners = [x \in Packages |-> IF x \in task[t].victim
                                                             THEN {} ELSE @[x]]] :
                             i \in task[t].idx} /\ task[t].idx \subseteq Index
        <5> DEFINE o == {[i EXCEPT !.owners = [x \in Packages |-> IF x \in task[t].victim
                                                             THEN {} ELSE @[x]]] :
                         i \in task[t].idx}
                   pc == IF task[t].new = {} THEN "removed" ELSE "register"
        <5>1. task' = [task EXCEPT ![t].pc = pc, ![t].idx = o]
            BY <3>4 DEF RemoveDir
        <5> HIDE DEF o, pc
        <5>2. task'[t].idx = o
            BY <5>1 DEF TypeOK, Task
        <5> QED BY <5>2 DEF TypeOK, Task, Option, o
      <4>2. \A x \in Packages : contents'[x] = {} \/ (x \notin task[t].victim /\ contents'[x] = contents[x])
          BY <3>4 DEF RemoveDir
      <4>3. counter' = counter
          BY <3>4 DEF RemoveDir
      <4>4. ASSUME NEW j \in task'[t].idx PROVE AtHand(j)'
        <5>1. PICK i \in task[t].idx :
                  j = [i EXCEPT !.owners = [x \in Packages |-> IF x \in task[t].victim
                                                               THEN {} ELSE @[x]]]
            BY <4>1
        <5>2. /\ AtHand(i) /\ i \in Index /\ j.stamp = i.stamp
              /\ \A x \in Packages : j.owners[x] = IF x \in task[t].victim THEN {}
                                                                   ELSE i.owners[x]
            BY <3>0, <4>1, <5>1 DEF Index, SomeOwned
        <5> QED BY <4>2, <4>3, <5>2 DEF Index, AtHand, Ahead
      <4> QED BY <4>4
    <3>5. CASE Publish(t)
      <4>1. task'[t].idx = {[i EXCEPT !.owners = [x \in Packages |-> IF x \in task[t].new
                                                             THEN task[t].image ELSE @[x]]] :
                             i \in task[t].idx} /\ task[t].idx \subseteq Index
        <5> DEFINE o == {[i EXCEPT !.owners = [x \in Packages |-> IF x \in task[t].new
                                                             THEN task[t].image ELSE @[x]]] :
                         i \in task[t].idx}
                   pc == "refresh"
        <5>1. task' = [task EXCEPT ![t].pc = pc, ![t].idx = o]
            BY <3>5 DEF Publish
        <5> HIDE DEF o, pc
        <5>2. task'[t].idx = o
            BY <5>1 DEF TypeOK, Task
        <5> QED BY <5>2 DEF TypeOK, Task, Option, o
      <4>2. contents' = [x \in Packages |-> IF x \in task[t].new THEN task[t].image
                                                                 ELSE contents[x]]
          BY <3>5 DEF Publish
      <4>3. counter' = counter + 1 /\ counter \in Nat
          BY <3>5 DEF TypeOK, Publish
      <4>4. ASSUME NEW j \in task'[t].idx PROVE AtHand(j)'
        <5>1. PICK i \in task[t].idx :
                  j = [i EXCEPT !.owners = [x \in Packages |-> IF x \in task[t].new
                                                               THEN task[t].image ELSE @[x]]]
            BY <4>1
        <5>2. /\ AtHand(i) /\ i \in Index /\ j.stamp = i.stamp
              /\ \A x \in Packages : j.owners[x] = IF x \in task[t].new THEN task[t].image
                                                                   ELSE i.owners[x]
            BY <3>0, <4>1, <5>1 DEF Index, SomeOwned
        <5> QED BY <4>2, <4>3, <5>2 DEF Index, AtHand, Ahead
      <4> QED BY <4>4
    <3> QED BY <1>8, <3>1, <3>2, <3>3, <3>4, <3>5 DEF Works
  <2> QED BY <1>4, <1>8, <2>1, <2>2, WorkEffect DEF IndexAhead
<1>9. ASSUME NEW p \in Procs, Die(p) PROVE IndexAhead'
  <2>1. Fewer
      BY <1>9, DieEffect, SameVdb
  <2>2. \A t \in Tasks : task'[t] = task[t] \/ task'[t].idx = {}
      BY <1>9, DieEffect DEF Idle
  <2> QED BY <1>2, <1>4, <1>9, <2>1, <2>2, DieEffect DEF IndexAhead
<1> QED BY <1>5, <1>6, <1>7, <1>8, <1>9, StepParts

-----------------------------------------------------------------------------
(* The disk, as long as nobody removes by hand.                            *)

LEMMA CountsGrow ==
    ASSUME TypeOK, Next
    PROVE  (removals' = 0 => removals = 0) /\ (Undisturbed' => Undisturbed)
<1>1. ASSUME NEW t \in Tasks, Begins(t) \/ Ends(t)
      PROVE  removals' \in {removals, removals + 1} /\ faults' \in {faults, faults + 1}
    BY <1>1, EndEffect
       DEF Begins, BeginMerge, BeginUnmerge, BeginRemoval
<1>2. ASSUME NEW t \in Tasks, TakeGate(t) \/ TakeLock(t) \/ Works(t)
      PROVE  UNCHANGED <<removals, faults>>
    BY <1>2, WorkEffect DEF TakeGate, TakeLock, count
<1>3. ASSUME NEW p \in Procs, Die(p) PROVE removals' = removals /\ faults' = faults + 1
    BY <1>3, DieEffect
<1>4. removals' \in {removals, removals + 1} /\ faults' \in {faults, faults + 1}
    BY <1>1, <1>2, <1>3, StepParts
<1> QED BY <1>4 DEF TypeOK, Undisturbed

(* Then every task past its locks is the holder.                           *)
LEMMA BusyHolds ==
    ASSUME TaskShape, removals = 0, NEW t \in Tasks, task[t].pc \notin {"idle", "gate", "lock"}
    PROVE  Holding(t)
    BY DEF TaskShape, Shaped, Holding

(* A step that leaves the holder where it is removes no file, and adds     *)
(* none unless something failed.                                           *)
LEMMA HolderDisk ==
    ASSUME TypeOK, TaskShape, Mutex, Next, removals = 0,
           NEW u \in Tasks, Holding(u), task'[u] = task[u]
    PROVE  disk \subseteq disk' /\ (Undisturbed' => disk' = disk)
<1>1. ASSUME NEW t \in Tasks, Begins(t) \/ Looks(t) PROVE disk' = disk
    BY <1>1, BeginEffect, LookEffect
<1>2. ASSUME NEW t \in Tasks, WriteFiles(t) \/ RemoveFiles(t) PROVE FALSE
  <2>1. Holding(t)
      BY <1>2, BusyHolds DEF WriteFiles, RemoveFiles, At
  <2>2. t = u
      BY <2>1, OneHolder
  <2>3. task'[t].pc # task[t].pc
      BY <1>2 DEF TypeOK, Task, WriteFiles, RemoveFiles, Goto, At
  <2> QED BY <2>2, <2>3
<1>3. ASSUME NEW t \in Tasks, RemoveFields(t) \/ RemoveDir(t) \/ Displace(t) \/ Publish(t)
      PROVE  disk' = disk
    BY <1>3 DEF RemoveFields, RemoveDir, Displace, Publish
<1>4. ASSUME NEW t \in Tasks, Ends(t) PROVE disk \subseteq disk' /\ (Undisturbed' => disk' = disk)
  <2>1. CASE WriteFails(t)
      BY <1>4, <2>1, EndEffect DEF TypeOK, WriteFails, Fault, Undisturbed
  <2>2. CASE ~WriteFails(t)
      BY <1>4, <2>2 DEF Ends, Refuse, NoContents, NoDirectory, EndUnmerge, EndMerge, Fails
  <2> QED BY <2>1, <2>2
<1>5. ASSUME NEW p \in Procs, Die(p) PROVE disk \subseteq disk' /\ ~Undisturbed'
  <2>1. ASSUME NEW t \in Tasks, ProcOf[t] = p, At(t, "remove") PROVE FALSE
    <3>1. Holding(t)
        BY <2>1, BusyHolds DEF At
    <3>2. t = u
        BY <3>1, OneHolder
    <3>3. task'[t] = Idle
        BY <1>5, <2>1, DieEffect
    <3> QED BY <2>1, <3>2, <3>3 DEF Idle, At
  <2>2. {u1 \in TasksOf(p) : At(u1, "remove")} = {}
      BY <2>1 DEF TasksOf
  <2>3. disk \subseteq disk'
      BY <1>5, <2>2 DEF Die
  <2>4. ~Undisturbed'
      BY <1>5, DieEffect DEF TypeOK, Undisturbed
  <2> QED BY <2>3, <2>4
<1> QED BY <1>1, <1>2, <1>3, <1>4, <1>5, StepKinds

LEMMA OwnedOnDiskStep ==
    ASSUME TypeOK, VdbShape, OwnedOnDisk, DiskHeld, Next PROVE OwnedOnDisk'
<1> SUFFICES ASSUME removals' = 0, NEW x \in dirs' \ gnawed' PROVE contents'[x] \subseteq disk'
    BY DEF OwnedOnDisk
<1>1. removals = 0 /\ \A y \in dirs \ gnawed : contents[y] \subseteq disk
    BY CountsGrow DEF OwnedOnDisk
<1>2. ASSUME NEW t \in Tasks, Begins(t) \/ Ends(t) \/ Looks(t) \/ WriteFiles(t)
      PROVE  contents'[x] \subseteq disk'
  <2>1. UNCHANGED <<vdb, gnawed>> /\ disk \subseteq disk'
    <3>1. CASE Begins(t)
        BY <3>1, BeginEffect
    <3>2. CASE Ends(t)
        BY <3>2, EndEffect
    <3>3. CASE Looks(t) \/ WriteFiles(t)
        BY <3>3, LookEffect DEF WriteFiles
    <3> QED BY <1>2, <3>1, <3>2, <3>3
  <2> QED BY <1>1, <2>1 DEF vdb
<1>3. ASSUME NEW t \in Tasks, RemoveFiles(t) PROVE contents'[x] \subseteq disk'
  <2>1. x \in dirs \ gnawed /\ x \notin task[t].victim /\ x \in Packages
        /\ contents' = contents /\ disk' = disk \ (task[t].listed \ task[t].image)
      BY <1>3 DEF TypeOK, RemoveFiles, vdb
  <2>2. contents[x] \cap task[t].listed = {}
      BY <1>1, <1>3, <2>1 DEF DiskHeld, DiskSafe, RemoveFiles, At
  <2> QED BY <1>1, <2>1, <2>2
<1>4. ASSUME NEW t \in Tasks, RemoveFields(t) \/ RemoveDir(t) \/ Displace(t)
      PROVE  contents'[x] \subseteq disk'
  <2>1. Fewer /\ UNCHANGED <<disk, gnawed>>
      BY <1>4 DEF Fewer, RemoveFields, RemoveDir, Displace
  <2> QED BY <1>1, <2>1 DEF TypeOK, Fewer
<1>5. ASSUME NEW t \in Tasks, Publish(t) PROVE contents'[x] \subseteq disk'
  <2>1. task[t].image \subseteq disk /\ task[t].new \subseteq Packages
      BY <1>1, <1>5 DEF TypeOK, Task, Option, DiskHeld, DiskSafe, Publish, At
  <2> QED BY <1>1, <1>5, <2>1 DEF TypeOK, Publish
<1>6. ASSUME NEW p \in Procs, Die(p) PROVE contents'[x] \subseteq disk'
  <2>1. x \in dirs \ gnawed /\ x \in Packages /\ contents' = contents
        /\ \A t \in TasksOf(p) : At(t, "remove") => x \notin task[t].victim
      BY <1>6 DEF TypeOK, Die, vdb
  <2>2. \A t \in TasksOf(p) : At(t, "remove") => contents[x] \cap task[t].listed = {}
      BY <1>1, <2>1 DEF DiskHeld, DiskSafe, TasksOf, At
  <2>3. contents[x] \cap UNION {task[t].listed \ task[t].image :
                                t \in {u \in TasksOf(p) : At(u, "remove")}} = {}
      BY <2>2
  <2>4. \E part, gone : /\ gone \subseteq UNION {task[t].listed \ task[t].image :
                                t \in {u \in TasksOf(p) : At(u, "remove")}}
                        /\ disk' = (disk \cup part) \ gone
      BY <1>6 DEF Die
  <2> QED BY <1>1, <2>1, <2>3, <2>4
<1> QED BY <1>2, <1>3, <1>4, <1>5, <1>6, StepKinds

LEMMA DiskHeldStep ==
    ASSUME TypeOK, TaskShape, Mutex, VdbShape, NoSharedPaths, DiskHeld, Next PROVE DiskHeld'
<1> SUFFICES ASSUME removals' = 0 PROVE \A t \in Tasks : DiskSafe(t)'
    BY DEF DiskHeld
<1>1. removals = 0 /\ \A t \in Tasks : DiskSafe(t)
    BY CountsGrow DEF DiskHeld
<1>2. ASSUME NEW t \in Tasks, task'[t] = task[t] PROVE DiskSafe(t)'
  <2>1. CASE ~Holding(t)
      BY <1>1, <1>2, <2>1, BusyHolds DEF DiskSafe, Removing
  <2>2. CASE Holding(t)
    <3>1. disk \subseteq disk'
        BY <1>1, <1>2, <2>2, HolderDisk
    <3>2. CASE Fewer
      <4>1. \A x \in Packages : contents'[x] \subseteq contents[x]
          BY <3>2 DEF Fewer
      <4> QED BY <1>1, <1>2, <3>1, <4>1 DEF DiskSafe
    <3>3. CASE Publish(t)
        BY <1>2, <3>3 DEF TypeOK, Task, Publish, At
    <3> QED BY <2>2, <3>2, <3>3, HolderAlone
  <2> QED BY <2>1, <2>2
<1>3. ASSUME NEW t \in Tasks, task'[t].pc \notin {"register"} \cup Removing PROVE DiskSafe(t)'
    BY <1>3 DEF DiskSafe, Removing
<1>4. ASSUME NEW t \in Tasks, Begins(t) \/ Ends(t) PROVE \A u \in Tasks : DiskSafe(u)'
  <2>1. DiskSafe(t)'
    <3>1. task'[t].pc \in {"gate", "idle"}
        BY <1>1, <1>4, BeginEffect, EndEffect DEF TypeOK, Idle, At
    <3> QED BY <1>3, <3>1 DEF Removing
  <2> QED BY <1>2, <1>4, <2>1, BeginEffect, EndEffect DEF TypeOK
<1>5. ASSUME NEW t \in Tasks, TakeGate(t) \/ TakeLock(t) PROVE \A u \in Tasks : DiskSafe(u)'
  <2>1. CASE task'[t].pc = "read"
    <3>1. task'[t].image = {}
        BY <1>5, <2>1 DEF TypeOK, Task, TaskShape, Shaped, TakeGate, TakeLock, Goto
    <3> QED BY <1>2, <1>5, <2>1, <3>1 DEF TypeOK, DiskSafe, TakeGate, TakeLock, Goto
  <2>2. CASE task'[t].pc # "read"
    <3>1. task'[t].pc \in {"lock", "occupant"}
        BY <1>5, <2>2 DEF TypeOK, Task, TakeGate, TakeLock, Goto
    <3>2. DiskSafe(t)'
        BY <1>3, <3>1 DEF Removing
    <3> QED BY <1>2, <1>5, <3>2 DEF TypeOK, TakeGate, TakeLock, Goto
  <2> QED BY <2>1, <2>2
<1>6. ASSUME NEW t \in Tasks, Works(t) PROVE \A u \in Tasks : DiskSafe(u)'
  <2>1. DiskSafe(t)'
    <3>1. CASE FindOccupant(t) \/ TakeOrBuild(t) \/ StampIndex(t) \/ CheckCollisions(t)
               \/ RefreshIndex(t)
      <4>1. task'[t].pc \in {"index", "stamp", "check", "refused", "write", "postinst"}
        <5>1. CASE FindOccupant(t)
            BY <5>1 DEF TypeOK, Task, FindOccupant, Goto, Occupants
        <5>2. CASE TakeOrBuild(t)
            BY <5>2 DEF TypeOK, Task, TakeOrBuild, Goto
        <5>3. CASE StampIndex(t) \/ CheckCollisions(t) \/ RefreshIndex(t)
            BY <5>3 DEF TypeOK, Task, StampIndex, CheckCollisions, RefreshIndex, Goto
        <5> QED BY <3>1, <5>1, <5>2, <5>3
      <4> QED BY <1>3, <4>1 DEF Removing
    <3>2. CASE WriteFiles(t)
        BY <3>2 DEF TypeOK, Task, WriteFiles, Goto, DiskSafe
    <3>3. CASE ReadContents(t)
      <4>1. PICK v \in task[t].victim :
                task' = [task EXCEPT ![t].pc = "remove", ![t].listed = contents[v]]
          BY <3>3 DEF ReadContents
      <4>2. task[t].victim = {v} /\ v \in listing /\ v \in Packages
          BY <3>3, <4>1 DEF TypeOK, Task, Option, ReadContents
      <4>3. \A y \in Packages \ {v} : contents[y] \cap contents[v] = {}
          BY <4>2 DEF NoSharedPaths, VdbShape
      <4>4. task'[t].listed = contents[v] /\ task'[t].victim = {v} /\ task'[t].image = task[t].image
          BY <4>1, <4>2 DEF TypeOK, Task
      <4>5. contents' = contents /\ disk' = disk /\ task[t].image \subseteq disk
          BY <1>1, <3>3 DEF ReadContents, vdb, DiskSafe, At, Removing
      <4> QED BY <4>3, <4>4, <4>5 DEF DiskSafe
    <3>4. CASE RemoveFiles(t)
      <4>1. task[t].image \subseteq disk'
          BY <1>1, <3>4 DEF DiskSafe, RemoveFiles, At, Removing
      <4> QED BY <3>4, <4>1 DEF TypeOK, Task, RemoveFiles, Goto, DiskSafe
    <3>5. CASE RemoveFields(t) \/ RemoveDir(t)
      <4>1. disk' = disk /\ task[t].image \subseteq disk
          BY <1>1, <3>5 DEF DiskSafe, RemoveFields, RemoveDir, At, Removing
      <4>2. task'[t].pc # "remove"
          BY <3>5 DEF TypeOK, Task, RemoveFields, RemoveDir, Goto
      <4> QED BY <1>6, <4>1, <4>2, WorkEffect DEF DiskSafe
    <3>6. CASE Displace(t)
        BY <1>2, <3>6 DEF Displace
    <3>7. CASE Publish(t)
      <4>1. task'[t].pc = "refresh"
          BY <3>7 DEF TypeOK, Task, Publish
      <4> QED BY <1>3, <4>1 DEF Removing
    <3> QED BY <1>6, <3>1, <3>2, <3>3, <3>4, <3>5, <3>6, <3>7 DEF Works
  <2> QED BY <1>2, <1>6, <2>1, WorkEffect
<1>7. ASSUME NEW p \in Procs, Die(p) PROVE \A t \in Tasks : DiskSafe(t)'
  <2>1. \A t \in Tasks : task'[t] = task[t] \/ task'[t].pc = "idle"
      BY <1>7, DieEffect DEF Idle
  <2> QED BY <1>2, <1>3, <2>1 DEF Removing
<1> QED BY <1>4, <1>5, <1>6, <1>7, StepParts

-----------------------------------------------------------------------------
(* Nothing has failed, nobody has died and nobody has removed by hand.     *)

LEMMA VictimsDirs ==
    ASSUME QuietVdb, Undisturbed, NEW t \in Tasks, task[t].pc \in {"remove", "unregister", "rmdir"}
    PROVE  task[t].victim \subseteq dirs
    BY DEF QuietVdb, VictimThere

(* The steps left then; those past the locks are the holder's.             *)
Leaves(t) == Refuse(t) \/ NoContents(t) \/ EndUnmerge(t) \/ EndMerge(t)

LEMMA QuietSteps ==
    ASSUME TypeOK, TaskShape, Mutex, VdbShape, SlotHeld, QuietVdb, Next, Undisturbed'
    PROVE  /\ Undisturbed
           /\ \E t \in Tasks : \/ BeginMerge(t) \/ BeginUnmerge(t) \/ TakeGate(t) \/ TakeLock(t)
                               \/ Holding(t) /\ Leaves(t)
                               \/ Holding(t) /\ Works(t) /\ ~Displace(t)
<1>1. Undisturbed
    BY CountsGrow
<1>2. ASSUME NEW t \in Tasks, BeginRemoval(t) PROVE FALSE
    BY <1>2 DEF TypeOK, BeginRemoval, Undisturbed
<1>3. ASSUME NEW t \in Tasks, WriteFails(t) \/ Fails(t) PROVE FALSE
    BY <1>3 DEF TypeOK, WriteFails, Fails, Fault, Undisturbed
<1>4. ASSUME NEW p \in Procs, Die(p) PROVE FALSE
    BY <1>4 DEF TypeOK, Die, Fault, Undisturbed
<1>5. ASSUME NEW t \in Tasks, NoDirectory(t) PROVE FALSE
    BY <1>1, <1>5, VictimsDirs DEF NoDirectory, At
<1>6. ASSUME NEW t \in Tasks, Leaves(t) \/ Works(t) PROVE Holding(t)
  <2>1. task[t].pc \notin {"idle", "gate", "lock"}
      BY <1>6, WorkEffect DEF Leaves, Refuse, NoContents, EndUnmerge, EndMerge, At, Past
  <2> QED BY <1>1, <2>1, BusyHolds DEF Undisturbed
<1>7. ASSUME NEW t \in Tasks, Displace(t) PROVE FALSE
  <2>1. PICK x \in task[t].new : x \in dirs
      BY <1>7 DEF Displace
  <2>2. x \notin slotted
      BY <1>7, <2>1 DEF SlotHeld, SlotKept, Occupants, Displace, At
  <2>3. PICK u \in Tasks : At(u, "rmdir")
      BY <1>1, <2>1, <2>2 DEF QuietVdb, Vanishing
  <2>4. Holding(t) /\ Holding(u)
      BY <1>1, <1>7, <2>3, BusyHolds DEF Displace, At, Undisturbed
  <2> QED BY <1>7, <2>3, <2>4, OneHolder DEF Displace, At
<1> QED BY <1>1, <1>2, <1>3, <1>4, <1>5, <1>6, <1>7, StepParts DEF Begins, Ends, Leaves

(* An entry being removed stays so until it is gone.                       *)
LEMMA VanishingStays ==
    ASSUME TypeOK, TaskShape, Mutex, VdbShape, SlotHeld, QuietVdb, Next, Undisturbed',
           NEW x, Vanishing(x)
    PROVE  x \notin dirs' \/ Vanishing(x)'
<1>1. PICK u \in Tasks : At(u, "rmdir") /\ x \in task[u].victim
    BY DEF Vanishing
<1>2. task'[u] = task[u] \/ RemoveDir(u)
  <2>1. ASSUME NEW t \in Tasks, BeginMerge(t) \/ BeginUnmerge(t) PROVE task'[u] = task[u]
      BY <1>1, <2>1, BeginEffect DEF Begins, At
  <2>2. ASSUME NEW t \in Tasks, TakeGate(t) \/ TakeLock(t) PROVE task'[u] = task[u]
      BY <1>1, <2>2 DEF TypeOK, TakeGate, TakeLock, Goto, At
  <2>3. ASSUME NEW t \in Tasks, Leaves(t) PROVE task'[u] = task[u]
      BY <1>1, <2>3 DEF TypeOK, Leaves, Refuse, NoContents, EndUnmerge, EndMerge, End, At
  <2>4. ASSUME NEW t \in Tasks, Works(t) PROVE task'[u] = task[u] \/ RemoveDir(u)
    <3>1. CASE t = u
        BY <1>1, <2>4, <3>1 DEF Works, FindOccupant, TakeOrBuild, StampIndex, CheckCollisions,
              ReadContents, RefreshIndex, WriteFiles, RemoveFiles, RemoveFields, Displace, Publish,
              At
    <3> QED BY <2>4, <3>1, WorkEffect
  <2> QED BY <2>1, <2>2, <2>3, <2>4, QuietSteps
<1>3. CASE task'[u] = task[u]
    BY <1>1, <1>3 DEF Vanishing, At
<1>4. CASE RemoveDir(u)
    BY <1>1, <1>4 DEF RemoveDir
<1> QED BY <1>2, <1>3, <1>4

(* The VDB does not change under the holder's feet.                        *)
LEMMA HolderVdb ==
    ASSUME TypeOK, TaskShape, Mutex, VdbShape, SlotHeld, QuietVdb, Next, Undisturbed',
           NEW u \in Tasks, Holding(u), task'[u] = task[u]
    PROVE  UNCHANGED <<vdb, counter>>
<1>1. ASSUME NEW t \in Tasks, BeginMerge(t) \/ BeginUnmerge(t) \/ TakeGate(t) \/ TakeLock(t)
                              \/ Leaves(t)
      PROVE  UNCHANGED <<vdb, counter>>
  <2>1. CASE Leaves(t)
      BY <2>1 DEF Leaves, Refuse, NoContents, EndUnmerge, EndMerge
  <2>2. CASE ~Leaves(t)
      BY <1>1, <2>2 DEF BeginMerge, BeginUnmerge, TakeGate, TakeLock
  <2> QED BY <2>1, <2>2
<1>2. ASSUME NEW t \in Tasks, Holding(t), Works(t), ~Displace(t) PROVE UNCHANGED <<vdb, counter>>
  <2>1. t = u
      BY <1>2, OneHolder
  <2>2. ~RemoveFields(t) /\ ~RemoveDir(t) /\ ~Publish(t)
    <3>1. CASE RemoveFields(t)
        BY <2>1, <3>1 DEF TypeOK, Task, RemoveFields, Goto, At
    <3>2. CASE RemoveDir(t)
        BY <2>1, <3>2 DEF TypeOK, Task, RemoveDir, At
    <3>3. CASE Publish(t)
        BY <2>1, <3>3 DEF TypeOK, Task, Publish, At
    <3> QED BY <3>1, <3>2, <3>3
  <2> QED BY <1>2, <2>2 DEF Works, FindOccupant, TakeOrBuild, StampIndex, CheckCollisions,
                            ReadContents, RefreshIndex, WriteFiles, RemoveFiles
<1> QED BY <1>1, <1>2, QuietSteps

LEMMA QuietVdbStep ==
    ASSUME TypeOK, TaskShape, Mutex, VdbShape, SlotHeld, QuietVdb, Next PROVE QuietVdb'
<1> SUFFICES ASSUME Undisturbed'
             PROVE  /\ \A x \in dirs' : (x \in slotted' /\ x \in listing') \/ Vanishing(x)'
                    /\ \A t \in Tasks : VictimThere(t)'
    BY DEF QuietVdb
<1>1. /\ Undisturbed
      /\ \A x \in dirs : (x \in slotted /\ x \in listing) \/ Vanishing(x)
      /\ \A t \in Tasks : VictimThere(t)
    BY QuietSteps DEF QuietVdb
<1>2. ASSUME NEW t \in Tasks, task'[t] = task[t] PROVE VictimThere(t)'
  <2>1. CASE Holding(t)
      BY <1>1, <1>2, <2>1, HolderVdb DEF VictimThere, vdb
  <2>2. CASE ~Holding(t)
      BY <1>1, <1>2, <2>2, BusyHolds DEF VictimThere, Undisturbed
  <2> QED BY <2>1, <2>2
<1>3. ASSUME NEW t \in Tasks, BeginMerge(t) \/ BeginUnmerge(t) \/ TakeGate(t) \/ TakeLock(t)
                              \/ Leaves(t)
      PROVE  /\ \A x \in dirs' : (x \in slotted' /\ x \in listing') \/ Vanishing(x)'
             /\ \A u \in Tasks : VictimThere(u)'
  <2>1. UNCHANGED vdb /\ \A u \in Tasks \ {t} : task'[u] = task[u]
    <3>1. CASE BeginMerge(t) \/ BeginUnmerge(t)
        BY <3>1, BeginEffect DEF Begins
    <3>2. CASE TakeGate(t) \/ TakeLock(t)
        BY <3>2 DEF TypeOK, TakeGate, TakeLock, Goto
    <3>3. CASE Leaves(t)
        BY <3>3 DEF TypeOK, Leaves, Refuse, NoContents, EndUnmerge, EndMerge, End
    <3> QED BY <1>3, <3>1, <3>2, <3>3
  <2>2. VictimThere(t)'
    <3>1. CASE BeginMerge(t) \/ BeginUnmerge(t)
      <4>1. task'[t].pc \in {"gate", "read"} /\ (task'[t].pc = "read" => task'[t].new = {})
          BY <3>1, BeginEffect DEF Begins, At
      <4> QED BY <4>1 DEF VictimThere
    <3>2. CASE TakeGate(t)
        BY <3>2 DEF TypeOK, Task, TakeGate, Goto, VictimThere
    <3>3. CASE TakeLock(t)
        BY <3>3 DEF TypeOK, Task, TakeLock, Goto, VictimThere
    <3>4. CASE Leaves(t)
      <4>1. task'[t].pc = "idle"
          BY <3>4 DEF TypeOK, Leaves, Refuse, NoContents, EndUnmerge, EndMerge, End, Idle
      <4> QED BY <4>1 DEF VictimThere
    <3> QED BY <1>3, <3>1, <3>2, <3>3, <3>4
  <2> QED BY <1>1, <1>2, <2>1, <2>2, VanishingStays DEF vdb
<1>4. ASSUME NEW t \in Tasks, Holding(t), Works(t), ~Displace(t)
      PROVE  /\ \A x \in dirs' : (x \in slotted' /\ x \in listing') \/ Vanishing(x)'
             /\ \A u \in Tasks : VictimThere(u)'
  <2>1. \A x \in dirs' : (x \in slotted' /\ x \in listing') \/ Vanishing(x)'
    <3>1. CASE UNCHANGED vdb
        BY <1>1, <3>1, VanishingStays DEF vdb
    <3>2. CASE RemoveFields(t)
      <4>1. At(t, "rmdir")' /\ task'[t].victim = task[t].victim
          BY <3>2 DEF TypeOK, Task, RemoveFields, Goto, At
      <4>2. \A x \in task[t].victim : Vanishing(x)'
          BY <4>1 DEF Vanishing
      <4> QED BY <1>1, <3>2, <4>2, VanishingStays DEF RemoveFields
    <3>3. CASE RemoveDir(t)
        BY <1>1, <3>3, VanishingStays DEF RemoveDir
    <3>4. CASE Publish(t)
        BY <1>1, <3>4, VanishingStays DEF Publish
    <3> QED BY <1>4, <3>1, <3>2, <3>3, <3>4
            DEF Works, FindOccupant, TakeOrBuild, StampIndex, CheckCollisions,
                ReadContents, RefreshIndex, WriteFiles, RemoveFiles
  <2>2. VictimThere(t)'
    <3>1. CASE FindOccupant(t)
      <4>1. dirs' = dirs /\ task[t].new # {} /\ At(t, "occupant")
          BY <3>1 DEF FindOccupant, vdb
      <4>2. CASE Goto(t, "index")
        <5>1. task[t].victim = {}
            BY <4>1 DEF TaskShape, Shaped, At
        <5> QED BY <4>1, <4>2, <5>1 DEF TypeOK, Task, Goto, VictimThere
      <4>3. CASE \E y \in dirs : task' = [task EXCEPT ![t].pc = "index", ![t].victim = {y}]
          BY <4>1, <4>3 DEF TypeOK, Task, VictimThere
      <4> QED BY <3>1, <4>2, <4>3 DEF FindOccupant, Occupants
    <3>2. CASE TakeOrBuild(t) \/ StampIndex(t) \/ CheckCollisions(t) \/ WriteFiles(t)
      <4>1. task'[t].victim = task[t].victim /\ dirs' = dirs
            /\ task[t].pc \in {"index", "stamp", "check", "write"}
            /\ task'[t].pc \in {"stamp", "check", "refused", "write", "read", "register"}
        <5>1. CASE TakeOrBuild(t)
            BY <5>1 DEF TypeOK, Task, TakeOrBuild, Goto, At, vdb
        <5>2. CASE StampIndex(t) \/ CheckCollisions(t) \/ WriteFiles(t)
            BY <5>2 DEF TypeOK, Task, StampIndex, CheckCollisions, WriteFiles, Goto, At, vdb
        <5> QED BY <3>2, <5>1, <5>2
      <4> QED BY <1>1, <1>4, <4>1, WorkEffect DEF VictimThere
    <3>3. CASE ReadContents(t)
      <4>1. task'[t].victim = task[t].victim /\ dirs' = dirs /\ task[t].victim \subseteq dirs
          BY <3>3 DEF TypeOK, Task, ReadContents, vdb
      <4> QED BY <4>1 DEF VictimThere
    <3>4. CASE RemoveFiles(t) \/ RemoveFields(t)
      <4>1. task'[t].victim = task[t].victim /\ dirs' = dirs
            /\ task[t].pc \in {"remove", "unregister"}
          BY <3>4 DEF TypeOK, Task, RemoveFiles, RemoveFields, Goto, At, vdb
      <4> QED BY <1>1, <4>1 DEF VictimThere
    <3>5. CASE RemoveDir(t) \/ Publish(t) \/ RefreshIndex(t)
      <4>1. task'[t].pc \in {"removed", "register", "refresh", "postinst"}
        <5>1. CASE RemoveDir(t)
            BY <5>1 DEF TypeOK, Task, RemoveDir
        <5>2. CASE Publish(t) \/ RefreshIndex(t)
            BY <5>2 DEF TypeOK, Task, Publish, RefreshIndex
        <5> QED BY <3>5, <5>1, <5>2
      <4> QED BY <4>1 DEF VictimThere
    <3> QED BY <1>4, <3>1, <3>2, <3>3, <3>4, <3>5 DEF Works
  <2> QED BY <1>2, <1>4, <2>1, <2>2, WorkEffect
<1> QED BY <1>3, <1>4, QuietSteps

(* Dropping what one package lists leaves what the others do.              *)
LEMMA OwnedSplit ==
    ASSUME NEW v \in Packages
    PROVE  OwnedBut({}) = OwnedBut({v}) \cup contents[v]
    BY DEF OwnedBut

LEMMA QuietDiskStep ==
    ASSUME TypeOK, TaskShape, Mutex, VdbShape, SlotHeld, NoSharedPaths, DiskHeld, QuietVdb,
           QuietDisk, Next, TypeOK', Mutex'
    PROVE  QuietDisk'
<1> SUFFICES ASSUME Undisturbed'
             PROVE  /\ lock' = {} => disk' = OwnedBut({})'
                    /\ \A t \in Tasks : Holding(t)' => HeldDisk(t)'
    BY DEF QuietDisk
<1>1. /\ Undisturbed
      /\ lock = {} => disk = OwnedBut({})
      /\ \A t \in Tasks : Holding(t) => HeldDisk(t)
    BY QuietSteps DEF QuietDisk
<1>2. ASSUME UNCHANGED <<vdb, disk>> PROVE disk' = disk /\ \A S : OwnedBut(S)' = OwnedBut(S)
    BY <1>2 DEF OwnedBut, vdb
<1>3. ASSUME NEW t \in Tasks, BeginMerge(t) \/ BeginUnmerge(t) \/ TakeGate(t)
      PROVE  /\ lock' = {} => disk' = OwnedBut({})'
             /\ \A u \in Tasks : Holding(u)' => HeldDisk(u)'
  <2>1. UNCHANGED <<vdb, disk, lock>>
      BY <1>3 DEF BeginMerge, BeginUnmerge, TakeGate, locks
  <2>2. \A u \in Tasks \ {t} : task'[u] = task[u]
      BY <1>3, BeginEffect DEF TypeOK, Begins, TakeGate, Goto
  <2>3. ~Holding(t)'
    <3>1. CASE BeginMerge(t) \/ BeginUnmerge(t)
        BY <3>1, BeginEffect DEF Begins, BeginMerge, BeginUnmerge, Holding, At
    <3>2. CASE TakeGate(t)
        BY <3>2 DEF TypeOK, Task, TakeGate, Goto, Holding
    <3> QED BY <1>3, <3>1, <3>2
  <2>4. ASSUME NEW u \in Tasks \ {t}, Holding(u)' PROVE HeldDisk(u)'
    <3>1. task'[u] = task[u] /\ HeldDisk(u)
        BY <1>1, <2>2, <2>4 DEF Holding
    <3> QED BY <2>1, <3>1 DEF HeldDisk, OwnedBut, vdb
  <2> QED BY <1>1, <1>2, <2>1, <2>3, <2>4
<1>4. ASSUME NEW t \in Tasks, TakeLock(t)
      PROVE  /\ lock' = {} => disk' = OwnedBut({})'
             /\ \A u \in Tasks : Holding(u)' => HeldDisk(u)'
  <2>1. UNCHANGED <<vdb, disk>> /\ lock = {} /\ lock' = {t}
      BY <1>4 DEF TakeLock
  <2>2. disk' = OwnedBut({})'
      BY <1>1, <1>2, <2>1
  <2>3. task'[t].pc = "occupant" \/ (task'[t].pc = "read" /\ task'[t].image = {})
      BY <1>4 DEF TypeOK, Task, TaskShape, Shaped, TakeLock, Goto
  <2>4. HeldDisk(t)'
      BY <2>2, <2>3 DEF HeldDisk, Removing
  <2>5. ASSUME NEW u \in Tasks, Holding(u)' PROVE u = t
      BY <2>1, <2>5 DEF Mutex
  <2> QED BY <2>1, <2>4, <2>5
<1>5. ASSUME NEW t \in Tasks, Holding(t), Leaves(t)
      PROVE  /\ lock' = {} => disk' = OwnedBut({})'
             /\ \A u \in Tasks : Holding(u)' => HeldDisk(u)'
  <2>1. UNCHANGED <<vdb, disk>> /\ lock' = lock \ {t} /\ lock = {t}
      BY <1>5 DEF Leaves, Refuse, NoContents, EndUnmerge, EndMerge, End, Mutex
  <2>2. disk = OwnedBut({})
    <3>1. CASE NoContents(t)
      <4>1. task[t].new = {}
        <5>1. SUFFICES ASSUME task[t].new # {} PROVE FALSE
            OBVIOUS
        <5>2. task[t].victim \subseteq dirs /\ ~ task[t].victim \subseteq listing
            BY <1>1, <3>1, <5>1 DEF QuietVdb, VictimThere, NoContents, At
        <5>3. PICK x \in task[t].victim : Vanishing(x)
            BY <1>1, <5>2 DEF QuietVdb
        <5>4. PICK u \in Tasks : At(u, "rmdir")
            BY <5>3 DEF Vanishing
        <5>5. Holding(u)
            BY <1>1, <5>4, BusyHolds DEF At, Undisturbed
        <5> QED BY <1>5, <3>1, <5>4, <5>5, OneHolder DEF NoContents, At
      <4> QED BY <1>1, <1>5, <3>1, <4>1 DEF TaskShape, Shaped, HeldDisk, NoContents, At
    <3>2. CASE Refuse(t) \/ EndUnmerge(t) \/ EndMerge(t)
        BY <1>1, <1>5, <3>2 DEF HeldDisk, Refuse, EndUnmerge, EndMerge, At, Removing
    <3> QED BY <1>5, <3>1, <3>2 DEF Leaves
  <2>3. ASSUME NEW u \in Tasks PROVE ~Holding(u)'
      BY <2>1 DEF Mutex
  <2> QED BY <1>2, <2>1, <2>2, <2>3
<1>6. ASSUME NEW t \in Tasks, Holding(t), Works(t), ~Displace(t)
      PROVE  /\ lock' = {} => disk' = OwnedBut({})'
             /\ \A u \in Tasks : Holding(u)' => HeldDisk(u)'
  <2>1. lock' = {t}
      BY <1>6, WorkEffect DEF Mutex, locks
  <2>2. HeldDisk(t) /\ task'[t].image = task[t].image /\ task'[t].new = task[t].new
      BY <1>1, <1>6, WorkEffect
  <2>3. HeldDisk(t)'
    <3>1. CASE FindOccupant(t) \/ TakeOrBuild(t) \/ StampIndex(t) \/ CheckCollisions(t)
               \/ RefreshIndex(t)
      <4>1. task[t].pc \notin {"register"} \cup Removing
            /\ task'[t].pc \notin {"register"} \cup Removing
        <5>1. CASE FindOccupant(t)
            BY <5>1 DEF TypeOK, Task, FindOccupant, Goto, Occupants, At, Removing
        <5>2. CASE TakeOrBuild(t)
            BY <5>2 DEF TypeOK, Task, TakeOrBuild, Goto, At, Removing
        <5>3. CASE StampIndex(t) \/ CheckCollisions(t) \/ RefreshIndex(t)
            BY <5>3 DEF TypeOK, Task, StampIndex, CheckCollisions, RefreshIndex, Goto, At, Removing
        <5> QED BY <3>1, <5>1, <5>2, <5>3
      <4>2. UNCHANGED <<vdb, disk>>
          BY <3>1 DEF FindOccupant, TakeOrBuild, StampIndex, CheckCollisions, RefreshIndex
      <4> QED BY <1>2, <2>2, <4>1, <4>2 DEF HeldDisk, Removing
    <3>2. CASE WriteFiles(t)
      <4>1. disk' = disk \cup task[t].image /\ UNCHANGED vdb /\ At(t, "write")
          BY <3>2 DEF WriteFiles
      <4>2. disk' = OwnedBut({})' \cup task'[t].image
          BY <2>2, <4>1 DEF HeldDisk, At, Removing, OwnedBut, vdb
      <4>3. task'[t].pc \in {"read", "register"}
          BY <3>2 DEF TypeOK, Task, WriteFiles, Goto
      <4> QED BY <4>2, <4>3 DEF HeldDisk, Removing
    <3>3. CASE ReadContents(t)
      <4>1. UNCHANGED <<vdb, disk>> /\ At(t, "read")
          BY <3>3 DEF ReadContents
      <4>2. PICK v \in task[t].victim :
                task' = [task EXCEPT ![t].pc = "remove", ![t].listed = contents[v]]
          BY <3>3 DEF ReadContents
      <4>3. task'[t].pc = "remove" /\ task'[t].listed = contents[v]
            /\ task'[t].victim = task[t].victim /\ task[t].victim = {v}
          BY <4>2 DEF TypeOK, Task, Option
      <4> QED BY <1>2, <2>2, <4>1, <4>3 DEF HeldDisk, At, Removing, vdb
    <3>4. CASE RemoveFiles(t)
      <4>1. disk' = disk \ (task[t].listed \ task[t].image) /\ UNCHANGED vdb /\ At(t, "remove")
          BY <3>4 DEF RemoveFiles
      <4>2. task'[t].pc = "unregister" /\ task'[t].victim = task[t].victim
          BY <3>4 DEF TypeOK, Task, RemoveFiles, Goto
      <4>3. PICK v \in Packages : task[t].victim = {v}
          BY <4>1 DEF TypeOK, Task, Option, TaskShape, Shaped, At, Removing
      <4>4. disk = OwnedBut({}) \cup task[t].image /\ task[t].listed = contents[v]
          BY <2>2, <4>1, <4>3 DEF HeldDisk, At
      <4>5. OwnedBut({v}) \cap task[t].listed = {}
          BY <1>1, <4>1, <4>3 DEF OwnedBut, DiskHeld, DiskSafe, Undisturbed, At
      <4>6. disk' = OwnedBut({v}) \cup task[t].image
          BY <4>1, <4>4, <4>5, OwnedSplit
      <4>7. OwnedBut({v})' = OwnedBut({v})
          BY <4>1 DEF OwnedBut, vdb
      <4> QED BY <2>2, <4>2, <4>3, <4>6, <4>7 DEF HeldDisk, Removing
    <3>5. CASE RemoveFields(t) \/ RemoveDir(t)
      <4>1. /\ disk = OwnedBut(task[t].victim) \cup task[t].image /\ disk' = disk
            /\ \A x \in Packages \ task[t].victim : contents'[x] = contents[x]
            /\ task'[t].victim = task[t].victim
        <5>1. \A x \in Packages \ task[t].victim : x \in listing' <=> x \in listing
            BY <3>5 DEF RemoveFields, RemoveDir
        <5>2. \A x \in Packages \ task[t].victim : contents'[x] = contents[x]
            BY <3>5, <5>1 DEF VdbShape, RemoveFields, RemoveDir
        <5>3. task'[t].victim = task[t].victim
          <6>1. CASE RemoveFields(t)
              BY <6>1 DEF TypeOK, Task, RemoveFields, Goto
          <6>2. CASE RemoveDir(t)
              BY <6>2 DEF TypeOK, Task, RemoveDir
          <6> QED BY <3>5, <6>1, <6>2
        <5> QED BY <2>2, <3>5, <5>2, <5>3 DEF HeldDisk, RemoveFields, RemoveDir, At
      <4>2. UNION {contents'[x] : x \in Packages \ task'[t].victim} = OwnedBut(task[t].victim)
          BY <4>1 DEF OwnedBut
      <4>3. CASE RemoveFields(t)
        <5>1. task'[t].pc = "rmdir"
            BY <4>3 DEF TypeOK, Task, RemoveFields, Goto
        <5> QED BY <2>2, <4>1, <4>2, <5>1 DEF HeldDisk, Removing, OwnedBut
      <4>4. CASE RemoveDir(t)
        <5>1. OwnedBut({})' = OwnedBut(task[t].victim)
          <6>1. \A x \in task[t].victim \cap Packages : contents'[x] = {}
              BY <4>4 DEF RemoveDir
          <6> QED BY <4>1, <6>1 DEF OwnedBut
        <5>2. \/ task'[t].pc = "register"
              \/ task'[t].pc = "removed" /\ task[t].image = {}
            BY <4>4 DEF TypeOK, Task, TaskShape, Shaped, RemoveDir
        <5> QED BY <2>2, <4>1, <5>1, <5>2 DEF HeldDisk, Removing
      <4> QED BY <3>5, <4>3, <4>4
    <3>6. CASE Publish(t)
      <4>1. disk' = disk /\ At(t, "register") /\ task[t].new \cap dirs = {}
            /\ contents' = [x \in Packages |-> IF x \in task[t].new THEN task[t].image
                                                                    ELSE contents[x]]
          BY <3>6 DEF Publish
      <4>2. \A x \in task[t].new \cap Packages : contents[x] = {}
          BY <4>1 DEF TypeOK, VdbShape
      <4>3. PICK x \in Packages : task[t].new = {x}
        <5>1. task[t].new \in Option(Packages)
            BY DEF TypeOK, Task
        <5>2. task[t].new # {}
            BY <4>1 DEF TaskShape, Shaped, At, Removing
        <5> QED BY <5>1, <5>2 DEF Option
      <4>4. OwnedBut({})' = OwnedBut({}) \cup task[t].image
          BY <4>1, <4>2, <4>3 DEF OwnedBut
      <4>5. task'[t].pc = "refresh"
          BY <3>6 DEF TypeOK, Task, Publish
      <4> QED BY <2>2, <4>1, <4>4, <4>5 DEF HeldDisk, At, Removing
    <3> QED BY <1>6, <3>1, <3>2, <3>3, <3>4, <3>5, <3>6 DEF Works
  <2>4. ASSUME NEW u \in Tasks, Holding(u)' PROVE u = t
      BY <2>1, <2>4 DEF Mutex
  <2> QED BY <2>1, <2>3, <2>4
<1> QED BY <1>3, <1>4, <1>5, <1>6, QuietSteps

(* The index a merge has is exact; the one a process keeps, as long as     *)
(* nothing was published since.                                            *)
LEMMA ExactElsewhere ==
    ASSUME TypeOK, TaskShape, Mutex, VdbShape, SlotHeld, QuietVdb, QuietIndex, Next, Undisturbed',
           NEW u \in Tasks, task'[u] = task[u]
    PROVE  ExactAtHand(u)'
<1>1. ExactAtHand(u)
    BY QuietSteps DEF QuietIndex
<1>2. CASE Holding(u)
  <2>1. UNCHANGED <<vdb, counter>>
      BY <1>2, HolderVdb
  <2> QED BY <1>1, <2>1 DEF ExactAtHand, At, Stamp, vdb
<1>3. CASE ~Holding(u)
    BY <1>3 DEF TaskShape, Shaped, ExactAtHand
<1> QED BY <1>2, <1>3

(* What is kept is exact for the one that takes it while it is current.    *)
LEMMA CurrentExact ==
    ASSUME TypeOK, VdbShape, QuietIndex, Undisturbed, NEW p \in Procs, NEW i \in index[p],
           Current(i), \A t \in Tasks : ~At(t, "rmdir"), NEW x \in Packages
    PROVE  i.owners[x] = contents[x]
<1>1. ExactKept(i, x) /\ i.stamp.names = dirs
    BY DEF QuietIndex, Current, Stamp
<1>2. x \notin dirs => contents[x] = {}
    BY DEF TypeOK, VdbShape
<1> QED BY <1>1, <1>2 DEF ExactKept, Vanishing

LEMMA QuietIndexStep ==
    ASSUME TypeOK, TaskShape, Mutex, VdbShape, SlotHeld, IndexAhead, QuietVdb, QuietIndex, Next
    PROVE  QuietIndex'
<1> SUFFICES ASSUME Undisturbed'
             PROVE  /\ \A p \in Procs : \A i \in index'[p] :
                           i.stamp.counter = counter' => \A x \in Packages : ExactKept(i, x)'
                    /\ \A u \in Tasks : ExactAtHand(u)'
    BY DEF QuietIndex
<1>1. /\ Undisturbed
      /\ \A p \in Procs : \A i \in index[p] :
             i.stamp.counter = counter => \A x \in Packages : ExactKept(i, x)
      /\ \A t \in Tasks : ExactAtHand(t)
    BY QuietSteps DEF QuietIndex
<1>2. ASSUME UNCHANGED <<vdb, counter>>, NEW i, NEW x \in Packages, ExactKept(i, x)
      PROVE  ExactKept(i, x)'
    BY <1>2, VanishingStays DEF ExactKept, vdb
<1>3. ASSUME NEW t \in Tasks, BeginMerge(t) \/ BeginUnmerge(t) \/ TakeGate(t) \/ TakeLock(t)
      PROVE  /\ \A p \in Procs : \A i \in index'[p] :
                    i.stamp.counter = counter' => \A x \in Packages : ExactKept(i, x)'
             /\ \A u \in Tasks : ExactAtHand(u)'
  <2>1. UNCHANGED <<vdb, counter, index>>
      BY <1>3 DEF BeginMerge, BeginUnmerge, TakeGate, TakeLock
  <2>2. (\A u \in Tasks \ {t} : task'[u] = task[u]) /\ task'[t].idx = {}
    <3>1. CASE BeginMerge(t) \/ BeginUnmerge(t)
        BY <3>1, BeginEffect DEF Begins
    <3>2. CASE TakeGate(t) \/ TakeLock(t)
        BY <3>2 DEF TypeOK, Task, TaskShape, Shaped, Holding, TakeGate, TakeLock, Goto, At
    <3> QED BY <1>3, <3>1, <3>2
  <2>3. ExactAtHand(t)'
      BY <2>2 DEF ExactAtHand
  <2> QED BY <1>1, <1>2, <2>1, <2>2, <2>3, ExactElsewhere
<1>4. ASSUME NEW t \in Tasks, Holding(t), Leaves(t)
      PROVE  /\ \A p \in Procs : \A i \in index'[p] :
                    i.stamp.counter = counter' => \A x \in Packages : ExactKept(i, x)'
             /\ \A u \in Tasks : ExactAtHand(u)'
  <2>1. /\ UNCHANGED <<vdb, counter>> /\ task' = [task EXCEPT ![t] = Idle]
        /\ \A p \in Procs : \/ index'[p] = index[p] \/ index'[p] = {}
                            \/ At(t, "postinst") /\ index'[p] = task[t].idx
    <3>1. CASE EndMerge(t)
        BY <3>1 DEF TypeOK, EndMerge, End
    <3>2. CASE Refuse(t) \/ NoContents(t) \/ EndUnmerge(t)
        BY <3>2 DEF TypeOK, Refuse, NoContents, EndUnmerge, End, Invalidate
    <3> QED BY <1>4, <3>1, <3>2 DEF Leaves
  <2>2. ASSUME At(t, "postinst"), NEW i \in task[t].idx, NEW x \in Packages PROVE ExactKept(i, x)
    <3>1. i.stamp = Stamp /\ i.owners[x] = contents[x]
        BY <1>1, <2>2 DEF ExactAtHand, At
    <3>2. contents[x] # {} => x \in dirs
        BY DEF TypeOK, VdbShape
    <3> QED BY <3>1, <3>2 DEF ExactKept, Stamp
  <2>3. \A p \in Procs : \A i \in index'[p] :
            i.stamp.counter = counter' => \A x \in Packages : ExactKept(i, x)
      BY <1>1, <2>1, <2>2
  <2>4. task'[t].idx = {}
      BY <2>1 DEF TypeOK, Idle
  <2>5. ExactAtHand(t)'
      BY <2>4 DEF ExactAtHand
  <2>6. \A u \in Tasks \ {t} : task'[u] = task[u]
      BY <2>1 DEF TypeOK
  <2> QED BY <1>2, <2>1, <2>3, <2>5, <2>6, ExactElsewhere
<1>5. ASSUME NEW t \in Tasks, Holding(t), Works(t), ~Displace(t)
      PROVE  /\ \A p \in Procs : \A i \in index'[p] :
                    i.stamp.counter = counter' => \A x \in Packages : ExactKept(i, x)'
             /\ \A u \in Tasks : ExactAtHand(u)'
  <2>1. \A p \in Procs : \A i \in index'[p] :
            i.stamp.counter = counter' => \A x \in Packages : ExactKept(i, x)'
    <3>1. CASE UNCHANGED <<vdb, counter>>
        BY <1>1, <1>2, <1>5, <3>1, WorkEffect
    <3>2. CASE RemoveFields(t)
      <4>1. At(t, "rmdir")' /\ task'[t].victim = task[t].victim
          BY <3>2 DEF TypeOK, Task, RemoveFields, Goto, At
      <4>2. \A x \in task[t].victim : Vanishing(x)'
          BY <4>1 DEF Vanishing
      <4>3. \A x \in Packages \ task[t].victim : contents'[x] = contents[x]
          BY <3>2 DEF VdbShape, RemoveFields
      <4>4. ASSUME NEW i, NEW x \in Packages, ExactKept(i, x) PROVE ExactKept(i, x)'
          BY <3>2, <4>2, <4>3, <4>4, VanishingStays DEF ExactKept, RemoveFields
      <4> QED BY <1>1, <3>2, <4>4 DEF RemoveFields
    <3>3. CASE RemoveDir(t)
      <4>1. \A x \in Packages \ task[t].victim : contents'[x] = contents[x]
          BY <3>3 DEF VdbShape, RemoveDir
      <4>2. ASSUME NEW i, NEW x \in Packages, ExactKept(i, x) PROVE ExactKept(i, x)'
          BY <3>3, <4>1, <4>2, VanishingStays DEF ExactKept, RemoveDir
      <4> QED BY <1>1, <3>3, <4>2 DEF RemoveDir
    <3>4. CASE Publish(t)
      <4>1. counter' = counter + 1 /\ index' = index /\ counter \in Nat
          BY <3>4 DEF TypeOK, Publish
      <4>2. \A p \in Procs : \A i \in index[p] : i.stamp.counter <= counter /\ i.stamp.counter \in Nat
          BY DEF TypeOK, Option, Index, IndexAhead, Kept
      <4> QED BY <4>1, <4>2
    <3> QED BY <1>5, <3>1, <3>2, <3>3, <3>4
            DEF Works, FindOccupant, TakeOrBuild, StampIndex, CheckCollisions,
                ReadContents, RefreshIndex, WriteFiles, RemoveFiles
  <2>2. ExactAtHand(t)'
    <3>1. CASE FindOccupant(t) \/ CheckCollisions(t) \/ ReadContents(t) \/ WriteFiles(t)
               \/ RemoveFiles(t)
      <4>1. /\ UNCHANGED <<vdb, counter>> /\ task'[t].idx = task[t].idx
            /\ ~At(t, "rmdir") /\ ~At(t, "postinst")'
        <5>1. CASE FindOccupant(t)
            BY <5>1 DEF TypeOK, Task, FindOccupant, Goto, Occupants, At
        <5>2. CASE ReadContents(t)
            BY <5>2 DEF TypeOK, Task, ReadContents, At
        <5>3. CASE CheckCollisions(t) \/ WriteFiles(t) \/ RemoveFiles(t)
            BY <5>3 DEF TypeOK, Task, CheckCollisions, WriteFiles, RemoveFiles, Goto, At
        <5> QED BY <3>1, <5>1, <5>2, <5>3
      <4> QED BY <1>1, <4>1 DEF ExactAtHand, vdb
    <3>2. CASE TakeOrBuild(t)
      <4>1. UNCHANGED <<vdb, counter>> /\ ~At(t, "rmdir") /\ ~At(t, "postinst")'
          BY <3>2 DEF TypeOK, Task, TakeOrBuild, Goto, At
      <4>2. \A i \in task'[t].idx : \A x \in Packages : i.owners[x] = contents[x]
        <5>1. CASE Goto(t, "check")
            BY <1>1, <4>1, <5>1 DEF TypeOK, Task, Goto, ExactAtHand
        <5>2. CASE /\ \E i \in index[ProcOf[t]] : Current(i)
                   /\ task' = [task EXCEPT ![t].pc = "check", ![t].idx = index[ProcOf[t]]]
          <6>1. task'[t].idx = index[ProcOf[t]]
              BY <5>2 DEF TypeOK, Task
          <6>2. index[ProcOf[t]] \in Option(Index) /\ ProcOf[t] \in Procs
              BY QMergeAssumption DEF TypeOK
          <6>3. \A i \in index[ProcOf[t]] : Current(i)
              BY <5>2, <6>2 DEF Option
          <6>4. \A u \in Tasks : ~At(u, "rmdir")
              BY <1>1, <1>5, <4>1, BusyHolds, OneHolder DEF At, Undisturbed
          <6> QED BY <1>1, <6>1, <6>2, <6>3, <6>4, CurrentExact
        <5>3. CASE task' = [task EXCEPT ![t].pc = "stamp",
                                        ![t].idx = {[owners |-> contents, stamp |-> Stamp]}]
          <6>1. task'[t].idx = {[owners |-> contents, stamp |-> Stamp]}
              BY <5>3 DEF TypeOK, Task
          <6> QED BY <6>1
        <5> QED BY <3>2, <5>1, <5>2, <5>3 DEF TakeOrBuild
      <4> QED BY <4>1, <4>2 DEF ExactAtHand, vdb
    <3>3. CASE StampIndex(t) \/ RefreshIndex(t)
      <4>1. UNCHANGED <<vdb, counter>> /\ ~At(t, "rmdir")
          BY <3>3 DEF StampIndex, RefreshIndex, At
      <4>2. task'[t].idx = Restamped(t) /\ task[t].idx \subseteq Index
          BY <3>3 DEF TypeOK, Task, Option, StampIndex, RefreshIndex
      <4>3. \A i \in task'[t].idx : /\ i.stamp = Stamp
                                    /\ \A x \in Packages : i.owners[x] = contents[x]
          BY <1>1, <4>1, <4>2 DEF ExactAtHand, Restamped, Index
      <4> QED BY <4>1, <4>3 DEF ExactAtHand, Stamp, vdb
    <3>4. CASE RemoveFields(t)
      <4>1. /\ At(t, "rmdir")' /\ task'[t].victim = task[t].victim /\ task'[t].idx = task[t].idx
            /\ ~At(t, "rmdir")
          BY <3>4 DEF TypeOK, Task, RemoveFields, Goto, At
      <4>2. \A x \in Packages \ task[t].victim : contents'[x] = contents[x]
          BY <3>4 DEF VdbShape, RemoveFields
      <4> QED BY <1>1, <4>1, <4>2 DEF ExactAtHand, At
    <3>5. CASE RemoveDir(t)
      <4>1. task'[t].idx = {[i EXCEPT !.owners = [x \in Packages |-> IF x \in task[t].victim
                                                             THEN {} ELSE @[x]]] :
                             i \in task[t].idx} /\ task[t].idx \subseteq Index
            /\ task'[t].pc \in {"removed", "register"}
        <5> DEFINE o == {[i EXCEPT !.owners = [x \in Packages |-> IF x \in task[t].victim
                                                             THEN {} ELSE @[x]]] :
                         i \in task[t].idx}
                   pc == IF task[t].new = {} THEN "removed" ELSE "register"
        <5>1. task' = [task EXCEPT ![t].pc = pc, ![t].idx = o]
            BY <3>5 DEF RemoveDir
        <5>2. pc \in {"removed", "register"}
            OBVIOUS
        <5> HIDE DEF o, pc
        <5>3. task'[t].idx = o /\ task'[t].pc = pc
            BY <5>1 DEF TypeOK, Task
        <5> QED BY <5>2, <5>3 DEF TypeOK, Task, Option, o
      <4>2. \A x \in Packages : contents'[x] = IF x \in task[t].victim THEN {} ELSE contents[x]
          BY <3>5 DEF VdbShape, RemoveDir
      <4>3. ASSUME NEW j \in task'[t].idx, NEW x \in Packages PROVE j.owners[x] = contents'[x]
        <5>1. PICK i \in task[t].idx :
                  j = [i EXCEPT !.owners = [y \in Packages |-> IF y \in task[t].victim
                                                               THEN {} ELSE @[y]]]
            BY <4>1
        <5>2. j.owners[x] = IF x \in task[t].victim THEN {} ELSE i.owners[x]
            BY <4>1, <5>1 DEF Index, SomeOwned
        <5> QED BY <1>1, <4>2, <5>2 DEF ExactAtHand
      <4> QED BY <4>1, <4>3 DEF ExactAtHand, At
    <3>6. CASE Publish(t)
      <4>1. task'[t].idx = {[i EXCEPT !.owners = [x \in Packages |-> IF x \in task[t].new
                                                             THEN task[t].image ELSE @[x]]] :
                             i \in task[t].idx} /\ task[t].idx \subseteq Index
            /\ task'[t].pc = "refresh" /\ ~At(t, "rmdir")
        <5> DEFINE o == {[i EXCEPT !.owners = [x \in Packages |-> IF x \in task[t].new
                                                             THEN task[t].image ELSE @[x]]] :
                         i \in task[t].idx}
        <5>1. task' = [task EXCEPT ![t].pc = "refresh", ![t].idx = o] /\ At(t, "register")
            BY <3>6 DEF Publish
        <5> HIDE DEF o
        <5>2. task'[t].idx = o /\ task'[t].pc = "refresh"
            BY <5>1 DEF TypeOK, Task
        <5> QED BY <5>1, <5>2 DEF TypeOK, Task, Option, At, o
      <4>2. \A x \in Packages : contents'[x] = IF x \in task[t].new THEN task[t].image
                                                                    ELSE contents[x]
          BY <3>6 DEF Publish
      <4>3. ASSUME NEW j \in task'[t].idx, NEW x \in Packages PROVE j.owners[x] = contents'[x]
        <5>1. PICK i \in task[t].idx :
                  j = [i EXCEPT !.owners = [y \in Packages |-> IF y \in task[t].new
                                                               THEN task[t].image ELSE @[y]]]
            BY <4>1
        <5>2. j.owners[x] = IF x \in task[t].new THEN task[t].image ELSE i.owners[x]
            BY <4>1, <5>1 DEF Index, SomeOwned
        <5> QED BY <1>1, <4>1, <4>2, <5>2 DEF ExactAtHand
      <4> QED BY <4>1, <4>3 DEF ExactAtHand, At
    <3> QED BY <1>5, <3>1, <3>2, <3>3, <3>4, <3>5, <3>6 DEF Works
  <2> QED BY <1>5, <2>1, <2>2, WorkEffect, ExactElsewhere
<1> QED BY <1>3, <1>4, <1>5, QuietSteps

-----------------------------------------------------------------------------
(* Together.                                                               *)

LEMMA InvInit == Init => IInv
<1> SUFFICES ASSUME Init PROVE IInv
    OBVIOUS
<1>1. TypeOK
    BY InitTypes
<1>2. \A t \in Tasks : task[t] = Idle
    BY DEF Init
<1>3. Mutex /\ TaskShape /\ SlotHeld /\ ImageFree /\ DiskHeld
    BY <1>2 DEF Init, Mutex, Holding, TaskShape, Shaped, SlotHeld, SlotKept, ImageFree, ImageClear,
                DiskHeld, DiskSafe, Merging, Removing, Idle, At
<1>4. VdbShape /\ SlotUnique /\ NoSharedPaths
    BY DEF Init, VdbShape, SlotUnique, NoSharedPaths
<1>5. \A p \in Procs : \A i \in index[p] : i = [owners |-> contents, stamp |-> Stamp]
    BY DEF Init
<1>6. IndexAhead
    BY <1>1, <1>2, <1>5 DEF IndexAhead, AtHand, Kept, Ahead, Stamp, Idle, TypeOK
<1>7. OwnedOnDisk
    BY DEF Init, OwnedOnDisk
<1>8. QuietVdb
    BY <1>2 DEF Init, QuietVdb, VictimThere, Idle
<1>9. QuietDisk
  <2>1. disk = OwnedBut({})
      BY <1>1, <1>4 DEF Init, OwnedBut, TypeOK, VdbShape
  <2> QED BY <1>2, <2>1 DEF QuietDisk, Holding, Idle
<1>10. QuietIndex
  <2>1. \A x \in Packages : contents[x] # {} => x \in dirs
      BY DEF Init
  <2> QED BY <1>2, <1>5, <2>1 DEF QuietIndex, ExactKept, ExactAtHand, Stamp, Idle
<1> QED BY <1>1, <1>3, <1>4, <1>6, <1>7, <1>8, <1>9, <1>10 DEF IInv

LEMMA InvStep == IInv /\ [Next]_vars => IInv'
<1> SUFFICES ASSUME IInv, [Next]_vars PROVE IInv'
    OBVIOUS
<1>1. CASE Next
    BY <1>1, TypeStep, MutexStep, TaskShapeStep, VdbShapeStep, SlotUniqueStep, SlotHeldStep,
       NoSharedPathsStep, ImageFreeStep, IndexAheadStep, OwnedOnDiskStep, DiskHeldStep,
       QuietVdbStep, QuietDiskStep, QuietIndexStep
       DEF IInv
<1>2. CASE UNCHANGED vars
  <2> USE <1>2 DEF vars, vdb, locks, count
  <2>1. TypeOK' /\ Mutex' /\ TaskShape' /\ VdbShape' /\ SlotUnique' /\ SlotHeld' /\ NoSharedPaths'
        /\ ImageFree'
      BY DEF IInv, TypeOK, Mutex, Holding, TaskShape, Shaped, VdbShape, SlotUnique, SlotHeld,
             SlotKept, Occupants, NoSharedPaths, ImageFree, ImageClear, At
  <2>2. IndexAhead' /\ OwnedOnDisk' /\ DiskHeld'
      BY DEF IInv, IndexAhead, AtHand, Kept, Ahead, OwnedOnDisk, DiskHeld, DiskSafe
  <2>3. QuietVdb' /\ QuietDisk' /\ QuietIndex'
      BY DEF IInv, QuietVdb, Vanishing, VictimThere, QuietDisk, HeldDisk, Holding, OwnedBut,
             QuietIndex, ExactKept, ExactAtHand, Undisturbed, Stamp, At
  <2> QED BY <2>1, <2>2, <2>3 DEF IInv
<1> QED BY <1>1, <1>2

LEMMA Invariant == Spec => []IInv
<1> QED BY InvInit, InvStep, PTL DEF Spec

(* Every variable keeps its type, whatever merges, fails or dies.          *)
THEOREM QMergeTypes == Spec => []TypeOK
<1>1. IInv => TypeOK
    BY DEF IInv
<1> QED BY <1>1, Invariant, PTL

(* No path ever belongs to two installed packages: the collision check     *)
(* and the merge lock suffice, on a fresh index or a kept one.             *)
THEOREM PathsNotShared == Spec => []NoSharedPaths
<1>1. IInv => NoSharedPaths
    BY DEF IInv
<1> QED BY <1>1, Invariant, PTL

(* A slot never has two packages that can be read: the occupant is removed *)
(* before the new entry is registered.                                     *)
THEOREM OnePerSlot == Spec => []SlotUnique
<1>1. IInv => SlotUnique
    BY DEF IInv
<1> QED BY <1>1, Invariant, PTL

(* An index that will be reused knows every owner, whatever other          *)
(* processes did since; and nobody else, if nothing failed or was removed  *)
(* by hand.                                                                *)
THEOREM KeptIndexExact == Spec => []IndexExact
<1>1. ASSUME IInv PROVE IndexExact
  <2> SUFFICES ASSUME NEW p \in Procs, NEW i \in index[p], Current(i), NEW x \in Packages
               PROVE  /\ contents[x] \subseteq i.owners[x]
                      /\ (Undisturbed /\ lock = {}) => i.owners[x] = contents[x]
      BY DEF IndexExact
  <2>1. contents[x] \subseteq i.owners[x]
      BY <1>1 DEF IInv, IndexAhead, Kept, Ahead, Current, Stamp
  <2>2. ASSUME Undisturbed, lock = {} PROVE i.owners[x] = contents[x]
    <3>1. \A t \in Tasks : ~Holding(t)
        BY <1>1, <2>2 DEF IInv, Mutex
    <3>2. \A t \in Tasks : ~At(t, "rmdir")
        BY <1>1, <2>2, <3>1, BusyHolds DEF IInv, At, Undisturbed
    <3> QED BY <1>1, <2>2, <3>2, CurrentExact DEF IInv
  <2> QED BY <2>1, <2>2
<1>2. IInv => IndexExact
    BY <1>1
<1> QED BY <1>2, Invariant, PTL

(* Unless somebody removes by hand, the files a package owns are on disk   *)
(* until its own removal begins: failures and deaths included.             *)
THEOREM OwnedStays == Spec => []OwnedOnDisk
<1>1. IInv => OwnedOnDisk
    BY DEF IInv
<1> QED BY <1>1, Invariant, PTL

(* If nothing failed, an idle system has on disk what its packages own.    *)
THEOREM QuietSettled == Spec => []Settled
<1>1. ASSUME IInv PROVE Settled
  <2> SUFFICES ASSUME Undisturbed, \A t \in Tasks : At(t, "idle")
               PROVE  disk = UNION {contents[x] : x \in dirs}
      BY DEF Settled
  <2>1. lock = {}
    <3>1. \A t \in Tasks : ~Holding(t)
        BY DEF Holding, At
    <3>2. lock \subseteq Tasks /\ \A t \in Tasks : lock # {t}
        BY <1>1, <3>1 DEF IInv, TypeOK, Option, Mutex
    <3> QED BY <1>1, <3>2 DEF IInv, TypeOK, Option
  <2>2. disk = OwnedBut({})
      BY <1>1, <2>1 DEF IInv, QuietDisk
  <2> QED BY <1>1, <2>2 DEF IInv, OwnedBut, TypeOK, VdbShape
<1>2. IInv => Settled
    BY <1>1
<1> QED BY <1>2, Invariant, PTL
=============================================================================
