------------------------------- MODULE QMerge -------------------------------
(***************************************************************************)
(* Installing and removing packages on one root: `run_merge` and           *)
(* `unmerge_package` under the merge gate and the merge lock               *)
(* (portage-cli/src/ebuild/mod.rs, ebuild/flock.rs), on the VDB of         *)
(* portage-vdb/src/write.rs and collision.rs.                              *)
(*                                                                         *)
(* A process is an `em`, or a privileged worker of one; its tasks share a  *)
(* merge gate and, in a long plan, an ownership index.  A task merges a    *)
(* package, or runs a scheduled unmerge; both hold the gate, then the lock *)
(* of the work base.  `em -C` and `em --depclean` remove packages with     *)
(* neither: these are the tasks in Removers.                               *)
(*                                                                         *)
(* A step is what happens between two points at which another process can  *)
(* be noticed, the process can die, or a phase can fail.                   *)
(***************************************************************************)
EXTENDS Integers

CONSTANTS
    Packages,          \* cpvs
    Paths,             \* the objects and symlinks a package may install
    SlotOf,            \* cpv -> its package name and main slot
    Images,            \* cpv -> the sets of paths a build of it may install
    Procs,             \* processes
    Tasks, ProcOf,     \* tasks, and the process of each
    Reuse,             \* processes that keep an ownership index
    Removers,          \* tasks that remove without a lock
    MaxJobs,           \* bound: merges and scheduled unmerges begun
    MaxUpsets          \* bound: removals begun without a lock, phases and
                       \*        writes that failed, processes that died

ASSUME QMergeAssumption ==
    /\ Images \in [Packages -> SUBSET (SUBSET Paths)]
    /\ DOMAIN SlotOf = Packages
    /\ ProcOf \in [Tasks -> Procs]
    /\ Reuse \subseteq Procs
    /\ Removers \subseteq Tasks
    /\ MaxJobs \in Nat /\ MaxUpsets \in Nat

VARIABLES
    dirs,              \* packages with a VDB directory
    slotted,           \* those with their SLOT file
    listing,           \* those with their CONTENTS file
    contents,          \* what CONTENTS lists
    disk,              \* the paths that exist
    counter,           \* COUNTER
    gate,              \* process -> the task that holds its merge gate
    lock,              \* the task that holds the merge lock
    index,             \* process -> the index MergeBatchState keeps
    task,              \* what each task is at
    jobs, removals, faults,     \* counts towards the bounds
    gnawed             \* history: packages whose files began to be removed

vdb   == <<dirs, slotted, listing, contents>>
locks == <<gate, lock>>
count == <<jobs, removals, faults>>
vars  == <<vdb, disk, counter, locks, index, task, count, gnawed>>

(* A set of at most one element is an Option.  new is the package a merge  *)
(* installs ({} for a removal), victim the one it replaces or removes.     *)
Idle == [pc |-> "idle", new |-> {}, image |-> {}, victim |-> {},
         listed |-> {}, idx |-> {}]

At(t, pc) == task[t].pc = pc

TasksOf(p) == {t \in Tasks : ProcOf[t] = p}

SomeOwned == [Packages -> SUBSET Paths]

(* VdbStamp: the counter and the names; a change inside an entry, or of    *)
(* what a CONTENTS lists, is not in it.                                    *)
Stamp == [counter |-> counter, names |-> dirs]

(* Any VDB whose packages share no path and no slot, all of it on disk; a  *)
(* process that merged before keeps an index of it.                        *)
Init ==
    /\ dirs \in SUBSET Packages
    /\ \A x, y \in dirs : x # y => SlotOf[x] # SlotOf[y]
    /\ slotted = dirs /\ listing = dirs
    /\ contents \in SomeOwned
    /\ \A x \in Packages : IF x \in dirs THEN contents[x] \in Images[x]
                                         ELSE contents[x] = {}
    /\ \A x, y \in dirs : x # y => contents[x] \cap contents[y] = {}
    /\ disk = UNION {contents[x] : x \in dirs}
    /\ counter = 0
    /\ gate = [p \in Procs |-> {}] /\ lock = {}
    /\ \E warm \in SUBSET Reuse :
           index = [p \in Procs |->
                       IF p \in warm THEN {[owners |-> contents, stamp |-> Stamp]}
                                     ELSE {}]
    /\ task = [t \in Tasks |-> Idle]
    /\ jobs = 0 /\ removals = 0 /\ faults = 0
    /\ gnawed = {}

Fault == removals + faults < MaxUpsets /\ faults' = faults + 1 /\ UNCHANGED <<jobs, removals>>

Goto(t, pc) == task' = [task EXCEPT ![t].pc = pc]

(* The end of a task, whatever its result: the guards are dropped.  The    *)
(* gate kept on the way out.                                               *)
EndSlip(t) ==
    /\ task' = [task EXCEPT ![t] = Idle]
    /\ lock' = lock \ {t}
    /\ UNCHANGED gate

End(t) ==
    /\ task' = [task EXCEPT ![t] = Idle]
    /\ lock' = lock \ {t}
    /\ gate' = [gate EXCEPT ![ProcOf[t]] = @ \ {t}]

(* with_invalidation clears the snapshots once the unmerge is over; a      *)
(* merge that fails does not put its index back.                           *)
Invalidate(t) ==
    index' = IF task[t].new = {} /\ ~At(t, "lock")
             THEN [index EXCEPT ![ProcOf[t]] = {}] ELSE index

-----------------------------------------------------------------------------
BeginMerge(t) ==
    /\ At(t, "idle") /\ t \notin Removers
    /\ jobs < MaxJobs                            \* bound
    /\ \E x \in Packages : \E c \in Images[x] :
           task' = [task EXCEPT ![t] = [Idle EXCEPT !.pc = "gate", !.new = {x},
                                                    !.image = c]]
    /\ jobs' = jobs + 1
    /\ UNCHANGED <<vdb, disk, counter, locks, index, removals, faults, gnawed>>

(* A victim was installed when the plan was made; it may be gone later.    *)
BeginUnmerge(t) ==
    /\ At(t, "idle") /\ t \notin Removers
    /\ jobs < MaxJobs                            \* bound
    /\ \E x \in dirs :
           task' = [task EXCEPT ![t] = [Idle EXCEPT !.pc = "gate", !.victim = {x}]]
    /\ jobs' = jobs + 1
    /\ UNCHANGED <<vdb, disk, counter, locks, index, removals, faults, gnawed>>

(* `em -C`: the packages its atoms match are looked up, then removed.      *)
BeginRemoval(t) ==
    /\ At(t, "idle") /\ t \in Removers
    /\ removals + faults < MaxUpsets             \* bound
    /\ \E x \in dirs :
           task' = [task EXCEPT ![t] = [Idle EXCEPT !.pc = "read", !.victim = {x}]]
    /\ removals' = removals + 1
    /\ UNCHANGED <<vdb, disk, counter, locks, index, jobs, faults, gnawed>>

(* MergeGate: one task of the process at a time.                           *)
TakeGate(t) ==
    /\ At(t, "gate")
    /\ gate[ProcOf[t]] = {}
    /\ gate' = [gate EXCEPT ![ProcOf[t]] = {t}]
    /\ Goto(t, "lock")
    /\ UNCHANGED <<vdb, disk, counter, lock, index, count, gnawed>>

(* The gate alone: one task per process, as if the others were not there.  *)
TakeLockSlip(t) ==
    /\ At(t, "lock")
    /\ lock' = {t}
    /\ Goto(t, IF task[t].new = {} THEN "read" ELSE "occupant")
    /\ UNCHANGED <<vdb, disk, counter, gate, index, count, gnawed>>

(* The merge lock: one task of all the processes at a time.                *)
TakeLock(t) ==
    /\ At(t, "lock")
    /\ lock = {}
    /\ lock' = {t}
    /\ Goto(t, IF task[t].new = {} THEN "read" ELSE "occupant")
    /\ UNCHANGED <<vdb, disk, counter, gate, index, count, gnawed>>

-----------------------------------------------------------------------------
(* Only the same version taken for the occupant.                           *)
OccupantsSlip(x) == {y \in dirs \cap slotted : y = x}

(* Directories of the slot whose SLOT can be read.                         *)
Occupants(x) == {y \in dirs \cap slotted : SlotOf[y] = SlotOf[x]}

(* find_slot_occupant: the first one found.                                *)
FindOccupant(t) ==
    /\ At(t, "occupant")
    /\ \E x \in task[t].new :
           IF Occupants(x) = {}
           THEN Goto(t, "index")
           ELSE \E y \in Occupants(x) :
                    task' = [task EXCEPT ![t].pc = "index", ![t].victim = {y}]
    /\ UNCHANGED <<vdb, disk, counter, locks, index, count, gnawed>>

(* The stamp not compared.                                                 *)
CurrentSlip(i) == TRUE

Current(i) == i.stamp = Stamp

(* MergeBatchState::take_or_build: the kept index if its stamp is current, *)
(* or a scan of every CONTENTS; a short plan has none.                     *)
TakeOrBuild(t) ==
    LET p == ProcOf[t]
    IN  /\ At(t, "index")
        /\ IF p \notin Reuse
           THEN Goto(t, "check") /\ UNCHANGED index
           ELSE /\ index' = [index EXCEPT ![p] = {}]
                /\ IF \E i \in index[p] : Current(i)
                   THEN task' = [task EXCEPT ![t].pc = "check", ![t].idx = index[p]]
                   ELSE task' = [task EXCEPT ![t].pc = "stamp",
                                             ![t].idx = {[owners |-> contents,
                                                          stamp |-> Stamp]}]
        /\ UNCHANGED <<vdb, disk, counter, locks, count, gnawed>>

(* OwnershipIndex::refresh.                                                *)
Restamped(t) == {[i EXCEPT !.stamp = Stamp] : i \in task[t].idx}

(* build takes the stamp once the scan is over.                            *)
StampIndex(t) ==
    /\ At(t, "stamp")
    /\ task' = [task EXCEPT ![t].pc = "check", ![t].idx = Restamped(t)]
    /\ UNCHANGED <<vdb, disk, counter, locks, index, count, gnawed>>

(* The owners a merge is checked against: those of the index, if any.      *)
KnownOwner(t, y, f) ==
    IF task[t].idx = {} THEN f \in contents[y]
                        ELSE \E i \in task[t].idx : f \in i.owners[y]

Collides(t) ==
    \E y \in Packages \ task[t].victim : \E f \in task[t].image : KnownOwner(t, y, f)

(* check_collisions, before anything is written.                           *)
CheckCollisions(t) ==
    /\ At(t, "check")
    /\ Goto(t, IF Collides(t) THEN "refused" ELSE "write")
    /\ UNCHANGED <<vdb, disk, counter, locks, index, count, gnawed>>

Refuse(t) ==
    /\ At(t, "refused")
    /\ End(t)
    /\ UNCHANGED <<vdb, disk, counter, index, count, gnawed>>

(* walk_image(Walk::Merge), after pkg_preinst.  What pkg_preinst may add to *)
(* the image is left out: the code does not check it for collisions.       *)
WriteFiles(t) ==
    /\ At(t, "write")
    /\ disk' = disk \cup task[t].image
    /\ Goto(t, IF task[t].victim = {} THEN "register" ELSE "read")
    /\ UNCHANGED <<vdb, counter, locks, index, count, gnawed>>

WriteFails(t) ==
    /\ At(t, "write")
    /\ Fault
    /\ \E part \in SUBSET task[t].image : disk' = disk \cup part
    /\ End(t)
    /\ UNCHANGED <<vdb, counter, index, gnawed>>

-----------------------------------------------------------------------------
(* unmerge_package, after pkg_prerm: its CONTENTS is read ...              *)
ReadContents(t) ==
    /\ At(t, "read")
    /\ task[t].victim \subseteq listing
    /\ \E v \in task[t].victim :
           task' = [task EXCEPT ![t].pc = "remove", ![t].listed = contents[v]]
    /\ UNCHANGED <<vdb, disk, counter, locks, index, count, gnawed>>

(* ... which fails when there is none; a scheduled victim that is gone by  *)
(* now is not an error.                                                    *)
NoContents(t) ==
    /\ At(t, "read")
    /\ ~ task[t].victim \subseteq listing
    /\ End(t)
    /\ Invalidate(t)
    /\ UNCHANGED <<vdb, disk, counter, count, gnawed>>

(* Every old path removed, the incoming package's too.                     *)
RemoveFilesSlip(t) ==
    /\ At(t, "remove")
    /\ disk' = disk \ task[t].listed
    /\ gnawed' = gnawed \cup task[t].victim
    /\ Goto(t, "unregister")
    /\ UNCHANGED <<vdb, counter, locks, index, count>>

(* remove_old_unique_files: not those the incoming package installed.      *)
RemoveFiles(t) ==
    /\ At(t, "remove")
    /\ disk' = disk \ (task[t].listed \ task[t].image)
    /\ gnawed' = gnawed \cup task[t].victim
    /\ Goto(t, "unregister")
    /\ UNCHANGED <<vdb, counter, locks, index, count>>

(* Vdb::unregister is a remove_dir_all: the files of the entry go one by   *)
(* one, in no order, ...                                                   *)
RemoveFields(t) ==
    /\ At(t, "unregister")
    /\ task[t].victim \subseteq dirs
    /\ slotted' \in {slotted, slotted \ task[t].victim}
    /\ listing' \in {listing, listing \ task[t].victim}
    /\ contents' = [x \in Packages |-> IF x \in listing' THEN contents[x] ELSE {}]
    /\ Goto(t, "rmdir")
    /\ UNCHANGED <<dirs, disk, counter, locks, index, count, gnawed>>

(* The index of a merge not told that the occupant is gone.                *)
RemoveDirKeepsIndexSlip(t) ==
    /\ At(t, "rmdir")
    /\ task[t].victim \subseteq dirs
    /\ dirs' = dirs \ task[t].victim
    /\ slotted' = slotted \ task[t].victim
    /\ listing' = listing \ task[t].victim
    /\ contents' = [x \in Packages |-> IF x \in listing' THEN contents[x] ELSE {}]
    /\ Goto(t, IF task[t].new = {} THEN "removed" ELSE "register")
    /\ UNCHANGED <<disk, counter, locks, index, count, gnawed>>

(* ... then the directory; run_merge takes the package out of its index.   *)
RemoveDir(t) ==
    /\ At(t, "rmdir")
    /\ task[t].victim \subseteq dirs
    /\ dirs' = dirs \ task[t].victim
    /\ slotted' = slotted \ task[t].victim
    /\ listing' = listing \ task[t].victim
    /\ contents' = [x \in Packages |-> IF x \in listing' THEN contents[x] ELSE {}]
    /\ task' = [task EXCEPT
                   ![t].pc = IF task[t].new = {} THEN "removed" ELSE "register",
                   ![t].idx = {[i EXCEPT !.owners =
                                   [x \in Packages |-> IF x \in task[t].victim
                                                       THEN {} ELSE @[x]]] :
                               i \in task[t].idx}]
    /\ UNCHANGED <<disk, counter, locks, index, count, gnawed>>

(* Another process removed the directory first: remove_dir_all fails.      *)
NoDirectory(t) ==
    /\ At(t, "unregister") \/ At(t, "rmdir")
    /\ ~ task[t].victim \subseteq dirs
    /\ End(t)
    /\ Invalidate(t)
    /\ UNCHANGED <<vdb, disk, counter, count, gnawed>>

(* pkg_postrm has run, well or badly.                                      *)
EndUnmerge(t) ==
    /\ At(t, "removed")
    /\ End(t)
    /\ Invalidate(t)
    /\ UNCHANGED <<vdb, disk, counter, count, gnawed>>

-----------------------------------------------------------------------------
(* register_merged: publish_staged_entry renames an entry of the same name *)
(* out of the way ...                                                      *)
Displace(t) ==
    /\ At(t, "register")
    /\ task[t].new \cap dirs # {}
    /\ dirs' = dirs \ task[t].new
    /\ slotted' = slotted \ task[t].new
    /\ listing' = listing \ task[t].new
    /\ contents' = [x \in Packages |-> IF x \in listing' THEN contents[x] ELSE {}]
    /\ UNCHANGED <<disk, counter, locks, index, task, count, gnawed>>

(* ... and the staged one, complete and with a counter of its own, in.     *)
Publish(t) ==
    /\ At(t, "register")
    /\ task[t].new \cap dirs = {}
    /\ counter' = counter + 1
    /\ dirs' = dirs \cup task[t].new
    /\ slotted' = slotted \cup task[t].new
    /\ listing' = listing \cup task[t].new
    /\ contents' = [x \in Packages |-> IF x \in task[t].new THEN task[t].image
                                                            ELSE contents[x]]
    /\ task' = [task EXCEPT
                   ![t].pc = "refresh",
                   ![t].idx = {[i EXCEPT !.owners =
                                   [x \in Packages |-> IF x \in task[t].new
                                                       THEN task[t].image ELSE @[x]]] :
                               i \in task[t].idx}]
    /\ gnawed' = gnawed \ task[t].new
    /\ UNCHANGED <<disk, locks, index, count>>

RefreshIndex(t) ==
    /\ At(t, "refresh")
    /\ task' = [task EXCEPT ![t].pc = "postinst", ![t].idx = Restamped(t)]
    /\ UNCHANGED <<vdb, disk, counter, locks, index, count, gnawed>>

(* pkg_postinst ended well: the index is put back for the next merge.      *)
EndMerge(t) ==
    /\ At(t, "postinst")
    /\ index' = [index EXCEPT ![ProcOf[t]] = task[t].idx]
    /\ End(t)
    /\ UNCHANGED <<vdb, disk, counter, count, gnawed>>

(* The lock cannot be taken; a scan, pkg_preinst, pkg_prerm, the removal   *)
(* or pkg_postrm, the registration or pkg_postinst fails.                  *)
Fails(t) ==
    /\ task[t].pc \in {"lock", "index", "read", "unregister", "rmdir",
                       "register", "refresh", "postinst"}
    /\ Fault
    /\ End(t)
    /\ Invalidate(t)
    /\ UNCHANGED <<vdb, disk, counter, gnawed>>

(* The process dies, half-way through a write or a removal if it was at    *)
(* one; the kernel drops its lock.                                         *)
Die(p) ==
    LET writing  == UNION {task[t].image : t \in {u \in TasksOf(p) : At(u, "write")}}
        removing == {u \in TasksOf(p) : At(u, "remove")}
        deleting == UNION {task[t].listed \ task[t].image : t \in removing}
    IN  /\ \E t \in TasksOf(p) : ~At(t, "idle")
        /\ Fault
        /\ \E part \in SUBSET writing, gone \in SUBSET deleting :
               disk' = (disk \cup part) \ gone
        /\ gnawed' = gnawed \cup UNION {task[t].victim : t \in removing}
        /\ task' = [t \in Tasks |-> IF ProcOf[t] = p THEN Idle ELSE task[t]]
        /\ gate' = [gate EXCEPT ![p] = {}]
        /\ lock' = lock \ TasksOf(p)
        /\ index' = [index EXCEPT ![p] = {}]
        /\ UNCHANGED <<vdb, counter>>

Step(t) ==
    \/ TakeGate(t) \/ TakeLock(t)
    \/ FindOccupant(t) \/ TakeOrBuild(t) \/ StampIndex(t)
    \/ CheckCollisions(t) \/ Refuse(t) \/ WriteFiles(t)
    \/ ReadContents(t) \/ NoContents(t) \/ RemoveFiles(t)
    \/ RemoveFields(t) \/ RemoveDir(t) \/ NoDirectory(t) \/ EndUnmerge(t)
    \/ Displace(t) \/ Publish(t) \/ RefreshIndex(t) \/ EndMerge(t)

Next ==
    \/ \E t \in Tasks : \/ BeginMerge(t) \/ BeginUnmerge(t) \/ BeginRemoval(t)
                        \/ Step(t) \/ WriteFails(t) \/ Fails(t)
    \/ \E p \in Procs : Die(p)

Spec == Init /\ [][Next]_vars

(* Every task that can go on does; both locks are free again and again,    *)
(* and the jobs that compete for them are bounded.                         *)
FairSpec == Spec /\ \A t \in Tasks : WF_vars(Step(t))

-----------------------------------------------------------------------------
Option(S) == {o \in SUBSET S : \A a, b \in o : a = b}

Index == [owners : SomeOwned, stamp : [counter : Nat, names : SUBSET Packages]]

Pcs == {"idle", "gate", "lock", "occupant", "index", "stamp", "check", "refused", "write",
        "read", "remove", "unregister", "rmdir", "removed", "register", "refresh", "postinst"}

Task == [pc : Pcs, new : Option(Packages), image : SUBSET Paths,
         victim : Option(Packages), listed : SUBSET Paths, idx : Option(Index)]

TypeOK ==
    /\ dirs \subseteq Packages
    /\ slotted \subseteq dirs /\ listing \subseteq dirs
    /\ contents \in SomeOwned
    /\ disk \subseteq Paths
    /\ counter \in Nat
    /\ gate \in [Procs -> Option(Tasks)] /\ lock \in Option(Tasks)
    /\ index \in [Procs -> Option(Index)]
    /\ task \in [Tasks -> Task]
    /\ gnawed \subseteq Packages
    /\ jobs \in 0 .. MaxJobs /\ removals \in Nat /\ faults \in Nat
    /\ removals + faults <= MaxUpsets

(* No path is owned by two installed packages, whatever merged at once,    *)
(* from whichever process, on whichever kept index, and whatever died      *)
(* half-way (check_collisions).                                            *)
NoSharedPaths ==
    \A x, y \in listing : x # y => contents[x] \cap contents[y] = {}

(* At most one package a reader can see in a slot: a merge that races      *)
(* another for the slot, or was cut short, never leaves two.               *)
SlotUnique ==
    \A x, y \in slotted : x # y => SlotOf[x] # SlotOf[y]

Undisturbed == removals = 0 /\ faults = 0

(* An index a process would reuse knows every owner there is, also those   *)
(* other processes added since; and between merges it knows nobody else,   *)
(* unless something was removed without the lock or cut short (is_current, *)
(* refresh).                                                               *)
IndexExact ==
    \A p \in Procs : \A i \in index[p] : Current(i) =>
        \A x \in Packages : /\ contents[x] \subseteq i.owners[x]
                            /\ (Undisturbed /\ lock = {}) =>
                                   i.owners[x] = contents[x]

(* The files a package owns exist, but for the package whose removal has   *)
(* begun: replacing or removing one never takes another's files, and not   *)
(* the ones its successor has just written.                                *)
OwnedOnDisk ==
    removals = 0 =>
        \A x \in dirs \ gnawed : contents[x] \subseteq disk

(* Once all is quiet every file on disk is owned and every owned file is   *)
(* there: no merge, refused or not, leaves files behind by itself.         *)
Settled ==
    (Undisturbed /\ \A t \in Tasks : At(t, "idle")) =>
        disk = UNION {contents[x] : x \in dirs}

(* Everything begun ends: the gate and the lock are always given back, and *)
(* are taken in one order.                                                 *)
JobsEnd == \A t \in Tasks : ~At(t, "idle") ~> At(t, "idle")
=============================================================================
