---------------------------- MODULE PreserveLibs ----------------------------
(***************************************************************************)
(* Preserved libraries (portage-cli/src/preserve_libs.rs): a removal never *)
(* deletes a shared library an installed package still needs and nothing   *)
(* else provides.  The link graph and the registry are kept by a merge     *)
(* batch in memory (MergePreserveState, in the merge gate of               *)
(* portage-cli/src/ebuild/mod.rs) or loaded for one removal batch          *)
(* (execute_unmerge_batch, portage-cli/src/emerge.rs).                     *)
(*                                                                         *)
(* A library is its path; a soname stands for the pair of multilib         *)
(* category and soname the code matches by.                                *)
(***************************************************************************)
EXTENDS Naturals, FiniteSets

CONSTANTS
    Packages, Slots,
    SlotOf,            \* package -> its slot
    Libs,              \* package -> the paths of the libraries it installs
    Needs,             \* package -> the sonames its NEEDED.ELF.2 requires
    Paths, SonameOf,   \* the library paths, and the soname of each
    Modes,             \* process -> how its merges may keep the state
    MaxJobs,           \* bound: merges and removal batches begun
    MaxFaults          \* bound: failed phases and killed processes

Procs == DOMAIN Modes
NoProc == "none"

ASSUME PreserveLibsAssumption ==
    /\ SlotOf \in [Packages -> Slots]
    /\ Libs \in [Packages -> SUBSET Paths]
    /\ DOMAIN Needs = Packages /\ DOMAIN SonameOf = Paths
    (* The collision check of run_merge (QMerge, NoSharedPaths).           *)
    /\ \A q, r \in Packages : SlotOf[q] # SlotOf[r] => Libs[q] \cap Libs[r] = {}
    /\ \A p \in Procs : Modes[p] \subseteq {"indexed", "flushed", "oneshot", "unlocked"}
    /\ NoProc \notin Procs
    /\ MaxJobs \in Nat /\ MaxFaults \in Nat

VARIABLES
    installed,         \* packages with a VDB entry
    disk,              \* the library paths that exist
    registry,          \* the registry file: slot -> preserved paths
    lock,              \* the process that holds the merge lock
    mode,              \* process -> the mode it runs in
    state,             \* process -> its MergePreserveState: at most one
    index,             \* process -> its ownership index: absent, current, stale
    job,               \* process -> the merge or removal batch it is at
    jobs, faults,      \* counts towards the bounds
    overlap,           \* history: a removal without the lock met another job
    forgotten          \* history: files a registry entry was replaced over,
                       \*          that a failed merge left, that only a
                       \*          killed process knew, or whose entry two
                       \*          processes changed at once

vars == <<installed, disk, registry, lock, mode, state, index, job, jobs,
          faults, overlap, forgotten>>

Idle == [at |-> "idle", new |-> {}, batch |-> {}, left |-> {}]
NoEntry == [s \in Slots |-> {}]

(* The paths in a registry (an absent key is the empty set).               *)
AllPaths(reg) == UNION {reg[s] : s \in Slots}
Owned(pkgs)   == UNION {Libs[q] : q \in pkgs}
Provided(pkgs) == {SonameOf[f] : f \in Owned(pkgs)}
Needed(pkgs)   == UNION {Needs[q] : q \in pkgs}
Occupant(q)    == {o \in installed : SlotOf[o] = SlotOf[q]}
Available(s)   == \E f \in disk : SonameOf[f] = s

-----------------------------------------------------------------------------
(* The link graph: the packages it counts, and the sonames the preserved   *)
(* files provide.  Providers and consumer files follow from these.         *)
NoGraph == [built |-> FALSE, pkgs |-> {}, kept |-> {}]
Preserved(reg) == {SonameOf[f] : f \in AllPaths(reg) \cap disk}
BuildGraph(exclude, reg) ==
    [built |-> TRUE, pkgs |-> installed \ exclude, kept |-> Preserved(reg)]
GraphWithout(g, out) == [g EXCEPT !.pkgs = @ \ out]
GraphProviders(g) == Provided(g.pkgs) \cup g.kept

(* The libraries of old that something in the graph needs and nothing in   *)
(* it provides, short of those the incoming package owns.                  *)
ToPreserve(g, old, incoming) ==
    {f \in Libs[old] \cap disk :
        /\ SonameOf[f] \in Needed(g.pkgs)
        /\ SonameOf[f] \notin GraphProviders(g)
        /\ f \notin Owned(incoming)}

(* An entry names the instance it was left by: a new one is never equal to *)
(* the one loaded.                                                         *)
Register(st, old, paths) ==
    [st EXCEPT !.reg[SlotOf[old]] = paths, !.fresh = @ \cup {SlotOf[old]}]

(* What reclaim leaves of a registry: entries a live package owns go, and  *)
(* so do missing files and those whose soname nobody needs, which are      *)
(* deleted.                                                                *)
UnownedSlip(reg) == reg
Unowned(reg) == [s \in Slots |-> reg[s] \ Owned(installed)]
Unneeded(reg) == {f \in AllPaths(Unowned(reg)) \cap disk :
                      SonameOf[f] \notin Needed(installed)}
Reclaimed(reg) == [s \in Slots |-> (Unowned(reg)[s] \cap disk) \ Unneeded(reg)]

(* The keys store writes: those this registry changed.                     *)
Writes(st, reg) ==
    {s \in Slots : reg[s] # st.orig[s] \/ (s \in st.fresh /\ reg[s] # {})}

(* The file after store: the other keys stay as they are by then.          *)
StoredSlip(st, reg) == reg
Stored(st, reg) == [s \in Slots |-> IF s \in Writes(st, reg) THEN reg[s] ELSE registry[s]]

LoadState == [reg |-> registry, orig |-> registry, fresh |-> {},
              graph |-> NoGraph, dirty |-> FALSE]

(* What storing st loses of the entries another process wrote since it was *)
(* loaded and this one changed too.                                        *)
Overtaken(st, stored) ==
    UNION {registry[s] \ (stored[s] \cup st.reg[s]) :
               s \in {z \in Writes(st, Reclaimed(st.reg)) : registry[z] # st.orig[z]}}

(* MergePreserveState::finish on each state of the set (an Option).        *)
FileAfter(st) ==
    LET reg == Reclaimed(st.reg)
    IN IF st.dirty \/ st.reg # NoEntry \/ reg # NoEntry THEN Stored(st, reg) ELSE registry

Finish(sts) ==
    IF sts = {} THEN UNCHANGED <<disk, registry, forgotten>>
    ELSE \E st \in sts :
           /\ disk' = disk \ Unneeded(st.reg)
           /\ registry' = FileAfter(st)
           /\ forgotten' = forgotten \cup Overtaken(st, FileAfter(st))
-----------------------------------------------------------------------------
Init ==
    /\ installed \in {I \in SUBSET Packages :
                         \A q, r \in I : SlotOf[q] = SlotOf[r] => q = r}
    /\ disk = Owned(installed)
    /\ registry = NoEntry
    /\ lock = NoProc
    /\ mode \in {m \in [Procs -> UNION {Modes[p] : p \in Procs}] :
                    \A p \in Procs : m[p] \in Modes[p]}
    /\ state = [p \in Procs |-> {}]
    /\ index = [p \in Procs |-> "absent"]
    /\ job = [p \in Procs |-> Idle]
    /\ jobs = 0 /\ faults = 0
    /\ overlap = FALSE
    /\ forgotten = {}

At(p, at) == job[p].at = at
Active(p) == job[p].at # "idle"
Fault == faults < MaxFaults /\ faults' = faults + 1

(* A change of the VDB by p makes every other process's index stale.       *)
Touch(p) == index' = [q \in Procs |->
                        IF q # p /\ index[q] = "current" THEN "stale" ELSE index[q]]

(* A job that runs beside another one: only removals without the lock can. *)
Meets(p) == overlap' = (overlap \/ \E q \in Procs \ {p} : Active(q))

BeginJob(p, j) == /\ job' = [job EXCEPT ![p] = j]
                  /\ jobs' = jobs + 1

(* run_merge takes the merge lock, finds the slot occupant and calls       *)
(* take_or_build.  The kept state is used again only by an indexed batch   *)
(* whose index is current.                                                 *)
KeepsStateSlip(p) == mode[p] = "indexed" /\ index[p] # "absent"
KeepsState(p) == mode[p] = "indexed" /\ index[p] = "current"

BeginMerge(p, new) ==
    /\ At(p, "idle") /\ mode[p] # "unlocked" /\ lock = NoProc /\ jobs < MaxJobs
    /\ lock' = p
    /\ BeginJob(p, [Idle EXCEPT !.at = "copy", !.new = {new}, !.left = Occupant(new)])
    /\ IF KeepsState(p) THEN UNCHANGED <<disk, registry, state, forgotten>>
       ELSE /\ Finish(state[p])
            /\ state' = [state EXCEPT ![p] = {}]
    /\ index' = [index EXCEPT ![p] = "absent"]
    /\ Meets(p)
    /\ UNCHANGED <<installed, mode, faults>>

(* The image is copied, the state loaded, and the slot occupant taken out  *)
(* of the graph.                                                           *)
Copy(p) ==
    /\ At(p, "copy")
    /\ \E new \in job[p].new :
         LET kept == IF state[p] = {} THEN {LoadState} ELSE state[p]
             graphed(st) == [st EXCEPT !.graph =
                 GraphWithout(IF @.built THEN @ ELSE BuildGraph({}, st.reg),
                              job[p].left)]
         IN /\ disk' = disk \cup Libs[new]
            /\ IF job[p].left = {}
               THEN /\ state' = [state EXCEPT ![p] = kept]
                    /\ job' = [job EXCEPT ![p].at = "register"]
               ELSE /\ state' = [state EXCEPT ![p] = {graphed(st) : st \in kept}]
                    /\ job' = [job EXCEPT ![p].at = "replace"]
    /\ UNCHANGED <<installed, registry, lock, mode, index, jobs, faults, overlap, forgotten>>

(* What a merge that failed leaves: its files stay, the index is not put   *)
(* back, and a state of its own is finished (nobody wrote the registry     *)
(* since it was loaded under the lock, but an `em -C`).                    *)
FailMerge(p) ==
    /\ job' = [job EXCEPT ![p] = Idle]
    /\ lock' = NoProc
    /\ LET left == Owned(job[p].new) \cap disk
       IN IF mode[p] = "oneshot" /\ state[p] # {}
          THEN /\ \E st \in state[p] :
                    /\ disk' = disk \ Unneeded(st.reg)
                    /\ registry' = FileAfter(st)
                    /\ forgotten' = forgotten \cup left \cup Overtaken(st, FileAfter(st))
               /\ state' = [state EXCEPT ![p] = {}]
          ELSE forgotten' = forgotten \cup left /\ UNCHANGED <<disk, registry, state>>
    /\ index' = [index EXCEPT ![p] = "absent"]

(* pkg_preinst (before the copy), pkg_prerm or pkg_postrm fails, or the    *)
(* occupant was removed by another process and has no CONTENTS to read.    *)
PhaseFails(p) ==
    /\ \/ job[p].at \in {"copy", "replace", "postrm"} /\ Fault
       \/ At(p, "replace") /\ ~(job[p].left \subseteq installed) /\ UNCHANGED faults
    /\ FailMerge(p)
    /\ UNCHANGED <<installed, mode, jobs, overlap>>

(* unmerge_package for the slot occupant: register what is preserved,      *)
(* delete the rest, drop the entry.  Files the entry of the slot held      *)
(* before are no longer in it.                                             *)
Replace(p) ==
    /\ At(p, "replace")
    /\ \E old \in job[p].left \cap installed, st \in state[p] :
         LET paths == ToPreserve(st.graph, old, job[p].new)
         IN /\ disk' = disk \ (Libs[old] \ (Owned(job[p].new) \cup paths))
            /\ installed' = installed \ {old}
            /\ state' = [state EXCEPT ![p] =
                  {Register(st, old, paths)}]
            /\ forgotten' = forgotten \cup (st.reg[SlotOf[old]] \ paths)
    /\ job' = [job EXCEPT ![p].at = "postrm"]
    /\ Touch(p) /\ Meets(p)
    /\ UNCHANGED <<registry, lock, mode, jobs, faults>>

(* package_removed: what the graph knows of the registry is renewed.       *)
PackageRemoved(p) ==
    /\ At(p, "postrm")
    /\ state' = [state EXCEPT ![p] =
          {[st EXCEPT !.dirty = TRUE, !.graph.kept = Preserved(st.reg)] : st \in @}]
    /\ job' = [job EXCEPT ![p].at = "register", ![p].left = {}]
    /\ UNCHANGED <<installed, disk, registry, lock, mode, index, jobs, faults,
                   overlap, forgotten>>

(* register_merged, and package_added.                                     *)
RegisterNew(p) ==
    /\ At(p, "register")
    /\ installed' = installed \cup job[p].new
    /\ state' = [state EXCEPT ![p] = {[st EXCEPT !.graph.pkgs =
                    IF st.graph.built THEN @ \cup job[p].new ELSE @] : st \in @}]
    /\ index' = [q \in Procs |->
                   IF q = p THEN IF mode[p] = "indexed" THEN "current" ELSE "absent"
                   ELSE IF index[q] = "current" THEN "stale" ELSE index[q]]
    /\ job' = [job EXCEPT ![p].at = "postinst"]
    /\ Meets(p)
    /\ UNCHANGED <<disk, registry, lock, mode, jobs, faults, forgotten>>

(* The entry cannot be written: the occupant is gone, the new one absent.  *)
RegisterFails(p) ==
    /\ At(p, "register") /\ Fault
    /\ FailMerge(p)
    /\ UNCHANGED <<installed, mode, jobs, overlap>>

(* A one-shot state is finished as soon as the package is registered; then *)
(* pkg_postinst runs, and may fail.                                        *)
EndMerge(p) ==
    /\ At(p, "postinst")
    /\ IF mode[p] = "oneshot"
       THEN Finish(state[p]) /\ state' = [state EXCEPT ![p] = {}]
       ELSE UNCHANGED <<disk, registry, state, forgotten>>
    /\ \/ UNCHANGED <<faults, index>>
       \/ Fault /\ index' = [index EXCEPT ![p] = "absent"]
    /\ job' = [job EXCEPT ![p] = Idle]
    /\ lock' = NoProc
    /\ Meets(p)
    /\ UNCHANGED <<installed, mode, jobs>>

(* MergeGate::finish, after the merge loop.                                *)
FinishGate(p) ==
    /\ At(p, "idle") /\ state[p] # {} /\ lock = NoProc
    /\ Finish(state[p])
    /\ state' = [state EXCEPT ![p] = {}]
    /\ Meets(p)
    /\ UNCHANGED <<installed, lock, mode, index, job, jobs, faults>>
-----------------------------------------------------------------------------
(* A removal batch: `em -C` and `--depclean` without the lock, a scheduled *)
(* unmerge with it, after the kept state was finished.  One graph, without *)
(* the whole batch, serves every removal.                                  *)
BeginRemoval(p, batch) ==
    /\ At(p, "idle") /\ jobs < MaxJobs
    /\ batch # {} /\ batch \subseteq installed
    /\ IF mode[p] = "unlocked" THEN UNCHANGED lock
       ELSE lock = NoProc /\ mode[p] # "oneshot" /\ lock' = p
    /\ BeginJob(p, [Idle EXCEPT !.at = "load", !.batch = batch, !.left = batch])
    /\ Finish(state[p])
    /\ state' = [state EXCEPT ![p] = {}]
    /\ Meets(p)
    /\ UNCHANGED <<installed, mode, index, faults>>

LoadRemoval(p) ==
    /\ At(p, "load")
    /\ state' = [state EXCEPT ![p] =
           {[LoadState EXCEPT !.graph = BuildGraph(job[p].batch, registry)]}]
    /\ job' = [job EXCEPT ![p].at = "remove"]
    /\ UNCHANGED <<installed, disk, registry, lock, mode, index, jobs, faults,
                   overlap, forgotten>>

RemoveOne(p, old) ==
    /\ At(p, "remove") /\ old \in job[p].left
    /\ job' = [job EXCEPT ![p].left = @ \ {old}]
    /\ \/ (* pkg_prerm fails: the loop goes on to the next package         *)
          /\ Fault
          /\ UNCHANGED <<installed, disk, state, index, forgotten>>
       \/ (* another process removed it: nothing to read, the next package *)
          /\ old \notin installed
          /\ UNCHANGED <<installed, disk, state, index, forgotten, faults>>
       \/ /\ old \in installed
          /\ \E st \in state[p] :
               LET paths == ToPreserve(st.graph, old, {})
               IN /\ disk' = disk \ (Libs[old] \ paths)
                  /\ state' = [state EXCEPT ![p] =
                                 {Register(st, old, paths)}]
                  /\ forgotten' = forgotten \cup (st.reg[SlotOf[old]] \ paths)
          /\ installed' = installed \ {old}
          /\ Touch(p)
          /\ UNCHANGED faults
    /\ Meets(p)
    /\ UNCHANGED <<registry, lock, mode, jobs>>

EndRemovalSlip(p) ==
    /\ At(p, "remove") /\ job[p].left = {}
    /\ Finish(state[p])
    /\ state' = [state EXCEPT ![p] = {}]
    /\ job' = [job EXCEPT ![p] = Idle]
    /\ lock' = NoProc
    /\ UNCHANGED <<installed, mode, index, jobs, faults, overlap>>

(* The batch is through, or a signal stops it early; reclaim and store.    *)
EndRemoval(p) ==
    /\ At(p, "remove")
    /\ \/ job[p].left = {} /\ UNCHANGED faults
       \/ job[p].left # {} /\ Fault
    /\ \E st \in state[p] :
         /\ disk' = disk \ Unneeded(st.reg)
         /\ registry' = Stored(st, Reclaimed(st.reg))
         /\ forgotten' = forgotten \cup Overtaken(st, Stored(st, Reclaimed(st.reg)))
    /\ state' = [state EXCEPT ![p] = {}]
    /\ index' = [index EXCEPT ![p] = "absent"]
    /\ job' = [job EXCEPT ![p] = Idle]
    /\ lock' = IF lock = p THEN NoProc ELSE lock
    /\ Meets(p)
    /\ UNCHANGED <<installed, mode, jobs>>

Known(p) == UNION {AllPaths(st.reg) : st \in state[p]}

(* The process dies: what it had registered and not stored is forgotten.   *)
Killed(p) ==
    /\ Fault
    /\ Active(p) \/ state[p] # {}
    /\ forgotten' = forgotten \cup Known(p) \cup Owned(job[p].new)
    /\ state' = [state EXCEPT ![p] = {}]
    /\ index' = [index EXCEPT ![p] = "absent"]
    /\ job' = [job EXCEPT ![p] = Idle]
    /\ lock' = IF lock = p THEN NoProc ELSE lock
    /\ UNCHANGED <<installed, disk, registry, mode, jobs, overlap>>

Next ==
    \E p \in Procs :
        \/ \E new \in Packages : BeginMerge(p, new)
        \/ Copy(p)
        \/ PhaseFails(p)
        \/ Replace(p)
        \/ PackageRemoved(p)
        \/ RegisterNew(p)
        \/ RegisterFails(p)
        \/ EndMerge(p)
        \/ FinishGate(p)
        \/ \E batch \in SUBSET installed : BeginRemoval(p, batch)
        \/ LoadRemoval(p)
        \/ \E old \in Packages : RemoveOne(p, old)
        \/ EndRemoval(p)
        \/ Killed(p)

Spec == Init /\ [][Next]_vars
-----------------------------------------------------------------------------
Registries == [Slots -> SUBSET Paths]
States == [reg : Registries, orig : Registries, dirty : BOOLEAN, fresh : SUBSET Slots,
           graph : [built : BOOLEAN, pkgs : SUBSET Packages,
                    kept : SUBSET {SonameOf[f] : f \in Paths}]]

Jobs == [at : {"idle", "copy", "replace", "postrm", "register", "postinst", "load", "remove"},
         new : SUBSET Packages, batch : SUBSET Packages, left : SUBSET Packages]

(* Type invariant; one holder of the lock, and a job that merges holds it. *)
TypeOK ==
    /\ installed \subseteq Packages /\ disk \subseteq Paths
    /\ registry \in Registries
    /\ lock \in Procs \cup {NoProc}
    /\ state \in [Procs -> SUBSET States]
    /\ \A p \in Procs : \A st, other \in state[p] : st = other
    /\ index \in [Procs -> {"absent", "current", "stale"}]
    /\ job \in [Procs -> Jobs]
    /\ \A p \in Procs : Active(p) /\ mode[p] # "unlocked" => lock = p
    /\ jobs \in 0..MaxJobs /\ faults \in 0..MaxFaults
    /\ overlap \in BOOLEAN /\ forgotten \subseteq Paths

(* The packages a running batch is committed to removing.                  *)
Doomed == UNION {job[p].batch : p \in Procs}

Loses(q) == \E s \in Needs[q] : Available(s) /\ ~Available(s)'

(* The paths the registry file or a registry in memory lists.              *)
Listed == AllPaths(registry) \cup UNION {Known(p) : p \in Procs}

(* A link graph counts on a preserved library of which no copy is left but *)
(* those that packages own: a preserved path was merged again, and its     *)
(* entry waits for the end of the batch.                                   *)
Miscounted ==
    \E st \in UNION {state[p] : p \in Procs} :
        ~(st.graph.kept \subseteq {SonameOf[f] : f \in disk \ Owned(installed)})

Spared == (installed \cap installed') \ Doomed

(* No step deletes the last copy of a library an installed package needs,  *)
(* whichever process takes it and however long ago its link graph was      *)
(* built, unless a removal without the lock ran beside another job, the    *)
(* graph counts on a preserved path that has an owner again, or the        *)
(* package is itself in the batch being removed.                           *)
NeededLibsKept == [][\A q \in Spared : overlap' \/ Miscounted \/ ~Loses(q)]_vars

(* The same while a preserved path with an owner still awaits reclamation  *)
(* (MergePreserveState: "Reclamation is deferred until the batch ends;     *)
(* keeping a preserved file on disk until then is safe and lets a later    *)
(* replacement still use it as a provider").                               *)
DeferredReclaimSafe == [][\A q \in Spared : overlap' \/ ~Loses(q)]_vars

(* A library an installed package owns is on disk: neither the pruning of  *)
(* the registry nor the removal of another package takes it.               *)
OwnedLibsOnDisk == overlap \/ Owned(installed) \subseteq disk

(* Every library on disk that no package owns is known to the registry     *)
(* file or to the registry a running process is going to store, short of   *)
(* those a later entry of the same slot replaced, a failed merge left, a   *)
(* killed process had not stored yet, or whose entry two processes changed *)
(* at once.                                                                *)
InProgress == UNION {Owned(job[p].new) : p \in Procs}
PreservedTracked ==
    overlap \/ disk \subseteq
        Owned(installed) \cup Listed \cup forgotten \cup InProgress
=============================================================================
