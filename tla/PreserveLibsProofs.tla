------------------------- MODULE PreserveLibsProofs -------------------------
(***************************************************************************)
(* Proofs about PreserveLibs for any packages, libraries, needs and        *)
(* processes.  That a removal deletes no needed library rests on its link  *)
(* graph counting exactly the packages that stay (GraphExact); that no     *)
(* preserved file is lost, on every entry a process loaded being still     *)
(* there or replaced over (OrigKept), and on the entries it registered     *)
(* being those it will write (Tracked).                                    *)
(***************************************************************************)
EXTENDS PreserveLibs, TLAPS

(* Stages of a job.                                                        *)
Merging(p)  == job[p].at \in {"copy", "replace", "postrm", "register", "postinst"}
Removing(p) == job[p].at \in {"load", "remove"}

(* What a job holds at each stage, and the two ends of a merge that know   *)
(* who is in the slot.                                                     *)
Shaped(p) ==
    /\ Merging(p) => mode[p] # "unlocked" /\ \E new \in Packages : job[p].new = {new}
    /\ ~Merging(p) => job[p].new = {}
    /\ Removing(p) => job[p].left \subseteq job[p].batch
    /\ At(p, "load") => state[p] = {}
    /\ \A new \in job[p].new :
         /\ job[p].at \in {"copy", "replace"} => Occupant(new) = job[p].left \cap installed
         /\ job[p].at \in {"postrm", "register"} => Occupant(new) = {}

SlotUnique == \A q, r \in installed : SlotOf[q] = SlotOf[r] => q = r

(* Nobody else is at work, until a removal without the lock meets a job.   *)
Alone == \A p, q \in Procs : Active(p) /\ Active(q) => p = q

(* What a job has copied is there, and what it registered is installed.    *)
CopiedHeld ==
    \A p \in Procs :
        /\ job[p].at \in {"replace", "postrm", "register"} => Owned(job[p].new) \subseteq disk
        /\ At(p, "postinst") => job[p].new \subseteq installed

(* The packages a link graph counts are those installed, but for those the *)
(* job is about to take out.                                               *)
Exact(p, st) ==
    /\ At(p, "idle") /\ KeepsState(p) /\ st.graph.built => st.graph.pkgs = installed
    /\ job[p].at \in {"copy", "register", "postinst"} /\ st.graph.built =>
           st.graph.pkgs = installed
    /\ At(p, "replace") => st.graph.built /\ st.graph.pkgs = installed \ job[p].left
    /\ At(p, "postrm") => st.graph.built /\ st.graph.pkgs = installed
    /\ At(p, "remove") => st.graph.built /\ st.graph.pkgs = installed \ job[p].batch

GraphExact == \A p \in Procs : \A st \in state[p] : Exact(p, st)

(* An entry that was loaded is still there, or was replaced over.          *)
OrigKept == \A p \in Procs : \A st \in state[p] : \A s \in Slots :
                st.orig[s] \subseteq st.reg[s] \cup forgotten

(* The entries a state has registered, and so will write.                  *)
Pending == {f \in Paths : \E p \in Procs : \E st \in state[p] : \E s \in st.fresh : f \in st.reg[s]}

Tracked ==
    disk \subseteq Owned(installed) \cup AllPaths(registry) \cup Pending
                      \cup forgotten \cup InProgress

(* What the inductive arguments take for granted of every state, and what  *)
(* holds until a removal without the lock meets another job.               *)
Base == TypeOK /\ SlotUnique /\ \A p \in Procs : Shaped(p)

Untroubled ==
    Alone /\ CopiedHeld /\ GraphExact /\ Owned(installed) \subseteq disk /\ Tracked

IInv == Base /\ OrigKept /\ (overlap \/ Untroubled)

-----------------------------------------------------------------------------
(* Types.                                                                  *)

LEMMA StoreTypes ==
    ASSUME TypeOK, NEW st \in States
    PROVE  /\ Reclaimed(st.reg) \in Registries
           /\ Stored(st, Reclaimed(st.reg)) \in Registries /\ FileAfter(st) \in Registries
           /\ \A stored : Overtaken(st, stored) \subseteq Paths
           /\ AllPaths(st.reg) \subseteq Paths
<1>1. registry \in [Slots -> SUBSET Paths] /\ st.reg \in [Slots -> SUBSET Paths]
    BY DEF TypeOK, States, Registries
<1>2. Reclaimed(st.reg) \in Registries
    BY <1>1 DEF Reclaimed, Unowned, Registries
<1>3. Stored(st, Reclaimed(st.reg)) \in Registries
    BY <1>1, <1>2 DEF Stored, Registries
<1>4. FileAfter(st) \in Registries
    BY <1>1, <1>3 DEF FileAfter, Registries
<1>5. \A stored : Overtaken(st, stored) \subseteq Paths
    BY <1>1 DEF Overtaken, Writes
<1>6. AllPaths(st.reg) \subseteq Paths
    BY <1>1 DEF AllPaths
<1> QED BY <1>2, <1>3, <1>4, <1>5, <1>6

LEMMA RegisterType ==
    ASSUME TypeOK, NEW st \in States, NEW old \in Packages, NEW paths \in SUBSET Paths
    PROVE  Register(st, old, paths) \in States
<1>1. SlotOf[old] \in Slots
    BY PreserveLibsAssumption
<1>2. [st.reg EXCEPT ![SlotOf[old]] = paths] \in Registries
    BY DEF States, Registries
<1>3. st.fresh \cup {SlotOf[old]} \in SUBSET Slots
    BY <1>1 DEF States
<1>4. [st EXCEPT !.reg = [st.reg EXCEPT ![SlotOf[old]] = paths],
                 !.fresh = st.fresh \cup {SlotOf[old]}] \in States
    BY <1>2, <1>3 DEF States
<1> QED BY <1>4 DEF Register, States

LEMMA PreserveType ==
    ASSUME TypeOK, NEW g, NEW old \in Packages, NEW incoming
    PROVE  ToPreserve(g, old, incoming) \in SUBSET Paths
BY DEF TypeOK, ToPreserve

LEMMA GraphTypes ==
    ASSUME TypeOK, NEW reg, NEW exclude
    PROVE  /\ Preserved(reg) \subseteq {SonameOf[f] : f \in Paths}
           /\ BuildGraph(exclude, reg) \in [built : BOOLEAN, pkgs : SUBSET Packages,
                                            kept : SUBSET {SonameOf[f] : f \in Paths}]
<1>1. Preserved(reg) \subseteq {SonameOf[f] : f \in Paths}
    BY DEF Preserved, TypeOK
<1> QED BY <1>1 DEF BuildGraph, TypeOK

LEMMA LoadType == ASSUME TypeOK PROVE LoadState \in States
BY DEF TypeOK, LoadState, NoGraph, States

(* What finishing a state does to the disk, the registry and the history.  *)
LEMMA FinishTypes ==
    ASSUME TypeOK, NEW p \in Procs, Finish(state[p])
    PROVE  /\ disk' \subseteq disk /\ registry' \in Registries
           /\ forgotten \subseteq forgotten' /\ forgotten' \subseteq Paths
<1>1. CASE state[p] = {}
    BY <1>1 DEF Finish, TypeOK
<1>2. CASE state[p] # {}
  <2>1. PICK st \in state[p] : /\ disk' = disk \ Unneeded(st.reg)
                               /\ registry' = FileAfter(st)
                               /\ forgotten' = forgotten \cup Overtaken(st, FileAfter(st))
      BY <1>2 DEF Finish
  <2>2. st \in States
      BY DEF TypeOK
  <2>3. Overtaken(st, FileAfter(st)) \subseteq Paths /\ registry' \in Registries
      BY <2>1, <2>2, StoreTypes
  <2> QED BY <2>1, <2>3 DEF TypeOK
<1> QED BY <1>1, <1>2

LEMMA MergeHoldsLock ==
    ASSUME Base, NEW p \in Procs, Merging(p)
    PROVE  lock = p /\ mode[p] # "unlocked"
BY DEF Base, TypeOK, Shaped, Merging, Active

LEMMA FailTypes ==
    ASSUME Base, NEW p \in Procs, Merging(p), FailMerge(p)
    PROVE  /\ job' = [job EXCEPT ![p] = Idle] /\ lock' = NoProc
           /\ disk' \subseteq disk /\ registry' \in Registries
           /\ forgotten' \subseteq Paths
           /\ forgotten \cup (Owned(job[p].new) \cap disk) \subseteq forgotten'
           /\ index' = [index EXCEPT ![p] = "absent"]
           /\ state' = state \/ state' = [state EXCEPT ![p] = {}]
<1>1. CASE mode[p] = "oneshot" /\ state[p] # {}
  <2>1. PICK st \in state[p] :
            /\ disk' = disk \ Unneeded(st.reg)
            /\ registry' = FileAfter(st)
            /\ forgotten' = forgotten \cup (Owned(job[p].new) \cap disk)
                                      \cup Overtaken(st, FileAfter(st))
      BY <1>1 DEF FailMerge
  <2>2. st \in States
      BY DEF TypeOK, Base
  <2>3. Overtaken(st, FileAfter(st)) \subseteq Paths /\ registry' \in Registries
      BY <2>1, <2>2, StoreTypes DEF Base
  <2> QED BY <1>1, <2>1, <2>3 DEF TypeOK, FailMerge, Base
<1>2. CASE ~(mode[p] = "oneshot" /\ state[p] # {})
    BY <1>2 DEF FailMerge, TypeOK, Base
<1> QED BY <1>1, <1>2

LEMMA IdleType == Idle \in Jobs
BY DEF Idle, Jobs

(* A step that leaves the other jobs alone keeps the lock with its holder. *)
LEMMA LockStep ==
    ASSUME Base, NEW p \in Procs, mode' = mode,
           \A q \in Procs \ {p} : job'[q] = job[q],
           \/ lock = NoProc /\ lock' = p
           \/ lock' = lock /\ (job[p].at = "idle" /\ mode[p] # "unlocked" => job'[p].at = "idle")
           \/ lock = p /\ lock' = NoProc /\ job'[p].at = "idle"
    PROVE  /\ lock' \in Procs \cup {NoProc}
           /\ \A q \in Procs : Active(q)' /\ mode'[q] # "unlocked" => lock' = q
BY PreserveLibsAssumption DEF Base, TypeOK, Active


(* What every step of a process p does, and leaves alone.                  *)
Effect(p) ==
    /\ mode' = mode
    /\ job' \in [Procs -> Jobs] /\ state' \in [Procs -> SUBSET States]
    /\ \A q \in Procs \ {p} : job'[q] = job[q] /\ state'[q] = state[q]
    /\ \A st, other \in state'[p] : st = other
    /\ index' \in [Procs -> {"absent", "current", "stale"}]
    /\ installed' \subseteq Packages /\ disk' \subseteq Paths /\ registry' \in Registries
    /\ forgotten \subseteq forgotten' /\ forgotten' \subseteq Paths
    /\ jobs' \in 0..MaxJobs /\ faults' \in 0..MaxFaults
    /\ overlap' \in BOOLEAN /\ (overlap => overlap')
    /\ \/ lock = NoProc /\ lock' = p
       \/ lock' = lock /\ (job[p].at = "idle" /\ mode[p] # "unlocked" => job'[p].at = "idle")
       \/ lock = p /\ lock' = NoProc /\ job'[p].at = "idle"
    /\ installed' \subseteq installed \/ Merging(p)

LEMMA BaseKept ==
    ASSUME Base, NEW p \in Procs, Effect(p), Shaped(p)', SlotUnique'
    PROVE  Base'
<1>1. \A q \in Procs : Active(q)' /\ mode'[q] # "unlocked" => lock' = q
    BY LockStep DEF Effect
<1>2. lock' \in Procs \cup {NoProc}
    BY LockStep DEF Effect
<1>3. \A q \in Procs : \A st, other \in state'[q] : st = other
    BY DEF Effect, Base, TypeOK
<1>4. TypeOK'
    BY <1>1, <1>2, <1>3 DEF Effect, TypeOK
<1>5. ASSUME NEW q \in Procs \ {p} PROVE Shaped(q)'
  <2>1. job'[q] = job[q] /\ state'[q] = state[q] /\ mode'[q] = mode[q] /\ Shaped(q)
      BY DEF Effect, Base
  <2>2. CASE installed' \subseteq installed
      BY <2>1, <2>2 DEF Shaped, Merging, Removing, At, Occupant
  <2>3. CASE Merging(p)
    <3>1. ~Merging(q)
        BY <2>3, MergeHoldsLock
    <3> QED BY <2>1, <3>1 DEF Shaped, Merging, Removing, At
  <2> QED BY <2>2, <2>3 DEF Effect
<1> QED BY <1>4, <1>5 DEF Base

(* How a step changes what p is at, and the counts.                        *)
LEMMA JobSet ==
    ASSUME Base, NEW p \in Procs, NEW j \in Jobs, job' = [job EXCEPT ![p] = j]
    PROVE  /\ job' \in [Procs -> Jobs] /\ job'[p] = j
           /\ \A q \in Procs \ {p} : job'[q] = job[q]
BY DEF Base, TypeOK

LEMMA StateSet ==
    ASSUME Base, NEW p \in Procs, NEW S \in SUBSET States, \A a, b \in S : a = b,
           state' = [state EXCEPT ![p] = S]
    PROVE  /\ state' \in [Procs -> SUBSET States] /\ state'[p] = S
           /\ \A q \in Procs \ {p} : state'[q] = state[q]
           /\ \A a, b \in state'[p] : a = b
BY DEF Base, TypeOK

LEMMA StateSame ==
    ASSUME Base, NEW p \in Procs, state' = state
    PROVE  /\ state' \in [Procs -> SUBSET States]
           /\ \A q \in Procs \ {p} : state'[q] = state[q]
           /\ \A a, b \in state'[p] : a = b
BY DEF Base, TypeOK

LEMMA StateEmptied ==
    ASSUME Base, NEW p \in Procs, state' = [state EXCEPT ![p] = {}]
    PROVE  /\ state' \in [Procs -> SUBSET States] /\ state'[p] = {}
           /\ \A q \in Procs \ {p} : state'[q] = state[q]
           /\ \A a, b \in state'[p] : a = b
BY DEF Base, TypeOK

-----------------------------------------------------------------------------
(* The steps of a merge.                                                   *)
LEMMA BeginMergeEffect ==
    ASSUME Base, NEW p \in Procs, NEW new \in Packages, BeginMerge(p, new)
    PROVE  /\ Effect(p)
           /\ job'[p] = [Idle EXCEPT !.at = "copy", !.new = {new}, !.left = Occupant(new)]
<1> DEFINE j == [Idle EXCEPT !.at = "copy", !.new = {new}, !.left = Occupant(new)]
<1>1. j \in Jobs
  <2>1. Occupant(new) \subseteq Packages
      BY DEF Occupant, Base, TypeOK
  <2> QED BY <2>1 DEF Idle, Jobs
<1>2. job' = [job EXCEPT ![p] = j] /\ jobs' = jobs + 1 /\ lock = NoProc /\ lock' = p
      /\ jobs < MaxJobs /\ installed' = installed /\ mode' = mode /\ faults' = faults
      /\ index' = [index EXCEPT ![p] = "absent"]
    BY DEF BeginMerge, BeginJob
<1>3. overlap' \in BOOLEAN /\ (overlap => overlap')
    BY DEF BeginMerge, Meets, Base, TypeOK
<1>4. CASE KeepsState(p)
  <2>1. UNCHANGED <<disk, registry, state, forgotten>>
      BY <1>4 DEF BeginMerge
  <2> QED BY <1>1, <1>2, <1>3, <2>1, JobSet, StateSame, PreserveLibsAssumption
          DEF Effect, Base, TypeOK
<1>5. CASE ~KeepsState(p)
  <2>1. Finish(state[p]) /\ state' = [state EXCEPT ![p] = {}]
      BY <1>5 DEF BeginMerge
  <2>2. /\ disk' \subseteq disk /\ registry' \in Registries
        /\ forgotten \subseteq forgotten' /\ forgotten' \subseteq Paths
      BY <2>1, FinishTypes DEF Base
  <2> QED BY <1>1, <1>2, <1>3, <2>1, <2>2, JobSet, StateEmptied, PreserveLibsAssumption
          DEF Effect, Base, TypeOK
<1> QED BY <1>4, <1>5

LEMMA BeginMergeBase ==
    ASSUME Base, NEW p \in Procs, NEW new \in Packages, BeginMerge(p, new)
    PROVE  Base'
<1>1. /\ Effect(p)
      /\ job'[p] = [Idle EXCEPT !.at = "copy", !.new = {new}, !.left = Occupant(new)]
    BY BeginMergeEffect
<1>2. installed' = installed /\ mode' = mode /\ mode[p] # "unlocked"
    BY DEF BeginMerge
<1>3. Shaped(p)'
    BY <1>1, <1>2 DEF Shaped, Merging, Removing, At, Occupant, Idle
<1>4. SlotUnique'
    BY <1>2 DEF SlotUnique, Base
<1> QED BY <1>1, <1>3, <1>4, BaseKept

(* The graph of a kept state, built when it was not, without the occupant. *)
Graphed(st, left) == [st EXCEPT !.graph =
    GraphWithout(IF @.built THEN @ ELSE BuildGraph({}, st.reg), left)]
Kept(p) == IF state[p] = {} THEN {LoadState} ELSE state[p]

LEMMA GraphedType ==
    ASSUME TypeOK, NEW st \in States, NEW left
    PROVE  /\ Graphed(st, left) \in States
           /\ Graphed(st, left).reg = st.reg /\ Graphed(st, left).orig = st.orig
           /\ Graphed(st, left).fresh = st.fresh
           /\ Graphed(st, left).graph.built
           /\ Graphed(st, left).graph.pkgs =
                  (IF st.graph.built THEN st.graph.pkgs ELSE installed) \ left
<1> DEFINE G == [built : BOOLEAN, pkgs : SUBSET Packages,
                 kept : SUBSET {SonameOf[f] : f \in Paths}]
<1> DEFINE g == IF st.graph.built THEN st.graph ELSE BuildGraph({}, st.reg)
<1>1. st.graph \in G /\ g \in G
    BY GraphTypes DEF States
<1>2. g.built /\ g.pkgs = (IF st.graph.built THEN st.graph.pkgs ELSE installed)
    BY DEF BuildGraph
<1>3. GraphWithout(g, left) \in G /\ GraphWithout(g, left).built = g.built
      /\ GraphWithout(g, left).pkgs = g.pkgs \ left
    BY <1>1 DEF GraphWithout
<1>4. Graphed(st, left) = [st EXCEPT !.graph = GraphWithout(g, left)]
    BY DEF Graphed
<1> HIDE DEF g
<1> QED BY <1>1, <1>2, <1>3, <1>4 DEF States

LEMMA KeptType ==
    ASSUME Base, NEW p \in Procs
    PROVE  Kept(p) \subseteq States /\ \A a, b \in Kept(p) : a = b
BY LoadType DEF Kept, Base, TypeOK

LEMMA CopyEffect ==
    ASSUME Base, NEW p \in Procs, Copy(p)
    PROVE  /\ Effect(p) /\ At(p, "copy") /\ disk' = disk \cup Owned(job[p].new)
           /\ UNCHANGED <<installed, registry, index, overlap, forgotten>>
           /\ \/ /\ job[p].left = {} /\ state'[p] = Kept(p)
                 /\ job'[p] = [job[p] EXCEPT !.at = "register"]
              \/ /\ state'[p] = {Graphed(st, job[p].left) : st \in Kept(p)}
                 /\ job'[p] = [job[p] EXCEPT !.at = "replace"]
<1>1. PICK new \in Packages : job[p].new = {new}
    BY DEF Copy, Base, Shaped, Merging, At
<1>2. /\ At(p, "copy") /\ Merging(p) /\ lock' = lock /\ job[p].at = "copy"
      /\ UNCHANGED <<installed, registry, lock, mode, index, jobs, faults, overlap, forgotten>>
    BY DEF Copy, At, Merging
<1>3. job[p] \in Jobs /\ [job[p] EXCEPT !.at = "register"] \in Jobs
      /\ [job[p] EXCEPT !.at = "replace"] \in Jobs
  <2>1. job[p] \in Jobs
      BY DEF Base, TypeOK
  <2> QED BY <2>1 DEF Jobs
<1>4. disk' = disk \cup Libs[new] /\ Libs[new] = Owned(job[p].new) /\ disk' \subseteq Paths
    BY <1>1, PreserveLibsAssumption DEF Copy, Owned, Base, TypeOK
<1>5. CASE job[p].left = {}
  <2>1. state' = [state EXCEPT ![p] = Kept(p)]
        /\ job' = [job EXCEPT ![p] = [job[p] EXCEPT !.at = "register"]]
      BY <1>1, <1>5 DEF Copy, Kept
  <2>2. /\ job' \in [Procs -> Jobs] /\ job'[p] = [job[p] EXCEPT !.at = "register"]
        /\ \A q \in Procs \ {p} : job'[q] = job[q]
      BY <1>3, <2>1, JobSet
  <2>3. /\ state' \in [Procs -> SUBSET States] /\ state'[p] = Kept(p)
        /\ \A q \in Procs \ {p} : state'[q] = state[q]
        /\ \A a, b \in state'[p] : a = b
      BY <2>1, KeptType, StateSet
  <2> QED BY <1>2, <1>4, <1>5, <2>2, <2>3 DEF Effect, Base, TypeOK
<1>6. CASE job[p].left # {}
  <2> DEFINE S == {Graphed(st, job[p].left) : st \in Kept(p)}
  <2>1. state' = [state EXCEPT ![p] = S]
        /\ job' = [job EXCEPT ![p] = [job[p] EXCEPT !.at = "replace"]]
      BY <1>1, <1>6 DEF Copy, Kept, Graphed
  <2>2. /\ job' \in [Procs -> Jobs] /\ job'[p] = [job[p] EXCEPT !.at = "replace"]
        /\ \A q \in Procs \ {p} : job'[q] = job[q]
      BY <1>3, <2>1, JobSet
  <2>3. S \subseteq States /\ \A a, b \in S : a = b
      BY KeptType, GraphedType DEF Base
  <2>4. /\ state' \in [Procs -> SUBSET States] /\ state'[p] = S
        /\ \A q \in Procs \ {p} : state'[q] = state[q]
        /\ \A a, b \in state'[p] : a = b
    <3> HIDE DEF S
    <3> QED BY <2>1, <2>3, StateSet
  <2> QED BY <1>2, <1>4, <1>6, <2>2, <2>4 DEF Effect, Base, TypeOK
<1> QED BY <1>5, <1>6

LEMMA CopyBase == ASSUME Base, NEW p \in Procs, Copy(p) PROVE Base'
<1>1. /\ Effect(p) /\ At(p, "copy") /\ installed' = installed /\ mode' = mode
      /\ \E at \in {"register", "replace"} :
            job'[p] = [job[p] EXCEPT !.at = at] /\ (at = "register" => job[p].left = {})
    BY CopyEffect DEF Effect
<1>2. Shaped(p) /\ job[p] \in Jobs
    BY DEF Base, TypeOK
<1>3. PICK at \in {"register", "replace"} :
          job'[p] = [job[p] EXCEPT !.at = at] /\ (at = "register" => job[p].left = {})
    BY <1>1
<1>4. job'[p].at = at /\ job'[p].new = job[p].new /\ job'[p].left = job[p].left
    BY <1>2, <1>3 DEF Jobs
<1>5. Shaped(p)'
    BY <1>1, <1>2, <1>3, <1>4 DEF Shaped, Merging, Removing, At, Occupant
<1>6. SlotUnique'
    BY <1>1 DEF SlotUnique, Base
<1> QED BY <1>1, <1>5, <1>6, BaseKept

(* The two ways a merge fails.                                             *)
Fails(p) == PhaseFails(p) \/ RegisterFails(p)

LEMMA FailsEffect ==
    ASSUME Base, NEW p \in Procs, Fails(p)
    PROVE  /\ Effect(p) /\ Merging(p) /\ FailMerge(p) /\ job'[p] = Idle
           /\ UNCHANGED <<installed, overlap>> /\ disk' \subseteq disk
           /\ forgotten \cup (Owned(job[p].new) \cap disk) \subseteq forgotten'
           /\ index' = [index EXCEPT ![p] = "absent"]
           /\ state'[p] \in {state[p], {}}
<1>1. Merging(p) /\ FailMerge(p) /\ UNCHANGED <<installed, mode, jobs, overlap>>
      /\ faults' \in 0 .. MaxFaults
    BY PreserveLibsAssumption
       DEF Fails, PhaseFails, RegisterFails, Merging, At, Fault, Base, TypeOK
<1>2. lock = p
    BY <1>1, MergeHoldsLock
<1>3. /\ job' = [job EXCEPT ![p] = Idle] /\ lock' = NoProc
      /\ disk' \subseteq disk /\ registry' \in Registries
      /\ forgotten' \subseteq Paths
      /\ forgotten \cup (Owned(job[p].new) \cap disk) \subseteq forgotten'
      /\ index' = [index EXCEPT ![p] = "absent"]
      /\ state' = state \/ state' = [state EXCEPT ![p] = {}]
    BY <1>1, FailTypes
<1>4. /\ job' \in [Procs -> Jobs] /\ job'[p] = Idle
      /\ \A q \in Procs \ {p} : job'[q] = job[q]
    BY <1>3, IdleType, JobSet
<1>5. /\ state' \in [Procs -> SUBSET States] /\ state'[p] \in {state[p], {}}
      /\ \A q \in Procs \ {p} : state'[q] = state[q]
      /\ \A a, b \in state'[p] : a = b
    BY <1>3, StateSame, StateEmptied
<1>6. job'[p].at = "idle"
    BY <1>4 DEF Idle
<1> QED BY <1>1, <1>2, <1>3, <1>4, <1>5, <1>6 DEF Effect, Base, TypeOK

LEMMA IdleShaped == ASSUME NEW p \in Procs, job'[p] = Idle PROVE Shaped(p)'
BY DEF Idle, Shaped, Merging, Removing, At

LEMMA FailsBase == ASSUME Base, NEW p \in Procs, Fails(p) PROVE Base'
<1>1. Effect(p) /\ job'[p] = Idle /\ installed' = installed
    BY FailsEffect
<1>2. SlotUnique'
    BY <1>1 DEF SlotUnique, Base
<1> QED BY <1>1, <1>2, IdleShaped, BaseKept

(* The occupant that goes, and what is kept of it.                         *)
LEMMA ReplaceEffect ==
    ASSUME Base, NEW p \in Procs, Replace(p)
    PROVE  /\ Effect(p) /\ At(p, "replace") /\ Meets(p) /\ Touch(p) /\ registry' = registry
           /\ job'[p] = [job[p] EXCEPT !.at = "postrm"]
           /\ \E old \in job[p].left \cap installed : \E st \in state[p] :
                LET paths == ToPreserve(st.graph, old, job[p].new)
                IN  /\ installed' = installed \ {old}
                    /\ disk' = disk \ (Libs[old] \ (Owned(job[p].new) \cup paths))
                    /\ state'[p] = {Register(st, old, paths)}
                    /\ forgotten' = forgotten \cup (st.reg[SlotOf[old]] \ paths)
<1>1. /\ At(p, "replace") /\ job[p].at = "replace" /\ Meets(p) /\ Touch(p)
      /\ job' = [job EXCEPT ![p] = [job[p] EXCEPT !.at = "postrm"]]
      /\ UNCHANGED <<registry, lock, mode, jobs, faults>>
    BY DEF Replace, At
<1>2. PICK old \in job[p].left \cap installed, st \in state[p] :
          LET paths == ToPreserve(st.graph, old, job[p].new)
          IN  /\ installed' = installed \ {old}
              /\ disk' = disk \ (Libs[old] \ (Owned(job[p].new) \cup paths))
              /\ state' = [state EXCEPT ![p] = {Register(st, old, paths)}]
              /\ forgotten' = forgotten \cup (st.reg[SlotOf[old]] \ paths)
    BY DEF Replace
<1> DEFINE paths == ToPreserve(st.graph, old, job[p].new)
<1>3. old \in Packages /\ st \in States /\ paths \in SUBSET Paths
    BY PreserveType DEF Base, TypeOK
<1>4. Register(st, old, paths) \in States
    BY <1>3, RegisterType DEF Base
<1>5. /\ job' \in [Procs -> Jobs] /\ job'[p] = [job[p] EXCEPT !.at = "postrm"]
      /\ \A q \in Procs \ {p} : job'[q] = job[q]
  <2>1. [job[p] EXCEPT !.at = "postrm"] \in Jobs
    <3>1. job[p] \in Jobs
        BY DEF Base, TypeOK
    <3> QED BY <3>1 DEF Jobs
  <2> QED BY <1>1, <2>1, JobSet
<1>6. /\ state' \in [Procs -> SUBSET States] /\ state'[p] = {Register(st, old, paths)}
      /\ \A q \in Procs \ {p} : state'[q] = state[q]
      /\ \A a, b \in state'[p] : a = b
  <2> DEFINE S == {Register(st, old, paths)}
  <2>1. S \in SUBSET States /\ (\A a, b \in S : a = b) /\ state' = [state EXCEPT ![p] = S]
      BY <1>2, <1>4
  <2> HIDE DEF S
  <2>2. /\ state' \in [Procs -> SUBSET States] /\ state'[p] = S
        /\ \A q \in Procs \ {p} : state'[q] = state[q]
        /\ \A a, b \in state'[p] : a = b
      BY <2>1, StateSet
  <2> QED BY <2>2 DEF S
<1>7. SlotOf[old] \in Slots /\ st.reg[SlotOf[old]] \subseteq Paths
    BY <1>3, PreserveLibsAssumption DEF States, Registries
<1>8. index' \in [Procs -> {"absent", "current", "stale"}]
      /\ overlap' \in BOOLEAN /\ (overlap => overlap')
    BY <1>1 DEF Touch, Meets, Base, TypeOK
<1>9. Effect(p)
  <2>1. installed' \subseteq installed /\ disk' \subseteq disk
        /\ forgotten' = forgotten \cup (st.reg[SlotOf[old]] \ paths)
      BY <1>2
  <2> QED BY <1>1, <1>5, <1>6, <1>7, <1>8, <2>1 DEF Effect, Base, TypeOK
<1> QED BY <1>1, <1>2, <1>5, <1>6, <1>9


LEMMA ReplaceBase == ASSUME Base, NEW p \in Procs, Replace(p) PROVE Base'
<1>1. /\ Effect(p) /\ At(p, "replace") /\ job'[p] = [job[p] EXCEPT !.at = "postrm"]
      /\ mode' = mode
    BY ReplaceEffect DEF Effect
<1>2. PICK old \in job[p].left \cap installed : installed' = installed \ {old}
    BY ReplaceEffect
<1>3. Shaped(p) /\ job[p] \in Jobs
    BY DEF Base, TypeOK
<1>4. job'[p].at = "postrm" /\ job'[p].new = job[p].new
    BY <1>1, <1>3 DEF Jobs
<1>5. ASSUME NEW new \in job[p].new PROVE Occupant(new)' = {}
  <2>1. Occupant(new) = job[p].left \cap installed
      BY <1>1, <1>3 DEF Shaped, At
  <2>2. \A o \in Occupant(new) : o = old
      BY <1>2, <2>1 DEF Occupant, Base, SlotUnique
  <2> QED BY <1>2, <2>2 DEF Occupant
<1>6. Shaped(p)'
    BY <1>1, <1>3, <1>4, <1>5 DEF Shaped, Merging, Removing, At
<1>7. SlotUnique'
    BY <1>2 DEF SlotUnique, Base
<1> QED BY <1>1, <1>6, <1>7, BaseKept

(* The graph's view of the preserved files is renewed.                     *)
Renewed(st) == [st EXCEPT !.dirty = TRUE, !.graph.kept = Preserved(st.reg)]

LEMMA RenewedType ==
    ASSUME TypeOK, NEW st \in States
    PROVE  /\ Renewed(st) \in States
           /\ Renewed(st).reg = st.reg /\ Renewed(st).orig = st.orig
           /\ Renewed(st).fresh = st.fresh
           /\ Renewed(st).graph.built = st.graph.built
           /\ Renewed(st).graph.pkgs = st.graph.pkgs
<1>1. Preserved(st.reg) \subseteq {SonameOf[f] : f \in Paths}
    BY GraphTypes
<1>2. [st.graph EXCEPT !.kept = Preserved(st.reg)] \in
          [built : BOOLEAN, pkgs : SUBSET Packages, kept : SUBSET {SonameOf[f] : f \in Paths}]
    BY <1>1 DEF States
<1>3. Renewed(st) = [st EXCEPT !.dirty = TRUE,
                               !.graph = [st.graph EXCEPT !.kept = Preserved(st.reg)]]
    BY DEF Renewed, States
<1> QED BY <1>2, <1>3 DEF States

LEMMA PackageRemovedEffect ==
    ASSUME Base, NEW p \in Procs, PackageRemoved(p)
    PROVE  /\ Effect(p) /\ At(p, "postrm")
           /\ UNCHANGED <<installed, disk, registry, index, overlap, forgotten>>
           /\ job'[p] = [job[p] EXCEPT !.at = "register", !.left = {}]
           /\ state'[p] = {Renewed(st) : st \in state[p]}
<1>1. /\ At(p, "postrm") /\ job[p].at = "postrm"
      /\ job' = [job EXCEPT ![p] = [job[p] EXCEPT !.at = "register", !.left = {}]]
      /\ state' = [state EXCEPT ![p] = {Renewed(st) : st \in state[p]}]
      /\ UNCHANGED <<installed, disk, registry, lock, mode, index, jobs, faults,
                     overlap, forgotten>>
    BY DEF PackageRemoved, At, Renewed, Base, TypeOK
<1>2. [job[p] EXCEPT !.at = "register", !.left = {}] \in Jobs
  <2>1. job[p] \in Jobs
      BY DEF Base, TypeOK
  <2> QED BY <2>1 DEF Jobs
<1>3. {Renewed(st) : st \in state[p]} \subseteq States
      /\ \A a, b \in {Renewed(st) : st \in state[p]} : a = b
    BY RenewedType DEF Base, TypeOK
<1>4. /\ job' \in [Procs -> Jobs]
      /\ job'[p] = [job[p] EXCEPT !.at = "register", !.left = {}]
      /\ \A q \in Procs \ {p} : job'[q] = job[q]
    BY <1>1, <1>2, JobSet
<1>5. /\ state' \in [Procs -> SUBSET States]
      /\ state'[p] = {Renewed(st) : st \in state[p]}
      /\ \A q \in Procs \ {p} : state'[q] = state[q]
      /\ \A a, b \in state'[p] : a = b
  <2> DEFINE S == {Renewed(st) : st \in state[p]}
  <2>1. S \in SUBSET States /\ (\A a, b \in S : a = b) /\ state' = [state EXCEPT ![p] = S]
      BY <1>1, <1>3
  <2> HIDE DEF S
  <2>2. /\ state' \in [Procs -> SUBSET States] /\ state'[p] = S
        /\ \A q \in Procs \ {p} : state'[q] = state[q]
        /\ \A a, b \in state'[p] : a = b
      BY <2>1, StateSet
  <2> QED BY <2>2 DEF S
<1> QED BY <1>1, <1>4, <1>5 DEF Effect, Base, TypeOK

LEMMA PackageRemovedBase == ASSUME Base, NEW p \in Procs, PackageRemoved(p) PROVE Base'
<1>1. /\ Effect(p) /\ At(p, "postrm") /\ installed' = installed /\ mode' = mode
      /\ job'[p] = [job[p] EXCEPT !.at = "register", !.left = {}]
    BY PackageRemovedEffect DEF Effect
<1>2. Shaped(p) /\ job[p] \in Jobs
    BY DEF Base, TypeOK
<1>3. job'[p].at = "register" /\ job'[p].new = job[p].new
    BY <1>1, <1>2 DEF Jobs
<1>4. Shaped(p)'
    BY <1>1, <1>2, <1>3 DEF Shaped, Merging, Removing, At, Occupant
<1>5. SlotUnique'
    BY <1>1 DEF SlotUnique, Base
<1> QED BY <1>1, <1>4, <1>5, BaseKept

(* The package is listed, and counted by a graph that was built.           *)
Added(st, new) == [st EXCEPT !.graph.pkgs = IF st.graph.built THEN @ \cup new ELSE @]

LEMMA AddedType ==
    ASSUME NEW st \in States, NEW new \in SUBSET Packages
    PROVE  /\ Added(st, new) \in States
           /\ Added(st, new).reg = st.reg /\ Added(st, new).orig = st.orig
           /\ Added(st, new).fresh = st.fresh
           /\ Added(st, new).graph.built = st.graph.built
           /\ st.graph.built => Added(st, new).graph.pkgs = st.graph.pkgs \cup new
<1> DEFINE pkgs == IF st.graph.built THEN st.graph.pkgs \cup new ELSE st.graph.pkgs
<1>1. [st.graph EXCEPT !.pkgs = pkgs] \in
          [built : BOOLEAN, pkgs : SUBSET Packages, kept : SUBSET {SonameOf[f] : f \in Paths}]
    BY DEF States
<1>2. Added(st, new) = [st EXCEPT !.graph = [st.graph EXCEPT !.pkgs = pkgs]]
    BY DEF Added, States
<1> QED BY <1>1, <1>2 DEF States

LEMMA RegisterNewEffect ==
    ASSUME Base, NEW p \in Procs, RegisterNew(p)
    PROVE  /\ Effect(p) /\ At(p, "register") /\ Meets(p)
           /\ UNCHANGED <<disk, registry, forgotten>>
           /\ installed' = installed \cup job[p].new
           /\ \A q \in Procs \ {p} : index'[q] # "current"
           /\ job'[p] = [job[p] EXCEPT !.at = "postinst"]
           /\ state'[p] = {Added(st, job[p].new) : st \in state[p]}
<1>1. /\ At(p, "register") /\ Merging(p) /\ job[p].at = "register" /\ Meets(p)
      /\ job' = [job EXCEPT ![p] = [job[p] EXCEPT !.at = "postinst"]]
      /\ state' = [state EXCEPT ![p] = {Added(st, job[p].new) : st \in state[p]}]
      /\ installed' = installed \cup job[p].new
      /\ UNCHANGED <<disk, registry, lock, mode, jobs, faults, forgotten>>
    BY DEF RegisterNew, At, Added, Merging, Base, TypeOK
<1>2. [job[p] EXCEPT !.at = "postinst"] \in Jobs /\ job[p].new \in SUBSET Packages
  <2>1. job[p] \in Jobs
      BY DEF Base, TypeOK
  <2> QED BY <2>1 DEF Jobs
<1>3. {Added(st, job[p].new) : st \in state[p]} \subseteq States
      /\ \A a, b \in {Added(st, job[p].new) : st \in state[p]} : a = b
    BY <1>2, AddedType DEF Base, TypeOK
<1>4. /\ job' \in [Procs -> Jobs]
      /\ job'[p] = [job[p] EXCEPT !.at = "postinst"]
      /\ \A q \in Procs \ {p} : job'[q] = job[q]
    BY <1>1, <1>2, JobSet
<1>5. /\ state' \in [Procs -> SUBSET States]
      /\ state'[p] = {Added(st, job[p].new) : st \in state[p]}
      /\ \A q \in Procs \ {p} : state'[q] = state[q]
      /\ \A a, b \in state'[p] : a = b
  <2> DEFINE S == {Added(st, job[p].new) : st \in state[p]}
  <2>1. S \in SUBSET States /\ (\A a, b \in S : a = b) /\ state' = [state EXCEPT ![p] = S]
      BY <1>1, <1>3
  <2> HIDE DEF S
  <2>2. /\ state' \in [Procs -> SUBSET States] /\ state'[p] = S
        /\ \A q \in Procs \ {p} : state'[q] = state[q]
        /\ \A a, b \in state'[p] : a = b
      BY <2>1, StateSet
  <2> QED BY <2>2 DEF S
<1>6. /\ index' \in [Procs -> {"absent", "current", "stale"}]
      /\ \A q \in Procs \ {p} : index'[q] # "current"
    BY DEF RegisterNew, Base, TypeOK
<1>7. overlap' \in BOOLEAN /\ (overlap => overlap')
    BY <1>1 DEF Meets, Base, TypeOK
<1> QED BY <1>1, <1>2, <1>4, <1>5, <1>6, <1>7 DEF Effect, Base, TypeOK

LEMMA RegisterNewBase == ASSUME Base, NEW p \in Procs, RegisterNew(p) PROVE Base'
<1>1. /\ Effect(p) /\ At(p, "register") /\ mode' = mode
      /\ installed' = installed \cup job[p].new
      /\ job'[p] = [job[p] EXCEPT !.at = "postinst"]
    BY RegisterNewEffect DEF Effect
<1>2. Shaped(p) /\ job[p] \in Jobs
    BY DEF Base, TypeOK
<1>3. job'[p].at = "postinst" /\ job'[p].new = job[p].new
    BY <1>1, <1>2 DEF Jobs
<1>4. PICK new \in Packages : job[p].new = {new}
    BY <1>1, <1>2 DEF Shaped, Merging, At
<1>5. Shaped(p)'
    BY <1>1, <1>2, <1>3, <1>4 DEF Shaped, Merging, Removing, At
<1>6. Occupant(new) = {}
    BY <1>1, <1>2, <1>4 DEF Shaped, At
<1>7. SlotUnique'
    BY <1>1, <1>4, <1>6 DEF SlotUnique, Base, Occupant
<1> QED BY <1>1, <1>5, <1>7, BaseKept

(* The end of a merge, and of a batch of merges.                           *)
LEMMA EndMergeEffect ==
    ASSUME Base, NEW p \in Procs, EndMerge(p)
    PROVE  /\ Effect(p) /\ At(p, "postinst") /\ Meets(p) /\ job'[p] = Idle
           /\ installed' = installed /\ index'[p] \in {index[p], "absent"}
           /\ \A q \in Procs \ {p} : index'[q] = index[q]
           /\ \/ UNCHANGED <<disk, registry, state, forgotten>>
              \/ Finish(state[p]) /\ state'[p] = {}
<1>1. /\ At(p, "postinst") /\ Merging(p) /\ Meets(p) /\ lock' = NoProc
      /\ job' = [job EXCEPT ![p] = Idle] /\ UNCHANGED <<installed, mode, jobs>>
    BY DEF EndMerge, At, Merging
<1>2. faults' \in 0 .. MaxFaults
    BY PreserveLibsAssumption DEF EndMerge, Fault, Base, TypeOK
<1>3. index' = index \/ index' = [index EXCEPT ![p] = "absent"]
    BY DEF EndMerge
<1>4. lock = p
    BY <1>1, MergeHoldsLock
<1>5. /\ job' \in [Procs -> Jobs] /\ job'[p] = Idle /\ job'[p].at = "idle"
      /\ \A q \in Procs \ {p} : job'[q] = job[q]
    BY <1>1, IdleType, JobSet DEF Idle
<1>6. overlap' \in BOOLEAN /\ (overlap => overlap')
    BY <1>1 DEF Meets, Base, TypeOK
<1>7. /\ index' \in [Procs -> {"absent", "current", "stale"}]
      /\ index'[p] \in {index[p], "absent"}
      /\ \A q \in Procs \ {p} : index'[q] = index[q]
    BY <1>3 DEF Base, TypeOK
<1>8. CASE mode[p] = "oneshot"
  <2>1. Finish(state[p]) /\ state' = [state EXCEPT ![p] = {}]
      BY <1>8 DEF EndMerge
  <2>2. /\ disk' \subseteq disk /\ registry' \in Registries
        /\ forgotten \subseteq forgotten' /\ forgotten' \subseteq Paths
      BY <2>1, FinishTypes DEF Base
  <2>3. /\ state' \in [Procs -> SUBSET States] /\ state'[p] = {}
        /\ \A q \in Procs \ {p} : state'[q] = state[q]
        /\ \A a, b \in state'[p] : a = b
      BY <2>1, StateEmptied
  <2> QED BY <1>1, <1>2, <1>4, <1>5, <1>6, <1>7, <2>1, <2>2, <2>3 DEF Effect, Base, TypeOK
<1>9. CASE mode[p] # "oneshot"
  <2>1. UNCHANGED <<disk, registry, state, forgotten>>
      BY <1>9 DEF EndMerge
  <2> QED BY <1>1, <1>2, <1>4, <1>5, <1>6, <1>7, <2>1, StateSame DEF Effect, Base, TypeOK
<1> QED BY <1>8, <1>9

LEMMA EndMergeBase == ASSUME Base, NEW p \in Procs, EndMerge(p) PROVE Base'
<1>1. Effect(p) /\ job'[p] = Idle /\ installed' = installed
    BY EndMergeEffect
<1>2. SlotUnique'
    BY <1>1 DEF SlotUnique, Base
<1> QED BY <1>1, <1>2, IdleShaped, BaseKept

LEMMA FinishGateEffect ==
    ASSUME Base, NEW p \in Procs, FinishGate(p)
    PROVE  /\ Effect(p) /\ Meets(p) /\ At(p, "idle") /\ UNCHANGED <<installed, index, job>>
           /\ Finish(state[p]) /\ state'[p] = {}
<1>1. /\ Meets(p) /\ At(p, "idle") /\ Finish(state[p]) /\ state' = [state EXCEPT ![p] = {}]
      /\ UNCHANGED <<installed, lock, mode, index, job, jobs, faults>>
    BY DEF FinishGate
<1>2. /\ disk' \subseteq disk /\ registry' \in Registries
      /\ forgotten \subseteq forgotten' /\ forgotten' \subseteq Paths
    BY <1>1, FinishTypes DEF Base
<1>3. /\ state' \in [Procs -> SUBSET States] /\ state'[p] = {}
      /\ \A q \in Procs \ {p} : state'[q] = state[q]
      /\ \A a, b \in state'[p] : a = b
    BY <1>1, StateEmptied
<1>4. overlap' \in BOOLEAN /\ (overlap => overlap')
    BY <1>1 DEF Meets, Base, TypeOK
<1> QED BY <1>1, <1>2, <1>3, <1>4 DEF Effect, Base, TypeOK, At

LEMMA FinishGateBase == ASSUME Base, NEW p \in Procs, FinishGate(p) PROVE Base'
<1>1. /\ Effect(p) /\ UNCHANGED <<installed, job, mode>> /\ At(p, "idle") /\ state'[p] = {}
    BY FinishGateEffect DEF Effect
<1>2. SlotUnique' /\ Shaped(p)'
    BY <1>1 DEF SlotUnique, Base, Shaped, Merging, Removing, At, Occupant
<1> QED BY <1>1, <1>2, BaseKept

-----------------------------------------------------------------------------
(* The steps of a removal batch, and the death of a process.               *)
LEMMA BeginRemovalEffect ==
    ASSUME Base, NEW p \in Procs, NEW batch \in SUBSET installed, BeginRemoval(p, batch)
    PROVE  /\ Effect(p) /\ Meets(p) /\ UNCHANGED <<installed, index>>
           /\ At(p, "idle") /\ Finish(state[p]) /\ state'[p] = {}
           /\ job'[p] = [Idle EXCEPT !.at = "load", !.batch = batch, !.left = batch]
<1> DEFINE j == [Idle EXCEPT !.at = "load", !.batch = batch, !.left = batch]
<1>1. j \in Jobs /\ j.at = "load"
    BY DEF Idle, Jobs, Base, TypeOK
<1>2. /\ Meets(p) /\ At(p, "idle") /\ Finish(state[p]) /\ state' = [state EXCEPT ![p] = {}]
      /\ job' = [job EXCEPT ![p] = j] /\ jobs' = jobs + 1 /\ jobs < MaxJobs
      /\ UNCHANGED <<installed, mode, index, faults>>
    BY DEF BeginRemoval, BeginJob
<1>3. \/ mode[p] = "unlocked" /\ lock' = lock
      \/ lock = NoProc /\ lock' = p
    BY DEF BeginRemoval
<1>4. /\ disk' \subseteq disk /\ registry' \in Registries
      /\ forgotten \subseteq forgotten' /\ forgotten' \subseteq Paths
    BY <1>2, FinishTypes DEF Base
<1>5. /\ state' \in [Procs -> SUBSET States] /\ state'[p] = {}
      /\ \A q \in Procs \ {p} : state'[q] = state[q]
      /\ \A a, b \in state'[p] : a = b
    BY <1>2, StateEmptied
<1> HIDE DEF j
<1>6. /\ job' \in [Procs -> Jobs] /\ job'[p] = j /\ \A q \in Procs \ {p} : job'[q] = job[q]
    BY <1>1, <1>2, JobSet
<1>7. overlap' \in BOOLEAN /\ (overlap => overlap') /\ jobs' \in 0 .. MaxJobs
    BY <1>2, PreserveLibsAssumption DEF Meets, Base, TypeOK
<1>8. Effect(p)
    BY <1>1, <1>2, <1>3, <1>4, <1>5, <1>6, <1>7 DEF Effect, Base, TypeOK
<1> QED BY <1>2, <1>5, <1>6, <1>8 DEF j

LEMMA BeginRemovalBase ==
    ASSUME Base, NEW p \in Procs, NEW batch \in SUBSET installed, BeginRemoval(p, batch)
    PROVE  Base'
<1>1. /\ Effect(p) /\ installed' = installed /\ state'[p] = {}
      /\ job'[p] = [Idle EXCEPT !.at = "load", !.batch = batch, !.left = batch]
    BY BeginRemovalEffect
<1>2. SlotUnique' /\ Shaped(p)'
    BY <1>1 DEF SlotUnique, Base, Shaped, Merging, Removing, At, Idle
<1> QED BY <1>1, <1>2, BaseKept

(* The state a removal loads.                                              *)
Loaded(batch) == [LoadState EXCEPT !.graph = BuildGraph(batch, registry)]

LEMMA LoadedType ==
    ASSUME TypeOK, NEW batch
    PROVE  /\ Loaded(batch) \in States
           /\ Loaded(batch).reg = registry /\ Loaded(batch).orig = registry
           /\ Loaded(batch).fresh = {} /\ Loaded(batch).graph.built
           /\ Loaded(batch).graph.pkgs = installed \ batch
           /\ Loaded(batch).graph.kept = Preserved(registry)
<1>1. BuildGraph(batch, registry) \in
          [built : BOOLEAN, pkgs : SUBSET Packages, kept : SUBSET {SonameOf[f] : f \in Paths}]
    BY GraphTypes
<1>2. LoadState \in States
    BY LoadType
<1>3. /\ Loaded(batch) \in States
      /\ Loaded(batch).reg = LoadState.reg /\ Loaded(batch).orig = LoadState.orig
      /\ Loaded(batch).fresh = LoadState.fresh
      /\ Loaded(batch).graph = BuildGraph(batch, registry)
    BY <1>1, <1>2 DEF Loaded, States
<1>4. LoadState.reg = registry /\ LoadState.orig = registry /\ LoadState.fresh = {}
    BY DEF LoadState
<1> QED BY <1>3, <1>4 DEF BuildGraph

LEMMA LoadRemovalEffect ==
    ASSUME Base, NEW p \in Procs, LoadRemoval(p)
    PROVE  /\ Effect(p) /\ At(p, "load")
           /\ UNCHANGED <<installed, disk, registry, index, overlap, forgotten>>
           /\ job'[p] = [job[p] EXCEPT !.at = "remove"]
           /\ state'[p] = {Loaded(job[p].batch)}
<1>1. /\ At(p, "load") /\ job[p].at = "load"
      /\ job' = [job EXCEPT ![p] = [job[p] EXCEPT !.at = "remove"]]
      /\ state' = [state EXCEPT ![p] = {Loaded(job[p].batch)}]
      /\ UNCHANGED <<installed, disk, registry, lock, mode, index, jobs, faults,
                     overlap, forgotten>>
    BY DEF LoadRemoval, At, Loaded
<1>2. [job[p] EXCEPT !.at = "remove"] \in Jobs
  <2>1. job[p] \in Jobs
      BY DEF Base, TypeOK
  <2> QED BY <2>1 DEF Jobs
<1>3. /\ job' \in [Procs -> Jobs] /\ job'[p] = [job[p] EXCEPT !.at = "remove"]
      /\ \A q \in Procs \ {p} : job'[q] = job[q]
    BY <1>1, <1>2, JobSet
<1>4. {Loaded(job[p].batch)} \in SUBSET States
    BY LoadedType DEF Base
<1>5. /\ state' \in [Procs -> SUBSET States] /\ state'[p] = {Loaded(job[p].batch)}
      /\ \A q \in Procs \ {p} : state'[q] = state[q]
      /\ \A a, b \in state'[p] : a = b
    BY <1>1, <1>4, StateSet
<1> QED BY <1>1, <1>3, <1>5 DEF Effect, Base, TypeOK

LEMMA LoadRemovalBase == ASSUME Base, NEW p \in Procs, LoadRemoval(p) PROVE Base'
<1>1. /\ Effect(p) /\ At(p, "load") /\ installed' = installed
      /\ job'[p] = [job[p] EXCEPT !.at = "remove"]
    BY LoadRemovalEffect
<1>2. Shaped(p) /\ job[p] \in Jobs
    BY DEF Base, TypeOK
<1>3. /\ job'[p].at = "remove" /\ job'[p].new = job[p].new
      /\ job'[p].left = job[p].left /\ job'[p].batch = job[p].batch
    BY <1>1, <1>2 DEF Jobs
<1>4. Shaped(p)'
    BY <1>1, <1>2, <1>3 DEF Shaped, Merging, Removing, At
<1>5. SlotUnique'
    BY <1>1 DEF SlotUnique, Base
<1> QED BY <1>1, <1>4, <1>5, BaseKept

(* A removal either leaves all but the list as it was, or takes old away.  *)
Untouched == UNCHANGED <<installed, disk, state, index, forgotten>>
TakesOut(p, old) ==
    /\ old \in installed /\ Touch(p) /\ installed' = installed \ {old}
    /\ \E st \in state[p] :
         LET paths == ToPreserve(st.graph, old, {})
         IN  /\ disk' = disk \ (Libs[old] \ paths)
             /\ state'[p] = {Register(st, old, paths)}
             /\ forgotten' = forgotten \cup (st.reg[SlotOf[old]] \ paths)

LEMMA RemoveOneEffect ==
    ASSUME Base, NEW p \in Procs, NEW old \in Packages, RemoveOne(p, old)
    PROVE  /\ Effect(p) /\ At(p, "remove") /\ Meets(p) /\ registry' = registry
           /\ old \in job[p].left
           /\ job'[p] = [job[p] EXCEPT !.left = job[p].left \ {old}]
           /\ Untouched \/ TakesOut(p, old)
<1>1. /\ At(p, "remove") /\ job[p].at = "remove" /\ Meets(p) /\ old \in job[p].left
      /\ job' = [job EXCEPT ![p] = [job[p] EXCEPT !.left = job[p].left \ {old}]]
      /\ UNCHANGED <<registry, lock, mode, jobs>>
    BY DEF RemoveOne, At
<1>2. /\ job[p] \in Jobs /\ job[p].left \ {old} \in SUBSET Packages
      /\ [job[p] EXCEPT !.left = job[p].left \ {old}] \in Jobs
  <2>1. job[p] \in Jobs
      BY DEF Base, TypeOK
  <2> QED BY <2>1 DEF Jobs
<1>3. /\ job' \in [Procs -> Jobs]
      /\ job'[p] = [job[p] EXCEPT !.left = job[p].left \ {old}]
      /\ \A q \in Procs \ {p} : job'[q] = job[q]
    BY <1>1, <1>2, JobSet
<1>4. job'[p].at = job[p].at
    BY <1>2, <1>3 DEF Jobs
<1>5. /\ faults' \in 0 .. MaxFaults /\ overlap' \in BOOLEAN /\ (overlap => overlap')
  <2>1. faults' \in 0 .. MaxFaults
      BY PreserveLibsAssumption DEF RemoveOne, Fault, Base, TypeOK
  <2> QED BY <1>1, <2>1 DEF Meets, Base, TypeOK
<1>6. CASE Untouched
    BY <1>1, <1>3, <1>4, <1>5, <1>6, StateSame DEF Effect, Untouched, Base, TypeOK
<1>7. CASE ~Untouched
  <2>1. PICK st \in state[p] :
          LET paths == ToPreserve(st.graph, old, {})
          IN  /\ disk' = disk \ (Libs[old] \ paths)
              /\ state' = [state EXCEPT ![p] = {Register(st, old, paths)}]
              /\ forgotten' = forgotten \cup (st.reg[SlotOf[old]] \ paths)
      BY <1>7 DEF RemoveOne, Untouched
  <2>2. old \in installed /\ Touch(p) /\ installed' = installed \ {old}
      BY <1>7 DEF RemoveOne, Untouched
  <2> DEFINE paths == ToPreserve(st.graph, old, {})
  <2>3. st \in States /\ paths \in SUBSET Paths
      BY PreserveType DEF Base, TypeOK
  <2>4. Register(st, old, paths) \in States
      BY <2>3, RegisterType DEF Base
  <2>5. /\ state' \in [Procs -> SUBSET States] /\ state'[p] = {Register(st, old, paths)}
        /\ \A q \in Procs \ {p} : state'[q] = state[q]
        /\ \A a, b \in state'[p] : a = b
    <3> DEFINE S == {Register(st, old, paths)}
    <3>1. S \in SUBSET States /\ (\A a, b \in S : a = b) /\ state' = [state EXCEPT ![p] = S]
        BY <2>1, <2>4
    <3> HIDE DEF S
    <3>2. /\ state' \in [Procs -> SUBSET States] /\ state'[p] = S
          /\ \A q \in Procs \ {p} : state'[q] = state[q]
          /\ \A a, b \in state'[p] : a = b
        BY <3>1, StateSet
    <3> QED BY <3>2 DEF S
  <2>6. SlotOf[old] \in Slots /\ st.reg[SlotOf[old]] \subseteq Paths
      BY <2>3, PreserveLibsAssumption DEF States, Registries
  <2>7. index' \in [Procs -> {"absent", "current", "stale"}]
      BY <2>2 DEF Touch, Base, TypeOK
  <2>8. disk' \subseteq disk /\ forgotten' = forgotten \cup (st.reg[SlotOf[old]] \ paths)
      BY <2>1
  <2>9. Effect(p)
      BY <1>1, <1>3, <1>4, <1>5, <2>2, <2>5, <2>6, <2>7, <2>8 DEF Effect, Base, TypeOK
  <2>10. TakesOut(p, old)
      BY <2>1, <2>2, <2>5 DEF TakesOut
  <2> QED BY <1>1, <1>3, <2>9, <2>10
<1> QED BY <1>6, <1>7

LEMMA RemoveOneBase ==
    ASSUME Base, NEW p \in Procs, NEW old \in Packages, RemoveOne(p, old) PROVE Base'
<1>1. /\ Effect(p) /\ At(p, "remove") /\ job[p].at = "remove"
      /\ job'[p] = [job[p] EXCEPT !.left = job[p].left \ {old}]
      /\ installed' \subseteq installed
    BY RemoveOneEffect DEF At, Untouched, TakesOut
<1>2. Shaped(p) /\ job[p] \in Jobs
    BY DEF Base, TypeOK
<1>3. /\ job'[p].at = "remove" /\ job'[p].new = job[p].new
      /\ job'[p].left \subseteq job[p].left /\ job'[p].batch = job[p].batch
    BY <1>1, <1>2 DEF Jobs
<1>4. Shaped(p)'
    BY <1>1, <1>2, <1>3 DEF Shaped, Merging, Removing, At
<1>5. SlotUnique'
    BY <1>1 DEF SlotUnique, Base
<1> QED BY <1>1, <1>4, <1>5, BaseKept

(* What a removal batch stores of the state it holds.                      *)
Finishes(st, file) ==
    /\ disk' = disk \ Unneeded(st.reg)
    /\ registry' = file
    /\ forgotten' = forgotten \cup Overtaken(st, file)

LEMMA EndRemovalEffect ==
    ASSUME Base, NEW p \in Procs, EndRemoval(p)
    PROVE  /\ Effect(p) /\ At(p, "remove") /\ Meets(p) /\ installed' = installed
           /\ index' = [index EXCEPT ![p] = "absent"] /\ job'[p] = Idle
           /\ state'[p] = {}
           /\ \E st \in state[p] : Finishes(st, Stored(st, Reclaimed(st.reg)))
<1>1. /\ At(p, "remove") /\ job[p].at = "remove" /\ Meets(p)
      /\ job' = [job EXCEPT ![p] = Idle] /\ state' = [state EXCEPT ![p] = {}]
      /\ index' = [index EXCEPT ![p] = "absent"]
      /\ lock' = (IF lock = p THEN NoProc ELSE lock)
      /\ UNCHANGED <<installed, mode, jobs>>
    BY DEF EndRemoval, At
<1>2. PICK st \in state[p] : Finishes(st, Stored(st, Reclaimed(st.reg)))
    BY DEF EndRemoval, Finishes
<1>3. /\ st \in States
    BY DEF Base, TypeOK
<1>4. /\ disk' \subseteq disk /\ registry' \in Registries
      /\ forgotten \subseteq forgotten' /\ forgotten' \subseteq Paths
    BY <1>2, <1>3, StoreTypes DEF Finishes, Base, TypeOK
<1>5. /\ job' \in [Procs -> Jobs] /\ job'[p] = Idle /\ job'[p].at = "idle"
      /\ \A q \in Procs \ {p} : job'[q] = job[q]
    BY <1>1, IdleType, JobSet DEF Idle
<1>6. /\ state' \in [Procs -> SUBSET States] /\ state'[p] = {}
      /\ \A q \in Procs \ {p} : state'[q] = state[q]
      /\ \A a, b \in state'[p] : a = b
    BY <1>1, StateEmptied
<1>7. faults' \in 0 .. MaxFaults /\ overlap' \in BOOLEAN /\ (overlap => overlap')
  <2>1. faults' \in 0 .. MaxFaults
      BY PreserveLibsAssumption DEF EndRemoval, Fault, Base, TypeOK
  <2> QED BY <1>1, <2>1 DEF Meets, Base, TypeOK
<1> QED BY <1>1, <1>2, <1>4, <1>5, <1>6, <1>7 DEF Effect, Base, TypeOK

LEMMA EndRemovalBase == ASSUME Base, NEW p \in Procs, EndRemoval(p) PROVE Base'
<1>1. Effect(p) /\ job'[p] = Idle /\ installed' = installed
    BY EndRemovalEffect
<1>2. SlotUnique'
    BY <1>1 DEF SlotUnique, Base
<1> QED BY <1>1, <1>2, IdleShaped, BaseKept

LEMMA KilledEffect ==
    ASSUME Base, NEW p \in Procs, Killed(p)
    PROVE  /\ Effect(p) /\ UNCHANGED <<installed, disk, registry, overlap>>
           /\ index' = [index EXCEPT ![p] = "absent"] /\ job'[p] = Idle /\ state'[p] = {}
           /\ forgotten' = forgotten \cup Known(p) \cup Owned(job[p].new)
<1>1. /\ job' = [job EXCEPT ![p] = Idle] /\ state' = [state EXCEPT ![p] = {}]
      /\ index' = [index EXCEPT ![p] = "absent"]
      /\ lock' = (IF lock = p THEN NoProc ELSE lock)
      /\ forgotten' = forgotten \cup Known(p) \cup Owned(job[p].new)
      /\ UNCHANGED <<installed, disk, registry, mode, jobs, overlap>>
    BY DEF Killed
<1>2. faults' \in 0 .. MaxFaults
    BY PreserveLibsAssumption DEF Killed, Fault, Base, TypeOK
<1>3. \A st \in state[p] : AllPaths(st.reg) \subseteq Paths
    BY StoreTypes DEF Base, TypeOK
<1>4. Owned(job[p].new) \subseteq Paths
  <2>1. job[p].new \subseteq Packages
      BY DEF Base, TypeOK, Jobs
  <2> QED BY <2>1, PreserveLibsAssumption DEF Owned
<1>5. forgotten' \subseteq Paths
  <2>1. Known(p) \subseteq Paths
      BY <1>3 DEF Known
  <2>2. forgotten \subseteq Paths
      BY DEF Base, TypeOK
  <2> QED BY <1>1, <1>4, <2>1, <2>2
<1>6. /\ job' \in [Procs -> Jobs] /\ job'[p] = Idle /\ job'[p].at = "idle"
      /\ \A q \in Procs \ {p} : job'[q] = job[q]
    BY <1>1, IdleType, JobSet DEF Idle
<1>7. /\ state' \in [Procs -> SUBSET States] /\ state'[p] = {}
      /\ \A q \in Procs \ {p} : state'[q] = state[q]
      /\ \A a, b \in state'[p] : a = b
    BY <1>1, StateEmptied
<1> QED BY <1>1, <1>2, <1>5, <1>6, <1>7 DEF Effect, Base, TypeOK

LEMMA KilledBase == ASSUME Base, NEW p \in Procs, Killed(p) PROVE Base'
<1>1. Effect(p) /\ job'[p] = Idle /\ installed' = installed
    BY KilledEffect
<1>2. SlotUnique'
    BY <1>1 DEF SlotUnique, Base
<1> QED BY <1>1, <1>2, IdleShaped, BaseKept

-----------------------------------------------------------------------------
(* The types, the slots and the stages, in every state.                    *)
Step(p) ==
    \/ \E new \in Packages : BeginMerge(p, new)
    \/ Copy(p) \/ Fails(p) \/ Replace(p) \/ PackageRemoved(p) \/ RegisterNew(p)
    \/ EndMerge(p) \/ FinishGate(p)
    \/ \E batch \in SUBSET installed : BeginRemoval(p, batch)
    \/ LoadRemoval(p)
    \/ \E old \in Packages : RemoveOne(p, old)
    \/ EndRemoval(p) \/ Killed(p)

LEMMA NextSteps == Next => \E p \in Procs : Step(p)
BY DEF Next, Step, Fails

LEMMA StepEffect ==
    ASSUME Base, NEW p \in Procs, Step(p)
    PROVE  Effect(p) /\ Base'
BY BeginMergeEffect, BeginMergeBase, CopyEffect, CopyBase, FailsEffect, FailsBase,
   ReplaceEffect, ReplaceBase, PackageRemovedEffect, PackageRemovedBase,
   RegisterNewEffect, RegisterNewBase, EndMergeEffect, EndMergeBase, FinishGateEffect,
   FinishGateBase, BeginRemovalEffect, BeginRemovalBase, LoadRemovalEffect,
   LoadRemovalBase, RemoveOneEffect, RemoveOneBase, EndRemovalEffect, EndRemovalBase,
   KilledEffect, KilledBase
   DEF Step

LEMMA BaseInit == Init => Base
<1> SUFFICES ASSUME Init PROVE Base
    OBVIOUS
<1>1. installed \subseteq Packages /\ SlotUnique
    BY DEF Init, SlotUnique
<1>2. disk \subseteq Paths
    BY <1>1, PreserveLibsAssumption DEF Init, Owned
<1>3. job = [p \in Procs |-> Idle] /\ Idle \in Jobs /\ Idle.at = "idle" /\ Idle.new = {}
    BY IdleType DEF Init, Idle
<1>4. TypeOK
  <2>1. registry \in Registries
      BY DEF Init, NoEntry, Registries
  <2>2. job \in [Procs -> Jobs] /\ \A p \in Procs : ~Active(p)
      BY <1>3 DEF Active
  <2>3. state \in [Procs -> SUBSET States] /\ \A p \in Procs : \A st, other \in state[p] : st = other
      BY DEF Init
  <2>4. /\ lock = NoProc /\ jobs = 0 /\ faults = 0 /\ overlap = FALSE /\ forgotten = {}
        /\ index \in [Procs -> {"absent", "current", "stale"}]
      BY DEF Init
  <2>5. jobs \in 0 .. MaxJobs /\ faults \in 0 .. MaxFaults
      BY <2>4, PreserveLibsAssumption
  <2> QED BY <1>1, <1>2, <2>1, <2>2, <2>3, <2>4, <2>5 DEF TypeOK
<1>5. \A p \in Procs : Shaped(p)
    BY <1>3 DEF Shaped, Merging, Removing, At
<1> QED BY <1>1, <1>4, <1>5 DEF Base

LEMMA BaseSame == ASSUME Base, UNCHANGED vars PROVE Base'
<1>1. TypeOK'
    BY DEF Base, TypeOK, vars, Active
<1>2. SlotUnique'
    BY DEF Base, SlotUnique, vars
<1>3. \A p \in Procs : Shaped(p)'
    BY DEF Base, Shaped, vars, Merging, Removing, At, Occupant
<1> QED BY <1>1, <1>2, <1>3 DEF Base

(* What a file belongs to: a registry, a package, a merge.                 *)
LEMMA Lists == \A reg, f : f \in AllPaths(reg) <=> \E s \in Slots : f \in reg[s]
BY DEF AllPaths

LEMMA Owns == \A pkgs, f : f \in Owned(pkgs) <=> \E q \in pkgs : f \in Libs[q]
BY DEF Owned

LEMMA Merges == \A f : f \in InProgress <=> \E p \in Procs : f \in Owned(job[p].new)
BY DEF InProgress

LEMMA MergesNext ==
    \A f : f \in InProgress' <=> \E p \in Procs : f \in Owned(job'[p].new)
BY DEF InProgress, Owned

-----------------------------------------------------------------------------
(* What storing a state loses.                                             *)
LEMMA Reclaims ==
    ASSUME NEW reg, NEW s \in Slots, NEW f \in disk \ Unneeded(reg), f \notin Owned(installed)
    PROVE  f \in Reclaimed(reg)[s] <=> f \in reg[s]
BY DEF Reclaimed, Unowned

LEMMA StoreKeeps ==
    ASSUME Base, OrigKept, NEW p \in Procs, NEW st \in state[p],
           NEW file \in {FileAfter(st), Stored(st, Reclaimed(st.reg))},
           NEW f \in disk \ Unneeded(st.reg), f \notin Owned(installed), f \notin forgotten,
           \/ f \in AllPaths(registry)
           \/ \E s \in st.fresh : f \in st.reg[s]
    PROVE  f \in AllPaths(file) \cup Overtaken(st, file)
<1> DEFINE reg == Reclaimed(st.reg)
<1>1. st \in States /\ st.fresh \subseteq Slots /\ registry \in Registries
    BY DEF Base, TypeOK, States
<1>2. \A s \in Slots : f \in reg[s] <=> f \in st.reg[s]
    BY Reclaims
<1> HIDE DEF reg
<1>3. CASE file = registry
  <2>1. CASE f \in AllPaths(registry)
      BY <1>3, <2>1
  <2>2. CASE \E s \in st.fresh : f \in st.reg[s]
    <3>1. st.reg # NoEntry
        BY <1>1, <2>2 DEF NoEntry
    <3>2. file = Stored(st, reg)
        BY <3>1 DEF FileAfter, reg
    <3>3. PICK s \in st.fresh : f \in st.reg[s]
        BY <2>2
    <3>4. f \in reg[s] /\ Stored(st, reg)[s] = reg[s]
        BY <1>1, <1>2, <3>3 DEF Stored, Writes
    <3>5. f \in AllPaths(file)
        BY <1>1, <3>2, <3>3, <3>4, Lists
    <3> QED BY <3>5
  <2> QED BY <2>1, <2>2
<1>4. CASE file = Stored(st, reg)
  <2>1. \A s \in Slots :
           /\ file[s] = IF s \in Writes(st, reg) THEN reg[s] ELSE registry[s]
           /\ s \in Writes(st, reg) <=> reg[s] # st.orig[s] \/ (s \in st.fresh /\ reg[s] # {})
      BY <1>4 DEF Stored, Writes
  <2>2. CASE \E s \in st.fresh : f \in st.reg[s]
    <3>1. PICK s \in st.fresh : f \in st.reg[s]
        BY <2>2
    <3>2. f \in file[s]
        BY <1>1, <1>2, <2>1, <3>1
    <3> QED BY <1>1, <3>1, <3>2, Lists
  <2>3. CASE f \in AllPaths(registry)
    <3>1. PICK s \in Slots : f \in registry[s]
        BY <2>3, Lists
    <3>2. CASE f \in file[s]
        BY <3>1, <3>2, Lists
    <3>3. CASE f \notin file[s]
      <4>1. f \notin st.reg[s]
          BY <1>2, <2>1, <3>1, <3>3
      <4>2. f \notin st.orig[s]
          BY <4>1, <3>1 DEF OrigKept
      <4>3. s \in {z \in Writes(st, reg) : registry[z] # st.orig[z]}
          BY <2>1, <3>1, <3>3, <4>2
      <4>4. f \in registry[s] \ (file[s] \cup st.reg[s])
          BY <3>1, <3>3, <4>1
      <4> QED BY <4>3, <4>4 DEF Overtaken, reg
    <3> QED BY <3>2, <3>3
  <2> QED BY <2>2, <2>3
<1>5. file = registry \/ file = Stored(st, reg)
    BY DEF FileAfter, reg
<1> QED BY <1>3, <1>4, <1>5

(* A step that may store the state of p, and then drops it.                *)
Stores(p) ==
    \/ UNCHANGED <<disk, registry>> /\ state'[p] = state[p]
    \/ /\ state'[p] = {}
       /\ \E st \in state[p] : \E file \in {FileAfter(st), Stored(st, Reclaimed(st.reg))} :
            /\ disk' = disk \ Unneeded(st.reg) /\ registry' = file
            /\ Overtaken(st, file) \subseteq forgotten'

LEMMA FinishStores ==
    ASSUME NEW p \in Procs, Finish(state[p]), state'[p] = {}
    PROVE  Stores(p)
<1>1. CASE state[p] = {}
    BY <1>1 DEF Finish, Stores
<1>2. CASE state[p] # {}
  <2>1. PICK st \in state[p] : /\ disk' = disk \ Unneeded(st.reg)
                               /\ registry' = FileAfter(st)
                               /\ forgotten' = forgotten \cup Overtaken(st, FileAfter(st))
      BY <1>2 DEF Finish
  <2> QED BY <2>1 DEF Stores
<1> QED BY <1>1, <1>2

LEMMA StoringSteps ==
    ASSUME Base, NEW p \in Procs,
           \/ \E new \in Packages : BeginMerge(p, new)
           \/ Fails(p) \/ EndMerge(p) \/ FinishGate(p)
           \/ \E batch \in SUBSET installed : BeginRemoval(p, batch)
           \/ EndRemoval(p)
    PROVE  Stores(p) /\ installed' = installed
<1>1. ASSUME NEW new \in Packages, BeginMerge(p, new) PROVE Stores(p) /\ installed' = installed
  <2>1. CASE KeepsState(p)
      BY <1>1, <2>1 DEF BeginMerge, Stores
  <2>2. CASE ~KeepsState(p)
    <3>1. Finish(state[p]) /\ state' = [state EXCEPT ![p] = {}] /\ installed' = installed
        BY <1>1, <2>2 DEF BeginMerge
    <3> QED BY <3>1, StateEmptied, FinishStores
  <2> QED BY <2>1, <2>2
<1>2. ASSUME Fails(p) PROVE Stores(p) /\ installed' = installed
  <2>1. FailMerge(p) /\ installed' = installed
      BY <1>2, FailsEffect
  <2>2. CASE mode[p] = "oneshot" /\ state[p] # {}
    <3>1. PICK st \in state[p] :
              /\ disk' = disk \ Unneeded(st.reg)
              /\ registry' = FileAfter(st)
              /\ forgotten' = forgotten \cup (Owned(job[p].new) \cap disk)
                                        \cup Overtaken(st, FileAfter(st))
        BY <2>1, <2>2 DEF FailMerge
    <3>2. state'[p] = {}
        BY <2>1, <2>2, StateEmptied DEF FailMerge
    <3> QED BY <2>1, <3>1, <3>2 DEF Stores
  <2>3. CASE ~(mode[p] = "oneshot" /\ state[p] # {})
      BY <2>1, <2>3 DEF FailMerge, Stores
  <2> QED BY <2>2, <2>3
<1>3. ASSUME EndMerge(p) PROVE Stores(p) /\ installed' = installed
    BY <1>3, EndMergeEffect, FinishStores DEF Stores
<1>4. ASSUME FinishGate(p) PROVE Stores(p) /\ installed' = installed
    BY <1>4, FinishGateEffect, FinishStores
<1>5. ASSUME NEW batch \in SUBSET installed, BeginRemoval(p, batch)
      PROVE  Stores(p) /\ installed' = installed
    BY <1>5, BeginRemovalEffect, FinishStores
<1>6. ASSUME EndRemoval(p) PROVE Stores(p) /\ installed' = installed
  <2>1. state'[p] = {} /\ installed' = installed
        /\ \E st \in state[p] : Finishes(st, Stored(st, Reclaimed(st.reg)))
      BY <1>6, EndRemovalEffect
  <2> QED BY <2>1 DEF Finishes, Stores
<1> QED BY <1>1, <1>2, <1>3, <1>4, <1>5, <1>6

(* Storing takes neither an owned library nor a needed one, and loses      *)
(* track of nothing.                                                       *)
LEMMA StoresOwned ==
    ASSUME NEW p \in Procs, Stores(p), installed' = installed, Owned(installed) \subseteq disk
    PROVE  Owned(installed)' \subseteq disk'
<1>1. CASE disk' = disk
    BY <1>1 DEF Owned
<1>2. CASE \E st \in state[p] : disk' = disk \ Unneeded(st.reg)
  <2>1. PICK st \in state[p] : disk' = disk \ Unneeded(st.reg)
      BY <1>2
  <2>2. Unneeded(st.reg) \cap Owned(installed) = {}
      BY Lists DEF Unneeded, Unowned
  <2>3. Owned(installed)' = Owned(installed)
      BY DEF Owned
  <2> QED BY <2>1, <2>2, <2>3
<1> QED BY <1>1, <1>2 DEF Stores

LEMMA StoresNeeded ==
    ASSUME NEW p \in Procs, Stores(p), NEW q \in installed
    PROVE  ~Loses(q)
<1> SUFFICES ASSUME NEW s \in Needs[q], NEW f \in disk, SonameOf[f] = s
             PROVE  f \in disk'
    BY DEF Loses, Available
<1>1. SonameOf[f] \in Needed(installed)
    BY DEF Needed
<1> QED BY <1>1 DEF Stores, Unneeded

LEMMA WaitingKept ==
    ASSUME Base, NEW p \in Procs, Effect(p), NEW f \in Pending
    PROVE  \/ f \in Pending'
           \/ \E st \in state[p] : \E s \in st.fresh : f \in st.reg[s]
<1>1. PICK q \in Procs : \E st \in state[q] : \E s \in st.fresh : f \in st.reg[s]
    BY DEF Pending
<1>2. CASE q = p
    BY <1>1, <1>2
<1>3. CASE q # p
  <2>1. state'[q] = state[q]
      BY <1>3 DEF Effect
  <2> QED BY <1>1, <2>1 DEF Pending
<1> QED BY <1>2, <1>3

LEMMA StoresTracked ==
    ASSUME Base, OrigKept, Tracked, NEW p \in Procs, Effect(p), Stores(p),
           installed' = installed,
           InProgress \cap disk \subseteq InProgress' \cup forgotten' \cup Owned(installed)
    PROVE  Tracked'
<1> SUFFICES ASSUME NEW f \in disk', f \notin Owned(installed)', f \notin forgotten',
                    f \notin InProgress'
             PROVE  f \in AllPaths(registry)' \/ f \in Pending'
    BY DEF Tracked
<1>1. f \in disk /\ f \notin Owned(installed) /\ f \notin forgotten /\ f \notin InProgress
    BY DEF Stores, Effect, Owned
<1>2. f \in AllPaths(registry) \/ f \in Pending
    BY <1>1 DEF Tracked
<1>3. AllPaths(registry)' = AllPaths(registry')
    BY DEF AllPaths
<1>4. CASE UNCHANGED <<disk, registry>> /\ state'[p] = state[p]
  <2>1. CASE f \in AllPaths(registry)
      BY <1>3, <1>4, <2>1
  <2>2. CASE f \in Pending
    <3>1. Pending' = Pending
      <4>1. \A q \in Procs : state'[q] = state[q]
          BY <1>4 DEF Effect
      <4> QED BY <4>1 DEF Pending
    <3> QED BY <2>2, <3>1
  <2> QED BY <1>2, <2>1, <2>2
<1>5. CASE ~(UNCHANGED <<disk, registry>> /\ state'[p] = state[p])
  <2>0. PICK st \in state[p] : \E file \in {FileAfter(st), Stored(st, Reclaimed(st.reg))} :
            /\ disk' = disk \ Unneeded(st.reg) /\ registry' = file
            /\ Overtaken(st, file) \subseteq forgotten'
      BY <1>5 DEF Stores
  <2>1. PICK file \in {FileAfter(st), Stored(st, Reclaimed(st.reg))} :
            /\ disk' = disk \ Unneeded(st.reg) /\ registry' = file
            /\ Overtaken(st, file) \subseteq forgotten'
      BY <2>0
  <2>2. \A other \in state[p] : other = st
      BY DEF Base, TypeOK
  <2>3. CASE f \in Pending' 
      BY <2>3
  <2>4. CASE f \notin Pending'
    <3>1. \/ f \in AllPaths(registry)
          \/ \E s \in st.fresh : f \in st.reg[s]
        BY <1>2, <2>2, <2>4, WaitingKept
    <3>2. f \in AllPaths(file) \cup Overtaken(st, file)
        BY <1>1, <2>1, <3>1, StoreKeeps
    <3> QED BY <1>3, <2>1, <3>2
  <2> QED BY <2>3, <2>4
<1> QED BY <1>4, <1>5

-----------------------------------------------------------------------------
(* A loaded entry is still there, or was replaced over.                    *)
Follows(new, p) ==
    \/ new.orig = new.reg
    \/ \E st \in state[p] :
         /\ new.orig = st.orig
         /\ \A s \in Slots : st.reg[s] \subseteq new.reg[s] \cup forgotten'

LEMMA OrigStep ==
    ASSUME Base, OrigKept, NEW p \in Procs, Effect(p),
           \A new \in state'[p] : Follows(new, p)
    PROVE  OrigKept'
<1> SUFFICES ASSUME NEW q \in Procs, NEW new \in state'[q], NEW s \in Slots
             PROVE  new.orig[s] \subseteq new.reg[s] \cup forgotten'
    BY DEF OrigKept
<1>1. forgotten \subseteq forgotten'
    BY DEF Effect
<1>2. CASE q = p
    BY <1>1, <1>2 DEF Follows, OrigKept
<1>3. CASE q # p
  <2>1. new \in state[q]
      BY <1>3 DEF Effect
  <2> QED BY <1>1, <2>1 DEF OrigKept
<1> QED BY <1>2, <1>3

LEMMA RegisterKeeps ==
    ASSUME NEW st \in States, NEW old \in Packages, NEW paths \in SUBSET Paths
    PROVE  /\ Register(st, old, paths).orig = st.orig
           /\ Register(st, old, paths).graph = st.graph
           /\ Register(st, old, paths).fresh = st.fresh \cup {SlotOf[old]}
           /\ SlotOf[old] \in Slots /\ Register(st, old, paths).reg[SlotOf[old]] = paths
           /\ \A s \in Slots \ {SlotOf[old]} : Register(st, old, paths).reg[s] = st.reg[s]
<1>1. SlotOf[old] \in Slots /\ st.reg \in [Slots -> SUBSET Paths]
    BY PreserveLibsAssumption DEF States, Registries
<1>2. /\ Register(st, old, paths).orig = st.orig
      /\ Register(st, old, paths).graph = st.graph
      /\ Register(st, old, paths).fresh = st.fresh \cup {SlotOf[old]}
      /\ Register(st, old, paths).reg = [st.reg EXCEPT ![SlotOf[old]] = paths]
    BY DEF Register, States
<1> QED BY <1>1, <1>2

LEMMA RegisterFollows ==
    ASSUME Base, NEW p \in Procs, NEW st \in state[p], NEW old \in Packages,
           NEW paths \in SUBSET Paths, forgotten' = forgotten \cup (st.reg[SlotOf[old]] \ paths)
    PROVE  Follows(Register(st, old, paths), p)
<1>1. st \in States
    BY DEF Base, TypeOK
<1> QED BY <1>1, RegisterKeeps DEF Follows

LEMMA OrigInvariant ==
    ASSUME Base, OrigKept, NEW p \in Procs, Step(p)
    PROVE  OrigKept'
<1>1. Effect(p)
    BY StepEffect
<1> DEFINE Goal == \A new \in state'[p] : Follows(new, p)
<1>2. \A st \in state[p] : Follows(st, p)
    BY DEF Follows
<1>3. ASSUME Stores(p) PROVE Goal
    BY <1>2, <1>3 DEF Stores
<1>4. ASSUME Copy(p) PROVE Goal
  <2>1. LoadState \in States /\ LoadState.orig = LoadState.reg
      BY LoadType DEF Base, LoadState
  <2>2. \A st \in Kept(p) : st \in States /\ Follows(st, p)
    <3>1. CASE state[p] = {}
        BY <2>1, <3>1 DEF Kept, Follows
    <3>2. CASE state[p] # {}
      <4>1. Kept(p) = state[p] /\ state[p] \subseteq States
          BY <3>2 DEF Kept, Base, TypeOK
      <4> QED BY <1>2, <4>1
    <3> QED BY <3>1, <3>2
  <2>3. \A st \in Kept(p) : Follows(Graphed(st, job[p].left), p)
      BY <2>2, GraphedType DEF Follows, Base
  <2>4. state'[p] = Kept(p) \/ state'[p] = {Graphed(st, job[p].left) : st \in Kept(p)}
      BY <1>4, CopyEffect
  <2>5. CASE state'[p] = Kept(p)
      BY <2>2, <2>5
  <2>6. CASE state'[p] = {Graphed(st, job[p].left) : st \in Kept(p)}
      BY <2>3, <2>6
  <2> QED BY <2>4, <2>5, <2>6
<1>5. ASSUME Replace(p) PROVE Goal
  <2>1. PICK old \in job[p].left \cap installed, st \in state[p] :
            LET paths == ToPreserve(st.graph, old, job[p].new)
            IN  /\ installed' = installed \ {old}
                /\ disk' = disk \ (Libs[old] \ (Owned(job[p].new) \cup paths))
                /\ state'[p] = {Register(st, old, paths)}
                /\ forgotten' = forgotten \cup (st.reg[SlotOf[old]] \ paths)
      BY <1>5, ReplaceEffect
  <2>2. old \in Packages
      BY DEF Base, TypeOK
  <2> DEFINE paths == ToPreserve(st.graph, old, job[p].new)
  <2>3. /\ paths \in SUBSET Paths /\ state'[p] = {Register(st, old, paths)}
        /\ forgotten' = forgotten \cup (st.reg[SlotOf[old]] \ paths)
      BY <2>1, <2>2, PreserveType DEF Base
  <2> HIDE DEF paths
  <2> QED BY <2>2, <2>3, RegisterFollows
<1>6. ASSUME PackageRemoved(p) PROVE Goal
  <2>1. state'[p] = {Renewed(st) : st \in state[p]}
      BY <1>6, PackageRemovedEffect
  <2>2. \A st \in state[p] : Follows(Renewed(st), p)
      BY RenewedType DEF Follows, Base, TypeOK
  <2> QED BY <2>1, <2>2
<1>7. ASSUME RegisterNew(p) PROVE Goal
  <2>1. state'[p] = {Added(st, job[p].new) : st \in state[p]}
      BY <1>7, RegisterNewEffect
  <2>2. job[p].new \in SUBSET Packages
      BY DEF Base, TypeOK, Jobs
  <2>3. \A st \in state[p] : Follows(Added(st, job[p].new), p)
      BY <2>2, AddedType DEF Follows, Base, TypeOK
  <2> QED BY <2>1, <2>3
<1>8. ASSUME LoadRemoval(p) PROVE Goal
  <2>1. Loaded(job[p].batch).orig = Loaded(job[p].batch).reg
      BY LoadedType DEF Base
  <2> QED BY <1>8, <2>1, LoadRemovalEffect DEF Follows
<1>9. ASSUME NEW old \in Packages, RemoveOne(p, old) PROVE Goal
  <2>1. CASE Untouched
      BY <1>2, <2>1 DEF Untouched
  <2>2. CASE TakesOut(p, old)
      BY <2>2, RegisterFollows, PreserveType DEF TakesOut, Base
  <2> QED BY <1>9, <2>1, <2>2, RemoveOneEffect
<1>10. ASSUME Killed(p) PROVE Goal
    BY <1>10, KilledEffect
<1>11. Goal
  <2> HIDE DEF Goal
  <2> QED BY <1>3, <1>4, <1>5, <1>6, <1>7, <1>8, <1>9, <1>10, StoringSteps DEF Step
<1> QED BY <1>1, <1>11, OrigStep

-----------------------------------------------------------------------------
(* While nothing overlaps.                                                 *)
LEMMA OthersIdle ==
    ASSUME Base, Alone, NEW p \in Procs, Step(p), ~Killed(p), ~overlap'
    PROVE  \A q \in Procs \ {p} : ~Active(q)
<1>1. ASSUME Meets(p) PROVE \A q \in Procs \ {p} : ~Active(q)
    BY <1>1 DEF Meets
<1>2. ASSUME Active(p) PROVE \A q \in Procs \ {p} : ~Active(q)
    BY <1>2 DEF Alone
<1>3. Meets(p) \/ Active(p)
  <2>1. Copy(p) => Active(p)
      BY CopyEffect DEF Active, At
  <2>2. Fails(p) => Active(p)
      BY FailsEffect DEF Active, Merging
  <2>3. PackageRemoved(p) => Active(p)
      BY PackageRemovedEffect DEF Active, At
  <2>4. LoadRemoval(p) => Active(p)
      BY LoadRemovalEffect DEF Active, At
  <2>5. \A new \in Packages : BeginMerge(p, new) => Meets(p)
      BY DEF BeginMerge
  <2> QED BY <2>1, <2>2, <2>3, <2>4, <2>5, ReplaceEffect, RegisterNewEffect, EndMergeEffect,
             FinishGateEffect, BeginRemovalEffect, RemoveOneEffect, EndRemovalEffect DEF Step
<1> QED BY <1>1, <1>2, <1>3

LEMMA AloneKept ==
    ASSUME Base, Alone, NEW p \in Procs, Step(p), ~overlap'
    PROVE  Alone'
<1>1. \A q \in Procs \ {p} : job'[q] = job[q]
    BY StepEffect DEF Effect
<1>2. CASE Killed(p)
  <2>1. job'[p].at = "idle"
      BY <1>2, KilledEffect DEF Idle
  <2> QED BY <1>1, <2>1 DEF Alone, Active
<1>3. CASE ~Killed(p)
    BY <1>1, <1>3, OthersIdle DEF Alone, Active
<1> QED BY <1>2, <1>3

(* A step takes no other process's index for current that was not, and     *)
(* none when it changes what is installed.                                 *)
LEMMA OthersIndex ==
    ASSUME Base, NEW p \in Procs, Step(p), NEW q \in Procs \ {p}, index'[q] = "current"
    PROVE  index[q] = "current" /\ installed' = installed
<1>0. index \in [Procs -> {"absent", "current", "stale"}]
    BY DEF Base, TypeOK
<1>1. ASSUME NEW new \in Packages, BeginMerge(p, new)
      PROVE  index[q] = "current" /\ installed' = installed
    BY <1>0, <1>1 DEF BeginMerge
<1>2. Copy(p) => index[q] = "current" /\ installed' = installed
    BY CopyEffect
<1>3. Fails(p) => index[q] = "current" /\ installed' = installed
    BY <1>0, FailsEffect
<1>4. ~Replace(p)
  <2>1. ASSUME Replace(p) PROVE Touch(p)
      BY <2>1 DEF Replace
  <2> QED BY <1>0, <2>1 DEF Touch
<1>5. PackageRemoved(p) => index[q] = "current" /\ installed' = installed
    BY PackageRemovedEffect
<1>6. ~RegisterNew(p)
    BY RegisterNewEffect
<1>7. EndMerge(p) => index[q] = "current" /\ installed' = installed
    BY EndMergeEffect
<1>8. FinishGate(p) => index[q] = "current" /\ installed' = installed
    BY FinishGateEffect
<1>9. ASSUME NEW batch \in SUBSET installed, BeginRemoval(p, batch)
      PROVE  index[q] = "current" /\ installed' = installed
    BY <1>9, BeginRemovalEffect
<1>10. LoadRemoval(p) => index[q] = "current" /\ installed' = installed
    BY LoadRemovalEffect
<1>11. ASSUME NEW old \in Packages, RemoveOne(p, old)
       PROVE  index[q] = "current" /\ installed' = installed
  <2>1. ~TakesOut(p, old)
      BY <1>0 DEF TakesOut, Touch
  <2> QED BY <1>11, <2>1, RemoveOneEffect DEF Untouched
<1>12. EndRemoval(p) => index[q] = "current" /\ installed' = installed
    BY <1>0, EndRemovalEffect
<1>13. Killed(p) => index[q] = "current" /\ installed' = installed
    BY <1>0, KilledEffect
<1> QED BY <1>1, <1>2, <1>3, <1>4, <1>5, <1>6, <1>7, <1>8, <1>9, <1>10, <1>11, <1>12, <1>13
        DEF Step

LEMMA CopiedKept ==
    ASSUME Base, Untroubled, NEW p \in Procs, Step(p), ~overlap'
    PROVE  CopiedHeld'
<1>1. /\ Effect(p) /\ job[p] \in Jobs /\ Alone /\ CopiedHeld
    BY StepEffect DEF Base, TypeOK, Untroubled
<1> DEFINE Held(q) ==
        /\ job[q].at \in {"replace", "postrm", "register"} => Owned(job[q].new) \subseteq disk
        /\ At(q, "postinst") => job[q].new \subseteq installed
<1>2. ASSUME NEW q \in Procs \ {p} PROVE Held(q)'
  <2>1. job'[q] = job[q]
      BY <1>1 DEF Effect
  <2>2. CASE Killed(p)
      BY <1>1, <2>1, <2>2, KilledEffect DEF CopiedHeld, At, Owned
  <2>3. CASE ~Killed(p)
    <3>1. job[q].at = "idle"
        BY <1>1, <2>3, OthersIdle DEF Active
    <3> QED BY <2>1, <3>1 DEF At
  <2> QED BY <2>2, <2>3
<1>3. Held(p)'
  <2>1. \A S : Owned(S)' = Owned(S)
      BY DEF Owned
  <2>2. ASSUME job'[p].at \in {"idle", "copy", "load", "remove"} PROVE Held(p)'
      BY <2>2 DEF At
  <2>3. ASSUME Copy(p) PROVE Held(p)'
    <3>1. /\ disk' = disk \cup Owned(job[p].new)
          /\ job'[p].at \in {"register", "replace"} /\ job'[p].new = job[p].new
      <4>1. disk' = disk \cup Owned(job[p].new)
            /\ \/ job'[p] = [job[p] EXCEPT !.at = "register"]
               \/ job'[p] = [job[p] EXCEPT !.at = "replace"]
          BY <2>3, CopyEffect
      <4> QED BY <1>1, <4>1 DEF Jobs
    <3> QED BY <3>1 DEF At, Owned
  <2>4. ASSUME Replace(p) PROVE Held(p)'
    <3>1. /\ Owned(job[p].new) \subseteq disk => Owned(job[p].new) \subseteq disk'
          /\ job'[p].at = "postrm" /\ job'[p].new = job[p].new /\ At(p, "replace")
      <4>1. job'[p] = [job[p] EXCEPT !.at = "postrm"] /\ At(p, "replace")
          BY <2>4, ReplaceEffect
      <4>2. \E gone : disk' = disk \ (gone \ Owned(job[p].new))
        <5>1. PICK old \in job[p].left \cap installed, st \in state[p] :
                  disk' = disk \ (Libs[old] \ (Owned(job[p].new)
                                  \cup ToPreserve(st.graph, old, job[p].new)))
            BY <2>4 DEF Replace
        <5>2. disk' = disk \ ((Libs[old] \ ToPreserve(st.graph, old, job[p].new))
                                \ Owned(job[p].new))
            BY <5>1
        <5> QED BY <5>2
      <4> QED BY <1>1, <4>1, <4>2 DEF Jobs
    <3> QED BY <1>1, <3>1 DEF At, Owned, CopiedHeld
  <2>5. ASSUME PackageRemoved(p) PROVE Held(p)'
    <3>1. /\ disk' = disk /\ At(p, "postrm")
          /\ job'[p].at = "register" /\ job'[p].new = job[p].new
      <4>1. job'[p] = [job[p] EXCEPT !.at = "register", !.left = {}]
          BY <2>5, PackageRemovedEffect
      <4> QED BY <1>1, <2>5, <4>1, PackageRemovedEffect DEF Jobs
    <3> QED BY <1>1, <3>1 DEF At, Owned, CopiedHeld
  <2>6. ASSUME RegisterNew(p) PROVE Held(p)'
    <3>1. /\ installed' = installed \cup job[p].new
          /\ job'[p].at = "postinst" /\ job'[p].new = job[p].new
      <4>1. installed' = installed \cup job[p].new
            /\ job'[p] = [job[p] EXCEPT !.at = "postinst"]
          BY <2>6, RegisterNewEffect
      <4> QED BY <1>1, <4>1 DEF Jobs
    <3> QED BY <3>1 DEF At
  <2>7. ASSUME FinishGate(p) PROVE Held(p)'
      BY <2>2, <2>7, FinishGateEffect DEF At
  <2>8. ASSUME Fails(p) \/ EndMerge(p) \/ EndRemoval(p) \/ Killed(p) PROVE Held(p)'
    <3>1. job'[p].at = "idle"
        BY <2>8, FailsEffect, EndMergeEffect, EndRemovalEffect, KilledEffect DEF Idle
    <3> QED BY <2>2, <3>1
  <2>9. ASSUME NEW new \in Packages, BeginMerge(p, new) PROVE Held(p)'
    <3>1. job'[p].at = "copy"
        BY <2>9, BeginMergeEffect DEF Idle
    <3> QED BY <2>2, <3>1
  <2>10. ASSUME NEW batch \in SUBSET installed, BeginRemoval(p, batch) PROVE Held(p)'
    <3>1. job'[p].at = "load"
        BY <2>10, BeginRemovalEffect DEF Idle
    <3> QED BY <2>2, <3>1
  <2>11. ASSUME LoadRemoval(p) PROVE Held(p)'
    <3>1. job'[p].at = "remove"
      <4>1. job'[p] = [job[p] EXCEPT !.at = "remove"]
          BY <2>11, LoadRemovalEffect
      <4> QED BY <1>1, <4>1 DEF Jobs
    <3> QED BY <2>2, <3>1
  <2>12. ASSUME NEW old \in Packages, RemoveOne(p, old) PROVE Held(p)'
    <3>1. job'[p].at = "remove"
      <4>1. job'[p] = [job[p] EXCEPT !.left = job[p].left \ {old}] /\ job[p].at = "remove"
          BY <2>12, RemoveOneEffect DEF At
      <4> QED BY <1>1, <4>1 DEF Jobs
    <3> QED BY <2>2, <3>1
  <2> HIDE DEF Held
  <2> QED BY <2>3, <2>4, <2>5, <2>6, <2>7, <2>8, <2>9, <2>10, <2>11, <2>12 DEF Step
<1> QED BY <1>2, <1>3 DEF CopiedHeld

LEMMA GraphKept ==
    ASSUME Base, Untroubled, NEW p \in Procs, Step(p), ~overlap'
    PROVE  GraphExact'
<1>1. /\ Effect(p) /\ job[p] \in Jobs /\ Alone /\ Shaped(p) /\ SlotUnique
      /\ state[p] \subseteq States
    BY StepEffect DEF Base, TypeOK, Untroubled
<1>2. \A st \in state[p] : Exact(p, st)
    BY DEF Untroubled, GraphExact
<1>3. ASSUME NEW q \in Procs \ {p}, NEW st \in state'[q] PROVE Exact(q, st)'
  <2>1. job'[q] = job[q] /\ st \in state[q] /\ mode'[q] = mode[q]
      BY <1>1 DEF Effect
  <2>2. Exact(q, st)
      BY <2>1 DEF Untroubled, GraphExact
  <2>3. CASE Killed(p)
    <3>1. installed' = installed
        BY <2>3, KilledEffect
    <3>2. index'[q] = "current" => index[q] = "current"
        BY OthersIndex
    <3> QED BY <2>1, <2>2, <3>1, <3>2 DEF Exact, At, KeepsState
  <2>4. CASE ~Killed(p)
    <3>1. job[q].at = "idle"
        BY <1>1, <2>4, OthersIdle DEF Active
    <3>2. index'[q] = "current" => index[q] = "current" /\ installed' = installed
        BY OthersIndex
    <3> QED BY <2>1, <2>2, <3>1, <3>2 DEF Exact, At, KeepsState
  <2> QED BY <2>3, <2>4
<1> DEFINE Goal == \A st \in state'[p] : Exact(p, st)'
<1>4. ASSUME NEW new \in Packages, BeginMerge(p, new) PROVE Goal
  <2>1. At(p, "idle") /\ job'[p].at = "copy" /\ installed' = installed
      BY <1>4, BeginMergeEffect DEF BeginMerge, Idle
  <2>2. CASE KeepsState(p)
    <3>1. state' = state
        BY <1>4, <2>2 DEF BeginMerge
    <3> QED BY <1>2, <2>1, <2>2, <3>1 DEF Exact, At
  <2>3. CASE ~KeepsState(p)
    <3>1. state'[p] = {}
        BY <1>4, <2>3, StateEmptied DEF BeginMerge
    <3> QED BY <3>1
  <2> QED BY <2>2, <2>3
<1>5. ASSUME Copy(p) PROVE Goal
  <2>1. At(p, "copy") /\ installed' = installed
      BY <1>5, CopyEffect
  <2>2. \A st \in Kept(p) : st \in States /\ (st.graph.built => st.graph.pkgs = installed)
    <3>1. LoadState \in States /\ ~LoadState.graph.built
        BY LoadType DEF Base, LoadState, NoGraph
    <3>2. CASE state[p] = {}
        BY <3>1, <3>2 DEF Kept
    <3>3. CASE state[p] # {}
        BY <1>1, <1>2, <2>1, <3>3 DEF Kept, Exact, At
    <3> QED BY <3>2, <3>3
  <2>3. CASE state'[p] = Kept(p) /\ job'[p] = [job[p] EXCEPT !.at = "register"]
    <3>1. job'[p].at = "register"
        BY <1>1, <2>3 DEF Jobs
    <3> QED BY <2>1, <2>2, <2>3, <3>1 DEF Exact, At
  <2>4. CASE /\ state'[p] = {Graphed(st, job[p].left) : st \in Kept(p)}
             /\ job'[p] = [job[p] EXCEPT !.at = "replace"]
    <3>1. job'[p].at = "replace" /\ job'[p].left = job[p].left
        BY <1>1, <2>4 DEF Jobs
    <3>2. \A st \in Kept(p) : /\ Graphed(st, job[p].left).graph.built
                              /\ Graphed(st, job[p].left).graph.pkgs = installed \ job[p].left
        BY <2>2, GraphedType DEF Base
    <3>3. \A st \in state'[p] : st.graph.built /\ st.graph.pkgs = installed' \ job'[p].left
        BY <2>1, <2>4, <3>1, <3>2
    <3> QED BY <3>1, <3>3 DEF Exact, At
  <2>5. \/ state'[p] = Kept(p) /\ job'[p] = [job[p] EXCEPT !.at = "register"]
        \/ /\ state'[p] = {Graphed(st, job[p].left) : st \in Kept(p)}
           /\ job'[p] = [job[p] EXCEPT !.at = "replace"]
      BY <1>5, CopyEffect
  <2> QED BY <2>3, <2>4, <2>5
<1>6. ASSUME Replace(p) PROVE Goal
  <2>1. At(p, "replace") /\ job'[p] = [job[p] EXCEPT !.at = "postrm"]
      BY <1>6, ReplaceEffect
  <2>2. job'[p].at = "postrm"
      BY <1>1, <2>1 DEF Jobs
  <2>3. PICK old \in job[p].left \cap installed, st \in state[p] :
            LET paths == ToPreserve(st.graph, old, job[p].new)
            IN  /\ installed' = installed \ {old}
                /\ disk' = disk \ (Libs[old] \ (Owned(job[p].new) \cup paths))
                /\ state'[p] = {Register(st, old, paths)}
                /\ forgotten' = forgotten \cup (st.reg[SlotOf[old]] \ paths)
      BY <1>6, ReplaceEffect
  <2>4. \A o \in job[p].left \cap installed : o = old
    <3>1. PICK new \in Packages : job[p].new = {new}
        BY <1>1, <2>1 DEF Shaped, Merging, At
    <3>2. Occupant(new) = job[p].left \cap installed
        BY <1>1, <2>1, <3>1 DEF Shaped, At
    <3> QED BY <1>1, <3>2 DEF Occupant, SlotUnique
  <2>5. st.graph.built /\ st.graph.pkgs = installed'
      BY <1>2, <2>1, <2>3, <2>4 DEF Exact
  <2>6. Register(st, old, ToPreserve(st.graph, old, job[p].new)).graph = st.graph
      BY <1>1, RegisterKeeps, PreserveType DEF Base, TypeOK
  <2>7. \A s \in state'[p] : s.graph = st.graph
    <3>1. state'[p] = {Register(st, old, ToPreserve(st.graph, old, job[p].new))}
        BY <2>3
    <3> QED BY <2>6, <3>1
  <2> QED BY <2>2, <2>5, <2>7 DEF Exact, At
<1>7. ASSUME PackageRemoved(p) PROVE Goal
  <2>1. /\ At(p, "postrm") /\ installed' = installed
        /\ job'[p] = [job[p] EXCEPT !.at = "register", !.left = {}]
        /\ state'[p] = {Renewed(st) : st \in state[p]}
      BY <1>7, PackageRemovedEffect
  <2>2. job'[p].at = "register"
      BY <1>1, <2>1 DEF Jobs
  <2>3. \A st \in state[p] : Renewed(st).graph.pkgs = installed
      BY <1>1, <1>2, <2>1, RenewedType DEF Exact, Base
  <2> QED BY <2>1, <2>2, <2>3 DEF Exact, At
<1>8. ASSUME RegisterNew(p) PROVE Goal
  <2>1. /\ At(p, "register") /\ installed' = installed \cup job[p].new
        /\ job'[p] = [job[p] EXCEPT !.at = "postinst"]
        /\ state'[p] = {Added(st, job[p].new) : st \in state[p]}
      BY <1>8, RegisterNewEffect
  <2>2. job'[p].at = "postinst" /\ job[p].new \in SUBSET Packages
      BY <1>1, <2>1 DEF Jobs
  <2>3. \A st \in state[p] : Added(st, job[p].new).graph.built =>
            Added(st, job[p].new).graph.pkgs = installed \cup job[p].new
      BY <1>1, <1>2, <2>1, <2>2, AddedType DEF Exact, At
  <2>4. \A new \in state'[p] : new.graph.built => new.graph.pkgs = installed'
      BY <2>1, <2>3
  <2> QED BY <2>2, <2>4 DEF Exact, At
<1>9. ASSUME EndMerge(p) PROVE Goal
  <2>1. /\ At(p, "postinst") /\ job'[p].at = "idle" /\ installed' = installed
        /\ state'[p] \subseteq state[p]
      BY <1>9, EndMergeEffect DEF Idle
  <2> QED BY <1>2, <2>1 DEF Exact, At
<1>10. ASSUME Fails(p) PROVE Goal
  <2>1. job'[p].at = "idle" /\ index'[p] = "absent"
      BY <1>10, FailsEffect DEF Idle, Base, TypeOK
  <2> QED BY <2>1 DEF Exact, At, KeepsState
<1>11. ASSUME \/ FinishGate(p) \/ EndRemoval(p) \/ Killed(p)
              \/ \E batch \in SUBSET installed : BeginRemoval(p, batch)
       PROVE  Goal
    BY <1>11, FinishGateEffect, EndRemovalEffect, KilledEffect, BeginRemovalEffect
<1>12. ASSUME LoadRemoval(p) PROVE Goal
  <2>1. /\ installed' = installed /\ job'[p] = [job[p] EXCEPT !.at = "remove"]
        /\ state'[p] = {Loaded(job[p].batch)}
      BY <1>12, LoadRemovalEffect
  <2>2. job'[p].at = "remove" /\ job'[p].batch = job[p].batch
      BY <1>1, <2>1 DEF Jobs
  <2> QED BY <2>1, <2>2, LoadedType DEF Exact, At, Base
<1>13. ASSUME NEW old \in Packages, RemoveOne(p, old) PROVE Goal
  <2>1. /\ At(p, "remove") /\ old \in job[p].left
        /\ job'[p] = [job[p] EXCEPT !.left = job[p].left \ {old}]
        /\ Untouched \/ TakesOut(p, old)
      BY <1>13, RemoveOneEffect
  <2>2. job'[p].at = "remove" /\ job'[p].batch = job[p].batch
      BY <1>1, <2>1 DEF Jobs, At
  <2>3. old \in job[p].batch
      BY <1>1, <2>1 DEF Shaped, Removing, At
  <2>4. CASE Untouched
      BY <1>2, <2>1, <2>2, <2>4 DEF Untouched, Exact, At
  <2>5. CASE TakesOut(p, old)
    <3>1. PICK st \in state[p] : state'[p] = {Register(st, old, ToPreserve(st.graph, old, {}))}
        BY <2>5 DEF TakesOut
    <3>2. Register(st, old, ToPreserve(st.graph, old, {})).graph = st.graph
        BY <1>1, RegisterKeeps, PreserveType DEF Base
    <3>3. st.graph.built /\ st.graph.pkgs = installed' \ job[p].batch
        BY <1>2, <2>1, <2>3, <2>5 DEF Exact, TakesOut
    <3> QED BY <2>2, <3>1, <3>2, <3>3 DEF Exact, At
  <2> QED BY <2>1, <2>4, <2>5
<1>14. Goal
  <2> HIDE DEF Goal
  <2> QED BY <1>4, <1>5, <1>6, <1>7, <1>8, <1>9, <1>10, <1>11, <1>12, <1>13 DEF Step
<1> QED BY <1>3, <1>14 DEF GraphExact

(* What is on disk stays accounted for.                                    *)
LEMMA ProgressKept ==
    ASSUME NEW p \in Procs, Effect(p), NEW S,
           Owned(job[p].new) \cap disk \subseteq Owned(job'[p].new) \cup S
    PROVE  InProgress \cap disk \subseteq InProgress' \cup S
<1> SUFFICES ASSUME NEW f \in InProgress \cap disk PROVE f \in InProgress' \cup S
    OBVIOUS
<1>1. PICK q \in Procs : f \in Owned(job[q].new)
    BY Merges
<1>2. CASE q = p
    BY <1>1, <1>2, MergesNext
<1>3. CASE q # p
  <2>1. job'[q] = job[q]
      BY <1>3 DEF Effect
  <2> QED BY <1>1, <2>1, MergesNext
<1> QED BY <1>2, <1>3

LEMMA TrackedStep ==
    ASSUME Base, Tracked, NEW p \in Procs, Effect(p), registry' = registry,
           job'[p].new = job[p].new,
           \A st \in state[p] : \A s \in st.fresh : \A f \in st.reg[s] :
               f \in forgotten' \/ \E new \in state'[p] : s \in new.fresh /\ f \in new.reg[s],
           disk' \subseteq disk \cup Owned(job[p].new),
           Owned(installed) \cap disk' \subseteq Owned(installed)' \cup Pending' \cup Owned(job[p].new)
    PROVE  Tracked'
<1> SUFFICES ASSUME NEW f \in disk', f \notin Owned(installed)', f \notin forgotten',
                    f \notin InProgress'
             PROVE  f \in AllPaths(registry)' \/ f \in Pending'
    BY DEF Tracked
<1>1. f \notin Owned(job[p].new)
    BY MergesNext
<1>2. f \notin InProgress
  <2>1. \A q \in Procs : job'[q].new = job[q].new
      BY DEF Effect
  <2> QED BY <2>1, Merges, MergesNext
<1>3. f \in disk /\ f \notin forgotten
    BY <1>1 DEF Effect
<1>4. f \in Owned(installed) \/ f \in AllPaths(registry) \/ f \in Pending
    BY <1>2, <1>3 DEF Tracked
<1>5. CASE f \in Owned(installed)
    BY <1>1, <1>5
<1>6. CASE f \in AllPaths(registry)
    BY <1>6 DEF AllPaths
<1>7. CASE f \in Pending
  <2>1. CASE f \in Pending'
      BY <2>1
  <2>2. CASE f \notin Pending'
    <3>1. PICK st \in state[p] : \E s \in st.fresh : f \in st.reg[s]
        BY <1>7, <2>2, WaitingKept
    <3>2. \E new \in state'[p] : \E s \in new.fresh : f \in new.reg[s]
        BY <3>1
    <3>3. f \in Paths
        BY <1>7 DEF Pending
    <3> QED BY <3>2, <3>3 DEF Pending
  <2> QED BY <2>1, <2>2
<1> QED BY <1>4, <1>5, <1>6, <1>7

(* A package that goes leaves files the registry has now, or that the      *)
(* package replacing it brought.                                           *)
LEMMA TrackedRegister ==
    ASSUME Base, Tracked, NEW p \in Procs, Effect(p), registry' = registry,
           job'[p].new = job[p].new, NEW old \in installed, NEW st \in state[p],
           NEW paths \in SUBSET Paths, installed' = installed \ {old},
           state'[p] = {Register(st, old, paths)},
           disk' \subseteq disk \ (Libs[old] \ (Owned(job[p].new) \cup paths)),
           forgotten' = forgotten \cup (st.reg[SlotOf[old]] \ paths)
    PROVE  Tracked'
<1> DEFINE new == Register(st, old, paths)
<1>1. old \in Packages /\ st \in States /\ \A other \in state[p] : other = st
    BY DEF Base, TypeOK
<1>2. /\ new.fresh = st.fresh \cup {SlotOf[old]} /\ new.reg[SlotOf[old]] = paths
      /\ \A s \in Slots \ {SlotOf[old]} : new.reg[s] = st.reg[s]
      /\ st.fresh \subseteq Slots /\ new \in state'[p]
    BY <1>1, RegisterKeeps DEF States
<1> HIDE DEF new
<1>3. ASSUME NEW other \in state[p], NEW s \in other.fresh, NEW f \in other.reg[s]
      PROVE  f \in forgotten' \/ \E n \in state'[p] : s \in n.fresh /\ f \in n.reg[s]
  <2>1. other = st /\ s \in Slots /\ s \in new.fresh
      BY <1>1, <1>2
  <2>2. CASE s = SlotOf[old]
      BY <1>2, <2>1, <2>2
  <2>3. CASE s # SlotOf[old]
      BY <1>2, <2>1, <2>3
  <2> QED BY <2>2, <2>3
<1>4. ASSUME NEW f \in Owned(installed), f \in disk'
      PROVE  f \in Owned(installed)' \cup Pending' \cup Owned(job[p].new)
  <2>1. PICK q \in installed : f \in Libs[q]
      BY Owns
  <2>2. CASE q # old
    <3>1. f \in Owned(installed)'
        BY <2>1, <2>2 DEF Owned
    <3> QED BY <3>1
  <2>3. CASE q = old
    <3>1. f \in Owned(job[p].new) \/ f \in paths
        BY <1>4, <2>1, <2>3
    <3>2. ASSUME f \in paths PROVE f \in Pending'
      <4>1. SlotOf[old] \in new.fresh /\ f \in new.reg[SlotOf[old]] /\ f \in Paths
          BY <1>2, <3>2
      <4> QED BY <1>2, <4>1 DEF Pending
    <3> QED BY <3>1, <3>2
  <2> QED BY <2>2, <2>3
<1>5. disk' \subseteq disk
    OBVIOUS
<1> QED BY <1>3, <1>4, <1>5, TrackedStep

LEMMA TrackedKept ==
    ASSUME Base, OrigKept, Untroubled, NEW p \in Procs, Step(p)
    PROVE  Tracked'
<1>1. /\ Effect(p) /\ job[p] \in Jobs /\ Shaped(p) /\ Tracked /\ CopiedHeld
      /\ state[p] \subseteq States
    BY StepEffect DEF Base, TypeOK, Untroubled
<1>2. ASSUME Stores(p), installed' = installed,
             Owned(job[p].new) \cap disk
                 \subseteq Owned(job'[p].new) \cup (forgotten' \cup Owned(installed))
      PROVE  Tracked'
  <2>1. InProgress \cap disk \subseteq InProgress' \cup (forgotten' \cup Owned(installed))
      BY <1>1, <1>2, ProgressKept
  <2> QED BY <1>1, <1>2, <2>1, StoresTracked
<1>3. ~Merging(p) => Owned(job[p].new) = {}
    BY <1>1 DEF Shaped, Owned
<1>4. ASSUME NEW new \in Packages, BeginMerge(p, new) PROVE Tracked'
  <2>1. Owned(job[p].new) = {}
      BY <1>3, <1>4 DEF BeginMerge, At, Merging
  <2> QED BY <1>2, <1>4, <2>1, StoringSteps
<1>5. ASSUME Fails(p) PROVE Tracked'
    BY <1>2, <1>5, StoringSteps, FailsEffect
<1>6. ASSUME EndMerge(p) PROVE Tracked'
  <2>1. job[p].new \subseteq installed
      BY <1>1, <1>6, EndMergeEffect DEF CopiedHeld
  <2>2. Owned(job[p].new) \subseteq Owned(installed)
      BY <2>1 DEF Owned
  <2> QED BY <1>2, <1>6, <2>2, StoringSteps
<1>7. ASSUME FinishGate(p) PROVE Tracked'
  <2>1. job' = job
      BY <1>7, FinishGateEffect
  <2> QED BY <1>2, <1>7, <2>1, StoringSteps
<1>8. ASSUME NEW batch \in SUBSET installed, BeginRemoval(p, batch) PROVE Tracked'
  <2>1. Owned(job[p].new) = {}
      BY <1>3, <1>8, BeginRemovalEffect DEF At, Merging
  <2> QED BY <1>2, <1>8, <2>1, StoringSteps
<1>9. ASSUME EndRemoval(p) PROVE Tracked'
  <2>1. Owned(job[p].new) = {}
      BY <1>3, <1>9, EndRemovalEffect DEF At, Merging
  <2> QED BY <1>2, <1>9, <2>1, StoringSteps
(* The states that keep their registry.                                    *)
<1>10. ASSUME registry' = registry, job'[p].new = job[p].new,
              \A st \in state[p] : \E new \in state'[p] :
                  new.reg = st.reg /\ new.fresh = st.fresh,
              disk' \subseteq disk \cup Owned(job[p].new), installed \subseteq installed'
       PROVE  Tracked'
  <2>1. Owned(installed) \subseteq Owned(installed)'
      BY <1>10 DEF Owned
  <2>2. ASSUME NEW st \in state[p], NEW s \in st.fresh, NEW f \in st.reg[s]
        PROVE  \E new \in state'[p] : s \in new.fresh /\ f \in new.reg[s]
    <3>1. PICK new \in state'[p] : new.reg = st.reg /\ new.fresh = st.fresh
        BY <1>10
    <3> QED BY <3>1
  <2> QED BY <1>1, <1>10, <2>1, <2>2, TrackedStep
<1>11. ASSUME Copy(p) PROVE Tracked'
  <2>1. /\ installed' = installed /\ registry' = registry
        /\ disk' = disk \cup Owned(job[p].new)
        /\ state'[p] = Kept(p) \/ state'[p] = {Graphed(st, job[p].left) : st \in Kept(p)}
        /\ \E at : job'[p] = [job[p] EXCEPT !.at = at]
      BY <1>11, CopyEffect
  <2>2. job'[p].new = job[p].new
      BY <1>1, <2>1 DEF Jobs
  <2>3. \A st \in state[p] : st \in Kept(p) /\ Graphed(st, job[p].left).reg = st.reg
                             /\ Graphed(st, job[p].left).fresh = st.fresh
      BY <1>1, GraphedType DEF Kept, Base
  <2>4. ASSUME NEW st \in state[p]
        PROVE  \E new \in state'[p] : new.reg = st.reg /\ new.fresh = st.fresh
      BY <2>1, <2>3
  <2> QED BY <1>10, <2>1, <2>2, <2>4
<1>12. ASSUME Replace(p) PROVE Tracked'
  <2>1. registry' = registry /\ job'[p] = [job[p] EXCEPT !.at = "postrm"]
      BY <1>12, ReplaceEffect
  <2>2. job'[p].new = job[p].new
      BY <1>1, <2>1 DEF Jobs
  <2>3. PICK old \in job[p].left \cap installed, st \in state[p] :
            LET paths == ToPreserve(st.graph, old, job[p].new)
            IN  /\ installed' = installed \ {old}
                /\ disk' = disk \ (Libs[old] \ (Owned(job[p].new) \cup paths))
                /\ state'[p] = {Register(st, old, paths)}
                /\ forgotten' = forgotten \cup (st.reg[SlotOf[old]] \ paths)
      BY <1>12, ReplaceEffect
  <2> DEFINE paths == ToPreserve(st.graph, old, job[p].new)
  <2>4. /\ paths \in SUBSET Paths /\ old \in installed
        /\ installed' = installed \ {old}
        /\ disk' \subseteq disk \ (Libs[old] \ (Owned(job[p].new) \cup paths))
        /\ state'[p] = {Register(st, old, paths)}
        /\ forgotten' = forgotten \cup (st.reg[SlotOf[old]] \ paths)
    <3>1. old \in Packages
        BY DEF Base, TypeOK
    <3> QED BY <2>3, <3>1, PreserveType DEF Base
  <2> HIDE DEF paths
  <2> QED BY <1>1, <2>1, <2>2, <2>4, TrackedRegister
<1>13. ASSUME PackageRemoved(p) PROVE Tracked'
  <2>1. /\ installed' = installed /\ registry' = registry /\ disk' = disk
        /\ job'[p] = [job[p] EXCEPT !.at = "register", !.left = {}]
        /\ state'[p] = {Renewed(st) : st \in state[p]}
      BY <1>13, PackageRemovedEffect
  <2>2. job'[p].new = job[p].new
      BY <1>1, <2>1 DEF Jobs
  <2>3. \A st \in state[p] : Renewed(st).reg = st.reg /\ Renewed(st).fresh = st.fresh
      BY <1>1, RenewedType DEF Base
  <2>4. \A st \in state[p] : \E new \in state'[p] : new.reg = st.reg /\ new.fresh = st.fresh
      BY <2>1, <2>3
  <2> QED BY <1>10, <2>1, <2>2, <2>4
<1>14. ASSUME RegisterNew(p) PROVE Tracked'
  <2>1. /\ installed' = installed \cup job[p].new /\ registry' = registry /\ disk' = disk
        /\ job'[p] = [job[p] EXCEPT !.at = "postinst"]
        /\ state'[p] = {Added(st, job[p].new) : st \in state[p]}
      BY <1>14, RegisterNewEffect
  <2>2. job'[p].new = job[p].new /\ job[p].new \in SUBSET Packages
      BY <1>1, <2>1 DEF Jobs
  <2>3. \A st \in state[p] : /\ Added(st, job[p].new).reg = st.reg
                             /\ Added(st, job[p].new).fresh = st.fresh
      BY <1>1, <2>2, AddedType
  <2>4. \A st \in state[p] : \E new \in state'[p] : new.reg = st.reg /\ new.fresh = st.fresh
      BY <2>1, <2>3
  <2> QED BY <1>10, <2>1, <2>2, <2>4
<1>15. ASSUME LoadRemoval(p) PROVE Tracked'
  <2>1. /\ installed' = installed /\ registry' = registry /\ disk' = disk
        /\ job'[p] = [job[p] EXCEPT !.at = "remove"] /\ At(p, "load")
      BY <1>15, LoadRemovalEffect
  <2>2. job'[p].new = job[p].new /\ state[p] = {}
      BY <1>1, <2>1 DEF Jobs, Shaped
  <2> QED BY <1>10, <2>1, <2>2
<1>16. ASSUME NEW old \in Packages, RemoveOne(p, old) PROVE Tracked'
  <2>1. /\ registry' = registry /\ At(p, "remove")
        /\ job'[p] = [job[p] EXCEPT !.left = job[p].left \ {old}]
        /\ Untouched \/ TakesOut(p, old)
      BY <1>16, RemoveOneEffect
  <2>2. job'[p].new = job[p].new
      BY <1>1, <2>1 DEF Jobs
  <2>3. CASE Untouched
      BY <1>10, <2>1, <2>2, <2>3 DEF Untouched
  <2>4. CASE TakesOut(p, old)
    <3>1. PICK st \in state[p] :
            LET paths == ToPreserve(st.graph, old, {})
            IN  /\ disk' = disk \ (Libs[old] \ paths)
                /\ state'[p] = {Register(st, old, paths)}
                /\ forgotten' = forgotten \cup (st.reg[SlotOf[old]] \ paths)
        BY <2>4 DEF TakesOut
    <3> DEFINE paths == ToPreserve(st.graph, old, {})
    <3>2. Owned(job[p].new) = {}
        BY <1>3, <2>1 DEF At, Merging
    <3>3. /\ paths \in SUBSET Paths /\ old \in installed /\ installed' = installed \ {old}
          /\ disk' \subseteq disk \ (Libs[old] \ (Owned(job[p].new) \cup paths))
          /\ state'[p] = {Register(st, old, paths)}
          /\ forgotten' = forgotten \cup (st.reg[SlotOf[old]] \ paths)
        BY <2>4, <3>1, <3>2, PreserveType DEF TakesOut, Base
    <3> HIDE DEF paths
    <3> QED BY <1>1, <2>1, <2>2, <3>3, TrackedRegister
  <2> QED BY <2>1, <2>3, <2>4
<1>17. ASSUME Killed(p) PROVE Tracked'
  <2>1. /\ UNCHANGED <<installed, disk, registry>>
        /\ forgotten' = forgotten \cup Known(p) \cup Owned(job[p].new)
      BY <1>17, KilledEffect
  <2> SUFFICES ASSUME NEW f \in disk', f \notin forgotten'
               PROVE  f \in Owned(installed)' \cup AllPaths(registry)' \cup Pending' \cup InProgress'
      BY DEF Tracked
  <2>2. f \in Owned(installed) \/ f \in AllPaths(registry) \/ f \in Pending \/ f \in InProgress
      BY <1>1, <2>1 DEF Tracked
  <2>3. Owned(installed)' = Owned(installed) /\ AllPaths(registry)' = AllPaths(registry)
      BY <2>1 DEF Owned, AllPaths
  <2>4. CASE f \in Pending
    <3>1. CASE f \in Pending'
        BY <3>1
    <3>2. CASE f \notin Pending'
      <4>1. PICK st \in state[p] : \E s \in st.fresh : f \in st.reg[s]
          BY <1>1, <2>4, <3>2, WaitingKept
      <4>2. f \in AllPaths(st.reg)
          BY <1>1, <4>1, Lists DEF States
      <4> QED BY <2>1, <4>2 DEF Known
    <3> QED BY <3>1, <3>2
  <2>5. CASE f \in InProgress
    <3>1. Owned(job[p].new) \cap disk \subseteq Owned(job'[p].new) \cup forgotten'
        BY <2>1
    <3>2. InProgress \cap disk \subseteq InProgress' \cup forgotten'
        BY <1>1, <3>1, ProgressKept
    <3> QED BY <2>1, <2>5, <3>2
  <2> QED BY <2>2, <2>3, <2>4, <2>5
<1> QED BY <1>4, <1>5, <1>6, <1>7, <1>8, <1>9, <1>11, <1>12, <1>13, <1>14, <1>15, <1>16, <1>17
        DEF Step

(* What a package owns is not taken with another one.                      *)
LEMMA Apart ==
    ASSUME Base, NEW old \in installed, NEW q \in installed \ {old}
    PROVE  Libs[q] \cap Libs[old] = {}
<1>1. old \in Packages /\ q \in Packages /\ SlotOf[q] # SlotOf[old]
    BY DEF Base, TypeOK, SlotUnique
<1> QED BY <1>1, PreserveLibsAssumption

LEMMA TakenOwned ==
    ASSUME Base, Owned(installed) \subseteq disk, NEW old \in installed,
           installed' = installed \ {old}, disk \ Libs[old] \subseteq disk'
    PROVE  Owned(installed)' \subseteq disk'
<1> SUFFICES ASSUME NEW q \in installed \ {old}, NEW f \in Libs[q] PROVE f \in disk'
    BY DEF Owned
<1>1. f \in disk
    BY Owns
<1>2. f \notin Libs[old]
    BY Apart
<1> QED BY <1>1, <1>2

LEMMA OwnedKept ==
    ASSUME Base, Untroubled, NEW p \in Procs, Step(p)
    PROVE  Owned(installed)' \subseteq disk'
<1>1. /\ Owned(installed) \subseteq disk /\ CopiedHeld
    BY DEF Untroubled
<1>2. ASSUME Stores(p), installed' = installed PROVE Owned(installed)' \subseteq disk'
    BY <1>1, <1>2, StoresOwned
<1>3. ASSUME installed' = installed, disk \subseteq disk'
      PROVE  Owned(installed)' \subseteq disk'
    BY <1>1, <1>3 DEF Owned
<1>4. ASSUME Copy(p) PROVE Owned(installed)' \subseteq disk'
    BY <1>3, <1>4, CopyEffect
<1>5. ASSUME Replace(p) PROVE Owned(installed)' \subseteq disk'
  <2>1. PICK old \in job[p].left \cap installed, st \in state[p] :
            /\ disk' = disk \ (Libs[old] \ (Owned(job[p].new)
                                   \cup ToPreserve(st.graph, old, job[p].new)))
            /\ installed' = installed \ {old}
      BY <1>5 DEF Replace
  <2> QED BY <1>1, <2>1, TakenOwned
<1>6. ASSUME PackageRemoved(p) \/ LoadRemoval(p) \/ Killed(p)
      PROVE  Owned(installed)' \subseteq disk'
    BY <1>3, <1>6, PackageRemovedEffect, LoadRemovalEffect, KilledEffect
<1>7. ASSUME RegisterNew(p) PROVE Owned(installed)' \subseteq disk'
  <2>1. disk' = disk /\ installed' = installed \cup job[p].new /\ At(p, "register")
      BY <1>7, RegisterNewEffect
  <2>2. Owned(job[p].new) \subseteq disk
      BY <1>1, <2>1 DEF CopiedHeld, At
  <2> QED BY <1>1, <2>1, <2>2 DEF Owned
<1>8. ASSUME NEW old \in Packages, RemoveOne(p, old) PROVE Owned(installed)' \subseteq disk'
  <2>1. CASE Untouched
      BY <1>3, <2>1 DEF Untouched
  <2>2. CASE TakesOut(p, old)
    <3>1. PICK st \in state[p] : disk' = disk \ (Libs[old] \ ToPreserve(st.graph, old, {}))
        BY <2>2 DEF TakesOut
    <3> QED BY <1>1, <2>2, <3>1, TakenOwned DEF TakesOut
  <2> QED BY <1>8, <2>1, <2>2, RemoveOneEffect
<1>9. \/ Stores(p) /\ installed' = installed
      \/ Copy(p) \/ Replace(p) \/ PackageRemoved(p) \/ RegisterNew(p)
      \/ LoadRemoval(p) \/ Killed(p) \/ \E old \in Packages : RemoveOne(p, old)
    BY StoringSteps DEF Step
<1> QED BY <1>2, <1>4, <1>5, <1>6, <1>7, <1>8, <1>9

-----------------------------------------------------------------------------
(* The inductive invariant, and what follows from it.                      *)
LEMMA UntroubledStep ==
    ASSUME IInv, NEW p \in Procs, Step(p), ~overlap'
    PROVE  Untroubled'
<1>1. Untroubled /\ Base /\ OrigKept
    BY StepEffect DEF IInv, Effect
<1> QED BY <1>1, AloneKept, CopiedKept, GraphKept, OwnedKept, TrackedKept DEF Untroubled

LEMMA IInvInit == Init => IInv
<1> SUFFICES ASSUME Init PROVE IInv
    OBVIOUS
<1>1. Base
    BY BaseInit
<1>2. /\ \A p \in Procs : state[p] = {} /\ job[p].at = "idle"
      /\ disk = Owned(installed)
    BY DEF Init, Idle
<1>3. OrigKept /\ GraphExact
    BY <1>2 DEF OrigKept, GraphExact
<1>4. Alone /\ CopiedHeld /\ Tracked
    BY <1>2 DEF Alone, CopiedHeld, Active, At, Tracked
<1> QED BY <1>1, <1>2, <1>3, <1>4 DEF IInv, Untroubled

LEMMA IInvStep == ASSUME IInv, [Next]_vars PROVE IInv'
<1>1. CASE UNCHANGED vars
  <2>1. Base' /\ OrigKept'
      BY <1>1, BaseSame DEF IInv, OrigKept, vars
  <2>2. (overlap \/ Untroubled) => (overlap \/ Untroubled)'
    <3>1. UNCHANGED <<installed, disk, registry, mode, state, index, job, overlap, forgotten>>
        BY <1>1 DEF vars
    <3>2. /\ Owned(installed)' = Owned(installed) /\ AllPaths(registry)' = AllPaths(registry)
          /\ Pending' = Pending /\ InProgress' = InProgress
        BY <3>1 DEF Owned, AllPaths, Pending, InProgress
    <3>3. /\ Alone' = Alone /\ CopiedHeld' = CopiedHeld /\ GraphExact' = GraphExact
        BY <3>1 DEF Alone, Active, CopiedHeld, At, Owned, GraphExact, Exact, KeepsState
    <3> QED BY <3>1, <3>2, <3>3 DEF Untroubled, Tracked
  <2> QED BY <2>1, <2>2 DEF IInv
<1>2. ASSUME NEW p \in Procs, Step(p) PROVE IInv'
  <2>1. Base' /\ OrigKept'
      BY <1>2, StepEffect, OrigInvariant DEF IInv
  <2> QED BY <1>2, <2>1, UntroubledStep DEF IInv
<1> QED BY <1>1, <1>2, NextSteps

(* Everything the theorems below rest on, in every state any processes can *)
(* reach: who may change the registry, what each link graph knows, and     *)
(* which files somebody still answers for.                                 *)
THEOREM InvariantHolds == Spec => []IInv
<1>1. Init => IInv
    BY IInvInit
<1>2. IInv /\ [Next]_vars => IInv'
    BY IInvStep
<1> QED BY <1>1, <1>2, PTL DEF Spec

(* Every variable keeps its type, at most one state is kept by a process,  *)
(* and a merge holds the lock.                                             *)
THEOREM TypeCorrect == Spec => []TypeOK
<1>1. IInv => TypeOK
    BY DEF IInv, Base
<1> QED BY <1>1, InvariantHolds, PTL

(* A library an installed package owns is on disk, until a removal without *)
(* the lock meets another job.                                             *)
THEOREM OwnedOnDisk == Spec => []OwnedLibsOnDisk
<1>1. IInv => OwnedLibsOnDisk
    BY DEF IInv, Untroubled, OwnedLibsOnDisk
<1> QED BY <1>1, InvariantHolds, PTL

(* Every library on disk that no package owns is one the registry file     *)
(* lists, or a state that is going to be stored, but for those on record   *)
(* as lost by the code.                                                    *)
THEOREM NothingLost == Spec => []PreservedTracked
<1>1. ASSUME IInv PROVE PreservedTracked
  <2>1. Pending \subseteq Listed
    <3> SUFFICES ASSUME NEW f \in Pending PROVE f \in Listed
        OBVIOUS
    <3>1. PICK p \in Procs : \E st \in state[p] : \E s \in st.fresh : f \in st.reg[s]
        BY DEF Pending
    <3>2. PICK st \in state[p] : \E s \in st.fresh : f \in st.reg[s]
        BY <3>1
    <3>3. f \in AllPaths(st.reg)
      <4>1. st.fresh \subseteq Slots
          BY <1>1 DEF IInv, Base, TypeOK, States
      <4> QED BY <3>2, <4>1, Lists
    <3> QED BY <3>3 DEF Listed, Known
  <2> QED BY <1>1, <2>1 DEF IInv, Untroubled, Tracked, Listed, PreservedTracked
<1> QED BY <1>1, InvariantHolds, PTL

(* A removal keeps what a package the graph counts needs.                  *)
LEMMA RemovalSpares ==
    ASSUME IInv, Untroubled, ~Miscounted, NEW p \in Procs, NEW st \in state[p],
           NEW old \in installed, NEW incoming,
           st.graph.pkgs \subseteq installed \ {old}, NEW q \in st.graph.pkgs,
           disk \ (Libs[old] \ (Owned(incoming) \cup ToPreserve(st.graph, old, incoming)))
               \subseteq disk'
    PROVE  ~Loses(q)
<1> SUFFICES ASSUME NEW s \in Needs[q], NEW f \in disk, SonameOf[f] = s
             PROVE  \E g \in disk' : SonameOf[g] = s
    BY DEF Loses, Available
<1>1. CASE f \in disk'
    BY <1>1
<1>2. CASE f \notin disk'
  <2>1. f \in Libs[old] /\ f \notin Owned(incoming) /\ f \notin ToPreserve(st.graph, old, incoming)
      BY <1>2
  <2>2. SonameOf[f] \in Needed(st.graph.pkgs)
      BY DEF Needed
  <2>3. SonameOf[f] \in GraphProviders(st.graph)
      BY <2>1, <2>2 DEF ToPreserve
  <2>4. CASE SonameOf[f] \in Provided(st.graph.pkgs)
    <3>1. PICK g \in Owned(st.graph.pkgs) : SonameOf[g] = s
        BY <2>4 DEF Provided
    <3>2. PICK r \in st.graph.pkgs : g \in Libs[r]
        BY <3>1, Owns
    <3>3. r \in installed \ {old} /\ g \notin Libs[old]
        BY <3>2, Apart DEF IInv
    <3>4. g \in disk
        BY <3>2, <3>3, Owns DEF Untroubled
    <3> QED BY <3>1, <3>3, <3>4
  <2>5. CASE SonameOf[f] \in st.graph.kept
    <3>1. st.graph.kept \subseteq {SonameOf[g] : g \in disk \ Owned(installed)}
        BY DEF Miscounted
    <3>2. PICK g \in disk \ Owned(installed) : SonameOf[g] = s
        BY <2>5, <3>1
    <3>3. g \notin Libs[old]
        BY <3>2, Owns
    <3> QED BY <3>2, <3>3
  <2> QED BY <2>3, <2>4, <2>5 DEF GraphProviders
<1> QED BY <1>1, <1>2

LEMMA NeededStep ==
    ASSUME IInv, NEW p \in Procs, Step(p), NEW q \in Spared, ~overlap', ~Miscounted
    PROVE  ~Loses(q)
<1>1. /\ Base /\ Untroubled /\ q \in installed /\ q \in installed' /\ q \notin Doomed
      /\ job[p] \in Jobs /\ Shaped(p) /\ \A st \in state[p] : Exact(p, st)
    BY StepEffect DEF IInv, Effect, Spared, Base, TypeOK, Untroubled, GraphExact
<1>2. ASSUME Stores(p) PROVE ~Loses(q)
    BY <1>1, <1>2, StoresNeeded
<1>3. ASSUME disk \subseteq disk' PROVE ~Loses(q)
    BY <1>3 DEF Loses, Available
<1>4. ASSUME Replace(p) PROVE ~Loses(q)
  <2>1. At(p, "replace")
      BY <1>1, <1>4, ReplaceEffect
  <2>2. PICK old \in job[p].left \cap installed, st \in state[p] :
            /\ disk' = disk \ (Libs[old] \ (Owned(job[p].new)
                                   \cup ToPreserve(st.graph, old, job[p].new)))
            /\ installed' = installed \ {old}
      BY <1>4 DEF Replace
  <2>3. st.graph.pkgs = installed \ job[p].left
      BY <1>1, <2>1 DEF Exact
  <2>4. \A o \in job[p].left \cap installed : o = old
    <3>1. PICK new \in Packages : job[p].new = {new}
        BY <1>1, <2>1 DEF Shaped, Merging, At
    <3>2. Occupant(new) = job[p].left \cap installed
        BY <1>1, <2>1, <3>1 DEF Shaped, At
    <3> QED BY <1>1, <3>2 DEF Occupant, SlotUnique, Base
  <2>5. q \in st.graph.pkgs /\ st.graph.pkgs \subseteq installed \ {old}
      BY <1>1, <2>2, <2>3, <2>4
  <2> QED BY <1>1, <2>2, <2>5, RemovalSpares
<1>5. ASSUME NEW old \in Packages, RemoveOne(p, old) PROVE ~Loses(q)
  <2>1. At(p, "remove") /\ old \in job[p].left
      BY <1>1, <1>5, RemoveOneEffect
  <2>2. CASE Untouched
      BY <1>3, <2>2 DEF Untouched
  <2>3. CASE TakesOut(p, old)
    <3>1. PICK st \in state[p] : disk' = disk \ (Libs[old] \ ToPreserve(st.graph, old, {}))
        BY <2>3 DEF TakesOut
    <3>2. old \in job[p].batch /\ q \notin job[p].batch
        BY <1>1, <2>1 DEF Shaped, Removing, At, Doomed
    <3>3. st.graph.pkgs = installed \ job[p].batch
        BY <1>1, <2>1 DEF Exact
    <3>4. q \in st.graph.pkgs /\ st.graph.pkgs \subseteq installed \ {old} /\ old \in installed
        BY <1>1, <2>3, <3>2, <3>3 DEF TakesOut
    <3>5. Owned({}) = {}
        BY DEF Owned
    <3> QED BY <1>1, <3>1, <3>4, <3>5, RemovalSpares
  <2> QED BY <1>1, <1>5, <2>2, <2>3, RemoveOneEffect
<1>6. ASSUME Copy(p) \/ PackageRemoved(p) \/ RegisterNew(p) \/ LoadRemoval(p) \/ Killed(p)
      PROVE  disk \subseteq disk'
    BY <1>1, <1>6, CopyEffect, PackageRemovedEffect, RegisterNewEffect, LoadRemovalEffect,
       KilledEffect
<1>7. \/ Stores(p) \/ Copy(p) \/ Replace(p) \/ PackageRemoved(p) \/ RegisterNew(p)
      \/ LoadRemoval(p) \/ Killed(p) \/ \E old \in Packages : RemoveOne(p, old)
    BY <1>1, StoringSteps DEF Step
<1> QED BY <1>2, <1>3, <1>4, <1>5, <1>6, <1>7

(* No step takes the last copy of a library that an installed package      *)
(* needs, and is not itself to remove, unless a removal without the lock   *)
(* ran beside another job or the graph counts on a preserved path that is  *)
(* owned again.                                                            *)
THEOREM NeededKept == Spec => NeededLibsKept
<1>1. IInv /\ [Next]_vars => [\A q \in Spared : overlap' \/ Miscounted \/ ~Loses(q)]_vars
  <2>1. ASSUME IInv, NEW p \in Procs, Step(p)
        PROVE  \A q \in Spared : overlap' \/ Miscounted \/ ~Loses(q)
      BY <2>1, NeededStep
  <2> QED BY <2>1, NextSteps
<1> QED BY <1>1, InvariantHolds, PTL DEF Spec, NeededLibsKept
=============================================================================
