------------------------------ MODULE MergePlan ------------------------------
(***************************************************************************)
(* The plan both merge loops of portage-cli/src/merge/mod.rs walk:         *)
(* entries 0 .. entries-1 in install order, the build-dependency blockers  *)
(* of each entry, and the unmerges PMS 8.3.2 blockers schedule at the      *)
(* position of the entries that trigger them (their owners).               *)
(*                                                                         *)
(* A request is what `MergePlanRequest` carries, reduced to what the loops *)
(* branch on:                                                              *)
(*   entries    number of plan entries                                     *)
(*   unmerges   number of positioned unmerges                              *)
(*   blockers   entry -> the entries that must finish before it starts     *)
(*   order      unmerge node -> "BeforeBlocker" (`!!`) / "AfterBlocker"    *)
(*   owners     unmerge node -> the entries whose blocker triggers it      *)
(*   work_key   entry -> the path of its work directory                    *)
(*   skippable  entries that are neither --emptytree nor a reinstall, so   *)
(*              that a VDB entry found when their turn comes skips them    *)
(*   keep_going --keep-going                                               *)
(***************************************************************************)
EXTENDS Integers, FiniteSets

CONSTANT Requests      \* the requests a run may be given

Entries(r)  == 0 .. (r.entries - 1)

(* An unmerge is the node plan.len() + k of the scheduler's node space.    *)
Unmerges(r) == r.entries .. (r.entries + r.unmerges - 1)

Nodes(r)    == 0 .. (r.entries + r.unmerges - 1)

Strong(r)   == {u \in Unmerges(r) : r.order[u] = "BeforeBlocker"}
Weak(r)     == {u \in Unmerges(r) : r.order[u] = "AfterBlocker"}

(* `build_blockers` only ever point at earlier entries (assemble keeps an  *)
(* edge iff to < from), and a positioned unmerge has located owners.       *)
WellFormed(r) ==
    /\ r.entries \in Nat
    /\ r.unmerges \in Nat
    /\ r.blockers \in [Entries(r) -> SUBSET Entries(r)]
    /\ \A i \in Entries(r) : \A j \in r.blockers[i] : j < i
    /\ r.order \in [Unmerges(r) -> {"BeforeBlocker", "AfterBlocker"}]
    /\ r.owners \in [Unmerges(r) -> (SUBSET Entries(r)) \ {{}}]
    /\ DOMAIN r.work_key = Entries(r)
    /\ r.skippable \subseteq Entries(r)
    /\ r.keep_going \in BOOLEAN

ASSUME RequestsAssumption == \A r \in Requests : WellFormed(r)

-----------------------------------------------------------------------------
(* Slips of extend_blockers_with_unmerges: the two edges swapped, ...      *)
ExtendedSwappedSlip(r) ==
    [i \in Nodes(r) |->
        IF i \in Entries(r)
        THEN r.blockers[i] \cup {u \in Weak(r) : i \in r.owners[u]}
        ELSE IF i \in Strong(r) THEN r.owners[i] ELSE {}]

(* ... and both edges given to a weak victim.                              *)
ExtendedBothSlip(r) ==
    [i \in Nodes(r) |->
        IF i \in Entries(r)
        THEN r.blockers[i] \cup {u \in Unmerges(r) : i \in r.owners[u]}
        ELSE IF i \in Weak(r) THEN r.owners[i] ELSE {}]

(* extend_blockers_with_unmerges: a strong victim blocks its owners, a     *)
(* weak victim is blocked on its owners.                                   *)
Extended(r) ==
    [i \in Nodes(r) |->
        IF i \in Entries(r)
        THEN r.blockers[i] \cup {u \in Strong(r) : i \in r.owners[u]}
        ELSE IF i \in Weak(r) THEN r.owners[i] ELSE {}]

(* splice_points: the entry a victim is removed right before (strong: its  *)
(* earliest owner) or right after (weak: its latest owner).                *)
Earliest(S) == CHOOSE x \in S : \A y \in S : x <= y
Latest(S)   == CHOOSE x \in S : \A y \in S : y <= x

(* Slip: the earliest owner for the weak victims too.                      *)
AfterUnmergesSlip(r, i) == {u \in Weak(r) : Earliest(r.owners[u]) = i}

BeforeUnmerges(r, i) == {u \in Strong(r) : Earliest(r.owners[u]) = i}
AfterUnmerges(r, i)  == {u \in Weak(r) : Latest(r.owners[u]) = i}
=============================================================================
