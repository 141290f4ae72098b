---------------------------- MODULE InstallOrder ----------------------------
(***************************************************************************)
(* From a solution to the plan of the merge loops: the walk over the       *)
(* strongly connected components (install_order_with_stats, order_cycle),  *)
(* the repair of what it left the wrong way round (repair_soft_inversions),*)
(* all in portage-atom-pubgrub/src/graph.rs, then what round/plan.rs and   *)
(* assemble.rs make of the order: packages that need no merge dropped,     *)
(* targets last, and the blockers of MergePlan.                            *)
(*                                                                         *)
(* A package is its place in the sorted list of keys.  An edge says that   *)
(* `from` depends on `to`; a pair <<d, c>> that d comes before c.          *)
(***************************************************************************)
EXTENDS Integers, Sequences, FiniteSets, Functions

CONSTANTS
    Nodes,             \* the packages of the solution, numbered in key order
    Requests           \* records: the edges of the solution's graph, the root
                       \* targets, and the packages that need merging

Classes == {"Depend", "Bdepend", "Rdepend", "Pdepend", "Idepend"}

IsRequest(r) ==
    /\ \A e \in r.edges : e \in [from : Nodes, to : Nodes, class : Classes]
    /\ r.roots \subseteq Nodes /\ r.needed \subseteq Nodes

ASSUME InstallOrderAssumption ==
    /\ Nodes \subseteq Nat /\ IsFiniteSet(Nodes)
    /\ \A r \in Requests : IsRequest(r)

VARIABLES
    request,           \* what is being ordered
    pc,                \* walk, hard, soft, sort or done
    order,             \* the order of the walk
    rest,              \* the packages of the component under way not yet in it
    before,            \* the pairs pass 2 holds to
    todo,              \* inverted pairs it has still to try
    out                \* the repaired order

vars == <<request, pc, order, rest, before, todo, out>>

Pairs(classes) == {<<e.to, e.from>> : e \in {f \in request.edges : f.class \in classes}}
Hard  == Pairs({"Depend", "Bdepend"})
Soft  == Pairs({"Rdepend"})
Tools == {e.to : e \in {f \in request.edges : f.class = "Bdepend"}}

(* A chain of pairs of E leads from x to y.                                *)
Reaches(E, x, y) ==
    \A S \in SUBSET Nodes :
        x \in S /\ (\A p \in E : p[1] \in S => p[2] \in S) => y \in S

Together(E, x, y) == Reaches(E, x, y) /\ Reaches(E, y, x)

Position(s, x) == CHOOSE i \in DOMAIN s : s[i] = x
Respects(s, p) == Position(s, p[1]) < Position(s, p[2])

Precedes(s, t) ==
    \E i \in DOMAIN s : s[i] < t[i] /\ \A j \in 1..(i - 1) : s[j] = t[j]

-----------------------------------------------------------------------------
(* Pass 1.                                                                 *)

Component(x) == {y \in Nodes : Together(Hard \cup Soft, x, y)}
Left == Nodes \ Range(order)

(* Packages of components whose predecessors are all placed.               *)
Ready == {x \in Left : LET C == Component(x)
                       IN \A p \in Hard \cup Soft : p[2] \in C => p[1] \notin Left \ C}

(* The component with the greatest package goes first.                     *)
StartComponent(x) ==
    /\ pc = "walk" /\ rest = {}
    /\ x \in Ready /\ \A y \in Ready : y <= x
    /\ rest' = Component(x)
    /\ UNCHANGED <<request, pc, order, before, todo, out>>

Flag(b) == IF b THEN 1 ELSE 0

(* order_cycle: indegrees count what is left of the component; a hard      *)
(* predecessor outside one's own hard cycle counts most.  Its slip does    *)
(* not single that one out.                                                *)
RankSlip(x) ==
    LET hard == {u \in rest : <<u, x>> \in Hard}
        all  == {u \in rest : <<u, x>> \in Hard \cup Soft}
    IN <<Cardinality(hard), Flag(Cardinality(all) > Cardinality(hard)), Cardinality(all), -x>>

Rank(x) ==
    LET hard == {u \in rest : <<u, x>> \in Hard}
        all  == {u \in rest : <<u, x>> \in Hard \cup Soft}
    IN <<Flag(\E u \in hard : ~Together(Hard, u, x)),
         Cardinality(hard), Flag(Cardinality(all) > Cardinality(hard)), Cardinality(all), -x>>

PickMember(x) ==
    /\ pc = "walk" /\ x \in rest
    /\ \A y \in rest \ {x} : Precedes(Rank(x), Rank(y))
    /\ order' = Append(order, x)
    /\ rest' = rest \ {x}
    /\ UNCHANGED <<request, pc, before, todo, out>>

-----------------------------------------------------------------------------
(* Pass 2.                                                                 *)

Inverted(E) == {p \in E : p[1] # p[2] /\ ~Respects(order, p)}

(* Everything pass 1 has right is locked, ... its slip: only hard pairs.   *)
LockedSlip == {p \in Hard : p[1] # p[2] /\ Respects(order, p)}

Locked == {p \in Hard \cup Soft : p[1] # p[2] /\ Respects(order, p)}

StartRepair ==
    /\ pc = "walk" /\ Left = {} /\ rest = {}
    /\ pc' = "hard"
    /\ before' = Locked
    /\ todo' = Inverted(Hard)
    /\ UNCHANGED <<request, order, rest, out>>

StartSoft ==
    /\ pc = "hard" /\ todo = {}
    /\ pc' = "soft"
    /\ todo' = Inverted(Soft)
    /\ UNCHANGED <<request, order, rest, before, out>>

(* ... then inverted pairs are tried one by one; among soft ones, those    *)
(* whose consumer is a build tool first.                                   *)
Turn(p) == <<Flag(pc = "soft" /\ p[2] \notin Tools),
             Position(order, p[2]), Position(order, p[1])>>

(* try_add refuses a pair that would close a cycle.  Slips: asks whether   *)
(* the dependency reaches the consumer; adds every pair.                   *)
ClosesCycleSlip(p) == p \notin before /\ Reaches(before, p[1], p[2])
AddedAnywaySlip(p) == FALSE

ClosesCycle(p) == Reaches(before, p[2], p[1])

Try(p) ==
    /\ pc \in {"hard", "soft"} /\ p \in todo
    /\ \A q \in todo \ {p} : Precedes(Turn(p), Turn(q))
    /\ todo' = todo \ {p}
    /\ UNCHANGED <<request, pc, order, rest, out>>

Promote(p) == Try(p) /\ ~ClosesCycle(p) /\ before' = before \cup {p}
Refuse(p)  == Try(p) /\ ClosesCycle(p) /\ UNCHANGED before

StartSort ==
    /\ pc = "soft" /\ todo = {}
    /\ pc' = "sort"
    /\ UNCHANGED <<request, order, rest, before, todo, out>>

Free(x) == x \in Nodes \ Range(out)
           /\ \A p \in before : p[2] = x => p[1] \in Range(out)

(* Kahn's sort, the pass-1 order deciding between free packages.           *)
Place(x) ==
    /\ pc = "sort" /\ Free(x)
    /\ \A y \in Nodes : Free(y) => Position(order, x) <= Position(order, y)
    /\ out' = Append(out, x)
    /\ UNCHANGED <<request, pc, order, rest, before, todo>>

(* A sort that stalls falls back to pass 1.                                *)
EndSort ==
    /\ pc = "sort" /\ \A x \in Nodes : ~Free(x)
    /\ pc' = "done"
    /\ out' = IF Range(out) = Nodes THEN out ELSE order
    /\ UNCHANGED <<request, order, rest, before, todo>>

-----------------------------------------------------------------------------
(* The plan: what needs merging, in this order but for the targets nothing *)
(* depends on, which go last.                                              *)
Moved == request.roots \ {e.to : e \in request.edges}

Earlier(x, y) ==
    /\ x \in request.needed /\ y \in request.needed
    /\ IF x \in Moved <=> y \in Moved THEN Respects(out, <<x, y>>) ELSE y \in Moved

(* What must be merged before a package of the plan may start, ...         *)
Blockers(x) == {d \in Nodes : <<d, x>> \in Hard \cup Soft /\ Earlier(d, x)}

(* ... and the build-time dependencies planned after their consumer.       *)
HardCycleEdges == {p \in Hard : Earlier(p[2], p[1])}

Done == pc = "done" /\ UNCHANGED vars

-----------------------------------------------------------------------------
Init ==
    /\ request \in Requests
    /\ pc = "walk"
    /\ order = <<>> /\ rest = {}
    /\ before = {} /\ todo = {}
    /\ out = <<>>

Next ==
    \/ \E x \in Nodes : StartComponent(x) \/ PickMember(x) \/ Place(x)
    \/ \E p \in todo : Promote(p) \/ Refuse(p)
    \/ StartRepair \/ StartSoft \/ StartSort \/ EndSort
    \/ Done

Spec == Init /\ [][Next]_vars

-----------------------------------------------------------------------------
(* No package is placed twice, and nothing unknown is.                     *)
TypeOK ==
    /\ IsRequest(request)
    /\ pc \in {"walk", "hard", "soft", "sort", "done"}
    /\ order \in Seq(Nodes) /\ IsInjective(order)
    /\ out \in Seq(Nodes) /\ IsInjective(out)
    /\ rest \subseteq Nodes
    /\ before \subseteq Nodes \X Nodes /\ todo \subseteq Nodes \X Nodes

(* assemble.rs reports as a cycle every build-time dependency that is      *)
(* planned too late: each of them is on one.                               *)
HardCyclesOnly == pc = "done" => \A p \in HardCycleEdges : Together(Hard, p[1], p[2])

(* No later pass turns a dependency round that the walk had right: in the  *)
(* plan it is a blocker.                                                   *)
NothingTurnedBack ==
    pc = "done" => \A p \in Hard \cup Soft :
        p[1] # p[2] /\ Respects(order, p) /\ {p[1], p[2]} \subseteq request.needed
            => p[1] \in Blockers(p[2])

(* Whatever stays inverted is held so by a chain of dependencies that are  *)
(* not: no further one could have been respected besides them.             *)
InversionsForced ==
    pc = "done" => \A p \in Hard \cup Soft :
        p[1] # p[2] /\ ~Respects(out, p) =>
            Reaches({q \in Hard \cup Soft : Respects(out, q)}, p[2], p[1])

(* The pairs pass 2 holds to close no cycle, so its sort never stalls and  *)
(* the fall-back to pass 1, which would give up its repairs, is not taken. *)
NeverStalls ==
    \A S \in (SUBSET Nodes) \ {{}} :
        \E x \in S : \A p \in before : p[2] = x => p[1] \notin S

(* A build tool is never left before its own runtime dependency to get the *)
(* runtime dependency of a package that is no tool right.                  *)
ToolsFirst ==
    pc = "done" => \A p \in Soft :
        p[2] \in Tools /\ p[1] # p[2] /\ ~Respects(out, p) =>
            Reaches({q \in before : Respects(order, q) \/ q \in Hard \/ q[2] \in Tools},
                    p[2], p[1])
=============================================================================
