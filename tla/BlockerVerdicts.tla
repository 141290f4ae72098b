--------------------------- MODULE BlockerVerdicts ---------------------------
(* What a plan does about blockers: who is hit (check_blockers_detailed in *)
(* portage-atom-pubgrub/src/validate.rs), which of the installed packages  *)
(* in the way can go (classify_blockers and removal_obstacles in           *)
(* portage-resolve/src/conflicts.rs), and when they go, if the run gets    *)
(* that far (planned_unmerges, partition_positioned_unmerges, emerge.rs).  *)
(*                                                                         *)
(* A package is a name and a slot.  The merge loops are reduced to the     *)
(* order they keep: strong victims before the first owner, weak ones after *)
(* the last (MergeSequential, MergeScheduler).                             *)
EXTENDS Integers, Sequences, FiniteSets

CONSTANTS
    Keys,              \* packages: records of a name and a slot
    AnySlot,           \* the slot of an atom that names none
    Requests           \* records: what is installed, what the solver chose, what
                       \* of it is merged, what the installed need, the blockers

Names == {k.name : k \in Keys}
Atoms == [name : Names, slot : {k.slot : k \in Keys} \cup {AnySlot}]

(* A need is a sequence of alternatives.                                   *)
IsRequest(r) ==
    /\ r.installed \subseteq Keys /\ r.solution \subseteq Keys
    /\ r.planned \subseteq r.solution /\ r.solution \ r.planned \subseteq r.installed
    /\ \A k \in r.installed : \A d \in r.needs[k] : d \in Seq(Atoms) /\ d # <<>>
    /\ \A b \in r.blockers : /\ b.owner \in r.installed \cup r.solution
                             /\ b.atom \in Atoms /\ b.strong \in BOOLEAN

ASSUME BlockersAssumption ==
    /\ IsFiniteSet(Keys)
    /\ \A k \in Keys : k.slot # AnySlot
    /\ \A r \in Requests : IsRequest(r)

VARIABLES
    request,
    pc,                \* verdicts, refused, run or ended
    removed,           \* the candidates the simulation takes away
    world,             \* the packages on the system
    merged,            \* those this run merged
    failed             \* those that failed to build

vars == <<request, pc, removed, world, merged, failed>>

Matches(a, k) == a.name = k.name /\ a.slot \in {AnySlot, k.slot}

Retained == request.installed \ request.solution

-----------------------------------------------------------------------------
(* The hits.                                                               *)

Hits ==
    {h \in [blocker : request.blockers, victim : request.solution \cup Retained] :
        /\ h.blocker.owner \in request.solution \cup Retained
        /\ Matches(h.blocker.atom, h.victim)
        /\ h.blocker.strong \/ h.victim # h.blocker.owner}

(* A hit between two packages that stay as they are installed is no news.  *)
PreExisting(h) == h.blocker.owner \in Retained /\ h.victim \in Retained
Coexisting(h) == h.blocker.owner \in request.solution /\ h.victim \in request.solution

(* What would have to go: the installed one of the two.                    *)
Candidate(h) == IF h.victim \in Retained THEN h.victim ELSE h.blocker.owner

Actionable == {h \in Hits : ~PreExisting(h) /\ ~Coexisting(h)}

(* Slip: pre-existing pairs take part in the simulation.                   *)
CandidatesSlip == {Candidate(h) : h \in {g \in Hits : ~Coexisting(g)}}
Candidates == {Candidate(h) : h \in Actionable}

-----------------------------------------------------------------------------
(* The simulation of their removal.                                        *)

Present(gone) == request.planned \cup (request.installed \ gone)

Touched == {k.name : k \in removed}

(* An alternative on a name the simulation does not touch counts as held.  *)
Violated(need) ==
    \A i \in DOMAIN need :
        need[i].name \in Touched /\ \A k \in Present(removed) : ~Matches(need[i], k)

(* Slip: what a package that goes itself needs counts too.                 *)
ObstaclesSlip ==
    {need[1].name : need \in UNION {{d \in request.needs[k] : Violated(d)} :
        k \in request.installed \ request.planned}}

(* The names that a need of a package that stays lacks.                    *)
Obstacles ==
    {need[1].name : need \in UNION {{d \in request.needs[k] : Violated(d)} :
        k \in request.installed \ (request.planned \cup removed)}}

(* Of several slots of a name the round names whichever its hash set gives *)
(* first, and puts that one back.                                          *)
Round ==
    /\ pc = "verdicts" /\ Obstacles # {}
    /\ \E first \in [Touched -> removed] :
          /\ \A n \in Touched : first[n].name = n
          /\ removed' = removed \ {first[n] : n \in Obstacles}
    /\ UNCHANGED <<request, pc, world, merged, failed>>

-----------------------------------------------------------------------------
(* The verdicts, and the unmerges of the plan.                             *)

Victims == {Candidate(h) : h \in Actionable} \cap removed

HardConflict == \E h \in Hits : Coexisting(h) \/ (h \in Actionable /\ Candidate(h) \notin removed)

OwnHits(v) == {h \in Actionable : Candidate(h) = v}
Owners(v) == {h.blocker.owner : h \in OwnHits(v)}

(* One strong hit of several is enough (slip: all of them must be).        *)
StrongSlip(v) == \A h \in OwnHits(v) : h.blocker.strong
Strong(v) == \E h \in OwnHits(v) : h.blocker.strong

(* An unmerge has a place in the plan if all its owners have one.          *)
Positioned(v) == Owners(v) \subseteq request.planned

Refuse ==
    /\ pc = "verdicts" /\ Obstacles = {} /\ HardConflict
    /\ pc' = "refused"
    /\ UNCHANGED <<request, removed, world, merged, failed>>

(* Strong victims without a place go before anything is merged.            *)
Accept ==
    /\ pc = "verdicts" /\ Obstacles = {} /\ ~HardConflict
    /\ pc' = "run"
    /\ world' = world \ {v \in Victims : Strong(v) /\ ~Positioned(v)}
    /\ UNCHANGED <<request, removed, merged, failed>>

Unmerged(x) == {v \in Victims : Strong(v) /\ Positioned(v) /\ x \in Owners(v)}

Merge(x) ==
    /\ pc = "run" /\ x \in request.planned \ (merged \cup failed)
    /\ merged' = merged \cup {x}
    /\ world' = ((world \cup {x}) \ Unmerged(x))
                 \ {v \in Victims : /\ ~Strong(v) /\ Positioned(v)
                                    /\ failed = {} /\ Owners(v) \subseteq merged'}
    /\ UNCHANGED <<request, pc, removed, failed>>

(* A build fails after the strong unmerges before it; what is under way    *)
(* beside it still ends, and nothing is unmerged in between.               *)
Fail(x) ==
    /\ pc = "run" /\ x \in request.planned \ (merged \cup failed)
    /\ failed' = failed \cup {x}
    /\ world' = world \ Unmerged(x)
    /\ UNCHANGED <<request, pc, removed, merged>>

(* Weak victims without a place go at the end, whatever the loop returned, *)
(* if all their owners were merged.                                        *)
End ==
    /\ pc = "run" /\ (failed # {} \/ merged = request.planned)
    /\ pc' = "ended"
    /\ world' = world \ {v \in Victims : /\ ~Strong(v) /\ ~Positioned(v)
                                         /\ Owners(v) \subseteq merged}
    /\ UNCHANGED <<request, removed, merged, failed>>

-----------------------------------------------------------------------------
Init ==
    /\ request \in Requests
    /\ pc = "verdicts"
    /\ removed = Candidates
    /\ world = request.installed
    /\ merged = {} /\ failed = {}

Next ==
    \/ Round \/ Refuse \/ Accept \/ End
    \/ \E x \in Keys : Merge(x) \/ Fail(x)

Spec == Init /\ [][Next]_vars

-----------------------------------------------------------------------------
TypeOK ==
    /\ IsRequest(request)
    /\ pc \in {"verdicts", "refused", "run", "ended"}
    /\ removed \subseteq Retained
    /\ world \subseteq Keys /\ merged \subseteq request.planned
    /\ failed \subseteq request.planned \ merged

Held(need, present) == \E i \in DOMAIN need : \E k \in present : Matches(need[i], k)

(* Every alternative names something that is there or comes.               *)
Firm(need) ==
    \A i \in DOMAIN need : \E k \in request.installed \cup request.planned : Matches(need[i], k)

(* Whatever the verdicts let go, and whatever a run without a failure      *)
(* removed, what stays installed keeps what it needed.                     *)
NeedsKept ==
    pc \in {"run", "ended"} /\ failed = {} =>
        LET left == IF pc = "ended" THEN world ELSE Present(Victims)
        IN  \A k \in request.installed \ (request.planned \cup Victims) :
                \A d \in request.needs[k] : Firm(d) => Held(d, left)

(* A plan is refused only if two of its packages exclude each other or a   *)
(* package that is not in the way needs one that is.                       *)
RefusalJustified ==
    pc = "refused" =>
        \/ \E h \in Hits : Coexisting(h)
        \/ \E k \in request.installed \ (request.planned \cup Candidates) :
              \E d \in request.needs[k] :
                  ~Held(d, request.planned \cup (request.installed \ Candidates))

(* "A pair of mutually-dependent removable candidates resolves correctly,  *)
(* and a candidate that turns out needed can still anchor another"         *)
(* (removal_obstacles): in every state, after any number of rounds,        *)
(* whichever slot each put back, a candidate is back only for a need of    *)
(* another package that stays, itself put back or not, for a package of    *)
(* its name, which nothing would hold if all candidates went.              *)
PutBackClaimed ==
    \A v \in Candidates \ removed :
        \E k \in request.installed \ (request.planned \cup removed \cup {v}) :
            \E d \in request.needs[k] :
                /\ d[1].name = v.name
                /\ ~Held(d, request.planned \cup (request.installed \ Candidates))

(* A strong victim and a merged package that blocks it, or that it blocks, *)
(* are never on the system together.                                       *)
StrongNeverMeets ==
    \A h \in Actionable :
        h.blocker.strong /\ {h.victim, h.blocker.owner} \cap merged # {} =>
            Candidate(h) \notin world

-----------------------------------------------------------------------------
(* "owners always come from the same solve's `proposed` set that produced  *)
(* `plan`" (emerge.rs:867), so a run that fails nowhere merges all of them *)
(* and leaves no victim.                                                   *)
VictimsGone == pc = "ended" /\ failed = {} => Victims \cap world = {}
=============================================================================
