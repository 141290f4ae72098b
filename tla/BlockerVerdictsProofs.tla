----------------------- MODULE BlockerVerdictsProofs -----------------------
(* What BlockerVerdicts keeps for every request, proved: for any packages, *)
(* needs and blockers, and whichever slots the rounds put back.            *)
EXTENDS BlockerVerdicts, TLAPS

-----------------------------------------------------------------------------
(* The invariant.                                                          *)

Decided == pc \in {"run", "ended"}

Untouched == ~Decided => world = request.installed /\ merged = {} /\ failed = {}

(* A package not in the way needs, beyond repair by the plan, one that is. *)
Needed ==
    \E k \in request.installed \ (request.planned \cup Candidates) :
        \E d \in request.needs[k] :
            ~Held(d, request.planned \cup (request.installed \ Candidates))

PutBackMeansNeed == removed \subseteq Candidates /\ (removed # Candidates => Needed)

AllCleared == Decided => Candidates \subseteq removed /\ Obstacles = {}

NothingElseGone == request.installed \ Candidates \subseteq world /\ merged \subseteq world

AllMerged == pc = "ended" /\ failed = {} => merged = request.planned

StrongOut ==
    Decided =>
        \A v \in Candidates :
            Strong(v) /\ (~Positioned(v) \/ Owners(v) \cap merged # {}) => v \notin world

IInv ==
    /\ TypeOK /\ Untouched /\ PutBackMeansNeed /\ AllCleared /\ NothingElseGone
    /\ AllMerged /\ StrongOut /\ PutBackClaimed /\ RefusalJustified

-----------------------------------------------------------------------------
(* What would have to go is installed and no part of the solution.         *)
LEMMA CandidateRetained == \A h \in Actionable : Candidate(h) \in Retained
<1>. SUFFICES ASSUME NEW h \in Actionable PROVE Candidate(h) \in Retained
  OBVIOUS
<1>1. h \in Hits /\ ~PreExisting(h) /\ ~Coexisting(h)
  BY DEF Actionable
<1>2. /\ h.victim \in request.solution \cup Retained
      /\ h.blocker.owner \in request.solution \cup Retained
  BY <1>1 DEF Hits
<1>3. CASE h.victim \in Retained
  BY <1>3 DEF Candidate
<1>4. CASE h.victim \notin Retained
  BY <1>1, <1>2, <1>4 DEF Candidate, Coexisting
<1>. QED
  BY <1>3, <1>4

LEMMA CandidatesRetained == Candidates \subseteq Retained
BY CandidateRetained DEF Candidates

(* The hits and all that follows from them are the request's.              *)
LEMMA SameRequest ==
    ASSUME request' = request
    PROVE  /\ Retained' = Retained /\ Actionable' = Actionable
           /\ Candidates' = Candidates
           /\ \A v : (Strong(v)' <=> Strong(v)) /\ Owners(v)' = Owners(v)
           /\ \A v : Positioned(v)' <=> Positioned(v)
           /\ Needed' <=> Needed
<1>1. Retained' = Retained
  BY DEF Retained
<1>2. Hits' = Hits
  BY <1>1 DEF Hits
<1>3. Actionable' = Actionable
  BY <1>1, <1>2 DEF Actionable, PreExisting, Coexisting
<1>4. \A h : Candidate(h)' = Candidate(h)
  BY <1>1 DEF Candidate
<1>5. Candidates' = Candidates
  BY <1>3, <1>4 DEF Candidates
<1>6. \A v : OwnHits(v)' = OwnHits(v)
  BY <1>3, <1>4 DEF OwnHits
<1>7. \A v : (Strong(v)' <=> Strong(v)) /\ Owners(v)' = Owners(v)
  BY <1>6 DEF Strong, Owners
<1>8. \A v : Positioned(v)' <=> Positioned(v)
  BY <1>7 DEF Positioned
<1>9. Needed' <=> Needed
  BY <1>5 DEF Needed
<1>. QED
  BY <1>1, <1>3, <1>5, <1>7, <1>8, <1>9

LEMMA SameRemoved ==
    ASSUME request' = request, removed' = removed
    PROVE  /\ Victims' = Victims /\ Obstacles' = Obstacles
           /\ PutBackClaimed' <=> PutBackClaimed
<1>1. Candidates' = Candidates
  BY SameRequest
<1>2. Victims = Candidates \cap removed
  BY DEF Victims, Candidates
<1>3. Victims' = Candidates' \cap removed'
  BY DEF Victims, Candidates
<1>4. Touched' = Touched /\ Present(removed)' = Present(removed)
  BY DEF Touched, Present
<1>5. \A d : Violated(d)' <=> Violated(d)
  BY <1>4 DEF Violated
<1>6. Obstacles' = Obstacles
  BY <1>5 DEF Obstacles
<1>7. PutBackClaimed' <=> PutBackClaimed
  BY <1>1 DEF PutBackClaimed
<1>. QED
  BY <1>1, <1>2, <1>3, <1>6, <1>7

(* Once a plan is accepted the victims are all that was in the way.        *)
LEMMA VictimsAreCandidates ==
    ASSUME PutBackMeansNeed, Candidates \subseteq removed
    PROVE  Victims = Candidates /\ Victims = removed
BY DEF PutBackMeansNeed, Victims, Candidates

(* A package of the plan is never a candidate.                             *)
LEMMA PlannedStays ==
    ASSUME IsRequest(request), NEW x \in request.planned
    PROVE  x \notin Candidates
BY CandidatesRetained DEF Retained, IsRequest

-----------------------------------------------------------------------------
LEMMA InitIInv == Init => IInv
<1>. SUFFICES ASSUME Init PROVE IInv
  OBVIOUS
<1>1. IsRequest(request)
  BY BlockersAssumption DEF Init
<1>2. TypeOK
  BY <1>1, CandidatesRetained DEF Init, TypeOK, IsRequest
<1>3. Untouched /\ PutBackMeansNeed /\ AllCleared /\ AllMerged /\ StrongOut /\ RefusalJustified
  BY DEF Init, Untouched, PutBackMeansNeed, AllCleared, AllMerged, StrongOut, RefusalJustified, Decided
<1>4. NothingElseGone
  BY DEF Init, NothingElseGone
<1>5. PutBackClaimed
  BY DEF Init, PutBackClaimed
<1>. QED
  BY <1>2, <1>3, <1>4, <1>5 DEF IInv

(* A round puts back only when something stays that needs what would go.   *)
LEMMA RoundKeeps == IInv /\ Round => IInv'
<1>. SUFFICES ASSUME IInv, Round PROVE IInv'
  OBVIOUS
<1>1. /\ request' = request /\ pc' = pc /\ pc = "verdicts" /\ world' = world
      /\ merged' = merged /\ failed' = failed /\ removed' \subseteq removed
  BY DEF Round
<1>. /\ Candidates' = Candidates /\ Retained' = Retained /\ (Needed' <=> Needed)
     /\ \A v : (Strong(v)' <=> Strong(v)) /\ Owners(v)' = Owners(v)
  BY <1>1, SameRequest
<1>2. TypeOK'
  BY <1>1 DEF IInv, TypeOK, IsRequest
<1>3. removed = Candidates => Needed
  <2>. SUFFICES ASSUME removed = Candidates PROVE Needed
    OBVIOUS
  <2>1. PICK k \in request.installed \ (request.planned \cup removed) :
            \E d \in request.needs[k] : Violated(d)
    BY DEF Round, Obstacles
  <2>2. PICK d \in request.needs[k] : Violated(d)
    BY <2>1
  <2>3. ~Held(d, request.planned \cup (request.installed \ Candidates))
    BY <2>2 DEF Violated, Held, Present
  <2>. QED
    BY <2>1, <2>2, <2>3 DEF Needed
<1>4. PutBackMeansNeed'
  BY <1>1, <1>3 DEF IInv, PutBackMeansNeed
<1>5. Untouched' /\ AllCleared' /\ NothingElseGone' /\ AllMerged' /\ StrongOut' /\ RefusalJustified'
  BY <1>1 DEF IInv, Untouched, AllCleared, NothingElseGone, AllMerged, StrongOut,
              RefusalJustified, Decided
<1>6. PutBackClaimed'
  <2>. SUFFICES ASSUME NEW v \in Candidates \ removed'
                PROVE  \E k \in request.installed \ (request.planned \cup removed' \cup {v}) :
                          \E d \in request.needs[k] :
                             /\ d[1].name = v.name
                             /\ ~Held(d, request.planned \cup (request.installed \ Candidates))
    BY <1>1 DEF PutBackClaimed
  <2>1. CASE v \notin removed
    BY <1>1, <2>1 DEF IInv, PutBackClaimed
  <2>2. CASE v \in removed
    <3>1. PICK first \in [Touched -> removed] :
              /\ \A n \in Touched : first[n].name = n
              /\ removed' = removed \ {first[n] : n \in Obstacles}
      BY DEF Round
    <3>2. PICK n \in Obstacles : v = first[n]
      BY <2>2, <3>1
    <3>3. PICK k \in request.installed \ (request.planned \cup removed) :
              \E d \in request.needs[k] : Violated(d) /\ d[1].name = n
      BY <3>2 DEF Obstacles
    <3>4. PICK d \in request.needs[k] : Violated(d) /\ d[1].name = n
      BY <3>3
    <3>5. 1 \in DOMAIN d
      <4>1. d \in Seq(Atoms) /\ d # <<>>
        BY <3>3, <3>4 DEF IInv, TypeOK, IsRequest
      <4>. QED
        BY <4>1
    <3>6. v.name = d[1].name
      BY <3>1, <3>2, <3>4, <3>5 DEF Violated
    <3>7. removed \subseteq Candidates
      BY DEF IInv, PutBackMeansNeed
    <3>8. ~Held(d, request.planned \cup (request.installed \ Candidates))
      BY <3>4, <3>7 DEF Violated, Held, Present
    <3>. QED
      BY <1>1, <2>2, <3>3, <3>4, <3>6, <3>8
  <2>. QED
    BY <2>1, <2>2
<1>. QED
  BY <1>2, <1>4, <1>5, <1>6 DEF IInv

(* A refusal follows from a conflict of the plan or from a package put     *)
(* back.                                                                   *)
LEMMA RefuseKeeps == IInv /\ Refuse => IInv'
<1>. SUFFICES ASSUME IInv, Refuse PROVE IInv'
  OBVIOUS
<1>1. /\ request' = request /\ pc' = "refused" /\ pc = "verdicts" /\ world' = world
      /\ merged' = merged /\ failed' = failed /\ removed' = removed
  BY DEF Refuse
<1>. /\ Candidates' = Candidates /\ Retained' = Retained /\ (Needed' <=> Needed)
     /\ \A v : (Strong(v)' <=> Strong(v)) /\ Owners(v)' = Owners(v)
  BY <1>1, SameRequest
<1>2. TypeOK'
  BY <1>1 DEF IInv, TypeOK, IsRequest
<1>3. (\E h \in Hits : Coexisting(h)) \/ Needed
  <2>1. PICK h \in Hits : Coexisting(h) \/ (h \in Actionable /\ Candidate(h) \notin removed)
    BY DEF Refuse, HardConflict
  <2>2. ASSUME h \in Actionable, Candidate(h) \notin removed PROVE removed # Candidates
    BY <2>2 DEF Candidates
  <2>. QED
    BY <2>1, <2>2 DEF IInv, PutBackMeansNeed
<1>4. RefusalJustified'
  <2>1. Hits' = Hits /\ \A h : Coexisting(h)' <=> Coexisting(h)
    BY <1>1 DEF Hits, Coexisting, Retained
  <2>2. (\E h \in Hits' : Coexisting(h)') \/ Needed'
    BY <1>3, <2>1
  <2>. QED
    BY <2>2 DEF RefusalJustified, Needed
<1>5. /\ Untouched' /\ PutBackMeansNeed' /\ AllCleared' /\ NothingElseGone' /\ AllMerged'
      /\ StrongOut'
  BY <1>1 DEF IInv, Untouched, PutBackMeansNeed, AllCleared, NothingElseGone, AllMerged,
              StrongOut, Decided
<1>6. PutBackClaimed'
  BY <1>1, SameRemoved DEF IInv
<1>. QED
  BY <1>2, <1>4, <1>5, <1>6 DEF IInv

LEMMA AcceptKeeps == IInv /\ Accept => IInv'
<1>. SUFFICES ASSUME IInv, Accept PROVE IInv'
  OBVIOUS
<1>1. /\ request' = request /\ pc' = "run" /\ pc = "verdicts"
      /\ merged' = merged /\ failed' = failed /\ removed' = removed
      /\ world' = world \ {v \in Victims : Strong(v) /\ ~Positioned(v)}
  BY DEF Accept
<1>. /\ Candidates' = Candidates /\ Retained' = Retained /\ (Needed' <=> Needed)
     /\ \A v : (Strong(v)' <=> Strong(v)) /\ Owners(v)' = Owners(v)
     /\ \A v : Positioned(v)' <=> Positioned(v)
  BY <1>1, SameRequest
<1>2. world = request.installed /\ merged = {} /\ failed = {}
  BY <1>1 DEF IInv, Untouched, Decided
<1>3. Candidates \subseteq removed
  BY DEF Accept, HardConflict, Actionable, Candidates
<1>4. Victims = Candidates
  BY <1>3, VictimsAreCandidates DEF IInv
<1>5. TypeOK'
  BY <1>1 DEF IInv, TypeOK, IsRequest
<1>6. AllCleared'
  <2>1. Obstacles' = Obstacles
    BY <1>1, SameRemoved
  <2>. QED
    BY <1>1, <1>3, <2>1 DEF Accept, AllCleared
<1>7. NothingElseGone'
  BY <1>1, <1>2, <1>4 DEF NothingElseGone
<1>8. StrongOut'
  BY <1>1, <1>2, <1>4 DEF StrongOut
<1>9. PutBackClaimed'
  BY <1>1, SameRemoved DEF IInv
<1>10. Untouched' /\ PutBackMeansNeed' /\ AllMerged' /\ RefusalJustified'
  BY <1>1 DEF IInv, Untouched, PutBackMeansNeed, AllMerged, RefusalJustified, Decided
<1>. QED
  BY <1>5, <1>6, <1>7, <1>8, <1>9, <1>10 DEF IInv

-----------------------------------------------------------------------------
(* What a step of the run may take from the system.                        *)
LEMMA RunKeeps ==
    ASSUME IInv, pc = "run", pc' \in {"run", "ended"},
           request' = request, removed' = removed,
           merged \subseteq merged', merged' \subseteq request.planned,
           failed' \subseteq request.planned \ merged',
           NEW gone, gone \subseteq Victims, world' = (world \cup merged') \ gone,
           pc' = "ended" /\ failed' = {} => merged' = request.planned,
           \A v \in Victims :
              Strong(v) /\ Positioned(v) /\ Owners(v) \cap (merged' \ merged) # {} => v \in gone
    PROVE  IInv'
<1>. /\ Candidates' = Candidates /\ Retained' = Retained /\ (Needed' <=> Needed)
     /\ \A v : (Strong(v)' <=> Strong(v)) /\ Owners(v)' = Owners(v)
     /\ \A v : Positioned(v)' <=> Positioned(v)
  BY SameRequest
<1>1. Candidates \subseteq removed /\ Obstacles = {}
  BY DEF IInv, AllCleared, Decided
<1>2. Victims = Candidates
  BY <1>1, VictimsAreCandidates DEF IInv
<1>3. merged' \cap Candidates = {}
  BY PlannedStays DEF IInv, TypeOK
<1>4. TypeOK'
  BY DEF IInv, TypeOK, IsRequest
<1>5. AllCleared'
  BY <1>1, SameRemoved DEF AllCleared
<1>6. NothingElseGone'
  BY <1>2, <1>3 DEF IInv, NothingElseGone
<1>7. StrongOut'
  <2>. SUFFICES ASSUME NEW v \in Candidates, Strong(v),
                       ~Positioned(v) \/ Owners(v) \cap merged' # {}
                PROVE  v \notin world'
    BY DEF StrongOut
  <2>1. CASE ~Positioned(v) \/ Owners(v) \cap merged # {}
    <3>1. v \notin world
      BY <2>1 DEF IInv, StrongOut, Decided
    <3>. QED
      BY <3>1, <1>3
  <2>2. CASE Positioned(v) /\ Owners(v) \cap merged = {}
    <3>1. Owners(v) \cap (merged' \ merged) # {}
      BY <2>2
    <3>2. v \in gone
      BY <3>1, <2>2, <1>2
    <3>. QED
      BY <3>2
  <2>. QED
    BY <2>1, <2>2
<1>8. PutBackClaimed'
  BY SameRemoved DEF IInv
<1>9. Untouched' /\ PutBackMeansNeed' /\ AllMerged' /\ RefusalJustified'
  BY DEF IInv, Untouched, PutBackMeansNeed, AllMerged, RefusalJustified, Decided
<1>. QED
  BY <1>4, <1>5, <1>6, <1>7, <1>8, <1>9 DEF IInv

LEMMA MergeKeeps == \A x : IInv /\ Merge(x) => IInv'
<1>. SUFFICES ASSUME NEW x, IInv, Merge(x) PROVE IInv'
  OBVIOUS
<1>. DEFINE weak == {v \in Victims : /\ ~Strong(v) /\ Positioned(v)
                                     /\ failed = {} /\ Owners(v) \subseteq merged'}
            gone == Unmerged(x) \cup weak
<1>1. /\ pc = "run" /\ pc' = pc /\ request' = request /\ removed' = removed
      /\ x \in request.planned \ (merged \cup failed) /\ merged' = merged \cup {x}
      /\ failed' = failed /\ world' = ((world \cup {x}) \ Unmerged(x)) \ weak
  BY DEF Merge
<1>2. /\ gone \subseteq Victims
      /\ \A v \in Victims : Strong(v) /\ Positioned(v) /\ x \in Owners(v) => v \in gone
  BY DEF Unmerged
<1>3. merged \subseteq world /\ merged \subseteq request.planned /\ failed \subseteq request.planned \ merged
  BY DEF IInv, NothingElseGone, TypeOK
<1>4. world' = (world \cup merged') \ gone
  BY <1>1, <1>3
<1>5. /\ merged \subseteq merged' /\ merged' \subseteq request.planned
      /\ failed' \subseteq request.planned \ merged' /\ merged' \ merged \subseteq {x}
  BY <1>1, <1>3
<1>. HIDE DEF gone, weak
<1>6. \A v \in Victims :
          Strong(v) /\ Positioned(v) /\ Owners(v) \cap (merged' \ merged) # {} => v \in gone
  BY <1>2, <1>5
<1>. QED
  BY <1>1, <1>2, <1>4, <1>5, <1>6, RunKeeps

LEMMA FailKeeps == \A x : IInv /\ Fail(x) => IInv'
<1>. SUFFICES ASSUME NEW x, IInv, Fail(x) PROVE IInv'
  OBVIOUS
<1>1. /\ pc = "run" /\ pc' = pc /\ request' = request /\ removed' = removed
      /\ x \in request.planned \ (merged \cup failed) /\ merged' = merged
      /\ failed' = failed \cup {x} /\ world' = world \ Unmerged(x)
  BY DEF Fail
<1>2. merged \subseteq world /\ merged \subseteq request.planned /\ failed \subseteq request.planned \ merged
  BY DEF IInv, NothingElseGone, TypeOK
<1>3. Unmerged(x) \subseteq Victims
  BY DEF Unmerged
<1>4. world' = (world \cup merged') \ Unmerged(x)
  BY <1>1, <1>2
<1>5. /\ merged \subseteq merged' /\ merged' \subseteq request.planned
      /\ failed' \subseteq request.planned \ merged' /\ merged' \ merged = {}
  BY <1>1, <1>2
<1>. QED
  BY <1>1, <1>3, <1>4, <1>5, RunKeeps

LEMMA EndKeeps == IInv /\ End => IInv'
<1>. SUFFICES ASSUME IInv, End PROVE IInv'
  OBVIOUS
<1>. DEFINE gone == {v \in Victims : /\ ~Strong(v) /\ ~Positioned(v) /\ Owners(v) \subseteq merged}
<1>1. /\ pc = "run" /\ pc' = "ended" /\ request' = request /\ removed' = removed
      /\ failed # {} \/ merged = request.planned
      /\ merged' = merged /\ failed' = failed /\ world' = world \ gone
  BY DEF End
<1>2. merged \subseteq world /\ merged \subseteq request.planned /\ failed \subseteq request.planned \ merged
  BY DEF IInv, NothingElseGone, TypeOK
<1>3. gone \subseteq Victims
  OBVIOUS
<1>. HIDE DEF gone
<1>4. world' = (world \cup merged') \ gone
  BY <1>1, <1>2
<1>5. /\ merged \subseteq merged' /\ merged' \subseteq request.planned
      /\ failed' \subseteq request.planned \ merged' /\ merged' \ merged = {}
  BY <1>1, <1>2
<1>. QED
  BY <1>1, <1>3, <1>4, <1>5, RunKeeps

LEMMA StutterKeeps == IInv /\ UNCHANGED vars => IInv'
<1>. SUFFICES ASSUME IInv, UNCHANGED vars PROVE IInv'
  OBVIOUS
<1>1. /\ request' = request /\ pc' = pc /\ world' = world
      /\ merged' = merged /\ failed' = failed /\ removed' = removed
  BY DEF vars
<1>. /\ Candidates' = Candidates /\ Retained' = Retained /\ (Needed' <=> Needed)
     /\ \A v : (Strong(v)' <=> Strong(v)) /\ Owners(v)' = Owners(v)
     /\ \A v : Positioned(v)' <=> Positioned(v)
  BY <1>1, SameRequest
<1>2. Obstacles' = Obstacles
  BY <1>1, SameRemoved
<1>3. TypeOK'
  BY <1>1 DEF IInv, TypeOK, IsRequest
<1>4. RefusalJustified'
  BY <1>1 DEF IInv, RefusalJustified, Hits, Coexisting, Retained, Needed
<1>5. /\ Untouched' /\ PutBackMeansNeed' /\ AllCleared' /\ NothingElseGone' /\ AllMerged'
      /\ StrongOut'
  BY <1>1, <1>2 DEF IInv, Untouched, PutBackMeansNeed, AllCleared, NothingElseGone, AllMerged,
                    StrongOut, Decided
<1>6. PutBackClaimed'
  BY <1>1, SameRemoved DEF IInv
<1>. QED
  BY <1>3, <1>4, <1>5, <1>6 DEF IInv

LEMMA Inductive == Spec => []IInv
<1>1. IInv /\ [Next]_vars => IInv'
  BY RoundKeeps, RefuseKeeps, AcceptKeeps, MergeKeeps, FailKeeps, EndKeeps, StutterKeeps DEF Next
<1>. QED
  BY InitIInv, <1>1, PTL DEF Spec

-----------------------------------------------------------------------------
(* For every request the verdicts, the run and the system keep their types; *)
(* only installed packages outside the solution are ever to be removed.    *)
THEOREM VerdictTypes == Spec => []TypeOK
<1>1. IInv => TypeOK
  BY DEF IInv
<1>. QED
  BY <1>1, Inductive, PTL

(* Whatever blocks what, a plan is refused only for two packages of it that *)
(* exclude each other or for a need nothing else holds.                    *)
THEOREM RefusedForAReason == Spec => []RefusalJustified
<1>1. IInv => RefusalJustified
  BY DEF IInv
<1>. QED
  BY <1>1, Inductive, PTL

(* Whichever slots the rounds put back, none comes back but for another    *)
(* package that stays and that needs one of its name.                      *)
THEOREM PutBackForAReason == Spec => []PutBackClaimed
<1>1. IInv => PutBackClaimed
  BY DEF IInv
<1>. QED
  BY <1>1, Inductive, PTL

(* No merged package is ever on the system with a strong victim of its     *)
(* own, or with an installed package that strongly blocks it.              *)
THEOREM StrongBlocksHold == Spec => []StrongNeverMeets
<1>1. ASSUME IInv PROVE StrongNeverMeets
  <2>. SUFFICES ASSUME NEW h \in Actionable, h.blocker.strong,
                       {h.victim, h.blocker.owner} \cap merged # {}
                PROVE  Candidate(h) \notin world
    BY DEF StrongNeverMeets
  <2>. DEFINE v == Candidate(h)
  <2>1. v \in Candidates /\ v \in Retained
    BY CandidateRetained DEF Candidates
  <2>2. h \in OwnHits(v)
    BY DEF OwnHits
  <2>3. Strong(v) /\ h.blocker.owner \in Owners(v)
    BY <2>2 DEF Strong, Owners
  <2>4. Decided
    BY <1>1 DEF IInv, Untouched
  <2>5. CASE h.blocker.owner \in merged
    <3>1. Owners(v) \cap merged # {}
      BY <2>3, <2>5
    <3>. QED
      BY <1>1, <2>1, <2>3, <2>4, <3>1 DEF IInv, StrongOut
  <2>6. CASE h.victim \in merged
    <3>1. h.victim \in request.solution
      BY <1>1, <2>6 DEF IInv, TypeOK, IsRequest
    <3>2. h.blocker.owner \in Retained
      BY <2>1, <3>1 DEF Candidate, Retained
    <3>3. ~Positioned(v)
      BY <1>1, <2>3, <3>2 DEF Positioned, Retained, IInv, TypeOK, IsRequest
    <3>. QED
      BY <1>1, <2>1, <2>3, <2>4, <3>3 DEF IInv, StrongOut
  <2>. QED
    BY <2>5, <2>6
<1>2. IInv => StrongNeverMeets
  BY <1>1
<1>. QED
  BY <1>2, Inductive, PTL

(* An accepted plan, and a run of it that fails nowhere, take from no      *)
(* package that stays what it needed.                                      *)
THEOREM NobodyIsRobbed == Spec => []NeedsKept
<1>1. ASSUME IInv PROVE NeedsKept
  <2>. SUFFICES ASSUME Decided, failed = {},
                       NEW k \in request.installed \ (request.planned \cup Victims),
                       NEW d \in request.needs[k], Firm(d)
                PROVE  Held(d, IF pc = "ended" THEN world ELSE Present(Victims))
    BY DEF NeedsKept, Decided
  <2>1. Candidates \subseteq removed /\ Obstacles = {}
    BY <1>1 DEF IInv, AllCleared
  <2>2. Victims = Candidates /\ Victims = removed
    BY <1>1, <2>1, VictimsAreCandidates DEF IInv
  <2>3. ~Violated(d)
    BY <2>1, <2>2 DEF Obstacles
  <2>4. PICK i \in DOMAIN d :
            d[i].name \notin Touched \/ \E p \in Present(removed) : Matches(d[i], p)
    BY <2>3 DEF Violated
  <2>5. Held(d, Present(removed))
    <3>1. CASE \E p \in Present(removed) : Matches(d[i], p)
      BY <3>1 DEF Held
    <3>2. CASE d[i].name \notin Touched
      <4>1. PICK p \in request.installed \cup request.planned : Matches(d[i], p)
        BY DEF Firm
      <4>2. p \notin removed
        BY <3>2, <4>1 DEF Matches, Touched
      <4>. QED
        BY <4>1, <4>2 DEF Held, Present
    <3>. QED
      BY <2>4, <3>1, <3>2
  <2>6. ASSUME pc = "ended" PROVE Present(removed) \subseteq world
    BY <1>1, <2>2, <2>6 DEF IInv, NothingElseGone, AllMerged, Present
  <2>7. CASE pc = "ended"
    BY <2>5, <2>6, <2>7 DEF Held
  <2>8. CASE pc # "ended"
    BY <2>2, <2>5, <2>8
  <2>. QED
    BY <2>7, <2>8
<1>2. IInv => NeedsKept
  BY <1>1
<1>. QED
  BY <1>2, Inductive, PTL
=============================================================================
