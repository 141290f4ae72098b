-------------------------- MODULE InstallOrderProofs --------------------------
(* For any finite set of packages and any graph between them: the order    *)
(* breaks build-time cycles only, the repair of the runtime ones takes     *)
(* back nothing, holds to no cycle and leaves nothing inverted for no      *)
(* reason.                                                                 *)
EXTENDS InstallOrder, FiniteSetTheorems, WellFoundedInduction, TLAPS

-----------------------------------------------------------------------------
(* Chains.                                                                 *)

LEMMA ReachesSelf == \A E, x : Reaches(E, x, x)
BY DEF Reaches

LEMMA ReachesTrans ==
    ASSUME NEW E, NEW x, NEW y, NEW z, Reaches(E, x, y), Reaches(E, y, z)
    PROVE  Reaches(E, x, z)
BY DEF Reaches

LEMMA ReachesStep ==
    ASSUME NEW E, NEW p \in E
    PROVE  Reaches(E, p[1], p[2])
BY DEF Reaches

LEMMA ReachesMore ==
    ASSUME NEW E, NEW F, E \subseteq F, NEW x, NEW y, Reaches(E, x, y)
    PROVE  Reaches(F, x, y)
BY DEF Reaches

(* What x reaches is closed under the pairs.                               *)
LEMMA ReachedClosed ==
    ASSUME NEW E, NEW x, NEW p \in E, Reaches(E, x, p[1])
    PROVE  Reaches(E, x, p[2])
BY ReachesStep, ReachesTrans

-----------------------------------------------------------------------------
(* Places in a sequence without repetitions.                               *)

LEMMA PositionOf ==
    ASSUME NEW s \in Seq(Nodes), NEW x \in Range(s)
    PROVE  Position(s, x) \in DOMAIN s /\ s[Position(s, x)] = x
<1>1. \E i \in DOMAIN s : s[i] = x
    BY DEF Range
<1> QED BY <1>1 DEF Position

LEMMA PositionNat ==
    ASSUME NEW s \in Seq(Nodes), NEW x \in Range(s)
    PROVE  Position(s, x) \in 1 .. Len(s)
BY PositionOf

LEMMA PositionUnique ==
    ASSUME NEW s \in Seq(Nodes), IsInjective(s), NEW i \in DOMAIN s
    PROVE  Position(s, s[i]) = i
<1>1. s[i] \in Range(s)
    BY DEF Range
<1> QED BY <1>1, PositionOf DEF IsInjective

LEMMA Appended ==
    ASSUME NEW s \in Seq(Nodes), IsInjective(s), NEW x \in Nodes \ Range(s)
    PROVE  /\ Append(s, x) \in Seq(Nodes)
           /\ IsInjective(Append(s, x))
           /\ Range(Append(s, x)) = Range(s) \cup {x}
           /\ Position(Append(s, x), x) = Len(s) + 1
           /\ \A y \in Range(s) : Position(Append(s, x), y) = Position(s, y)
<1> DEFINE t == Append(s, x)
<1>1. /\ t \in Seq(Nodes) /\ Len(t) = Len(s) + 1
      /\ DOMAIN t = 1 .. Len(s) + 1 /\ DOMAIN s = 1 .. Len(s) /\ Len(s) \in Nat
      /\ t[Len(s) + 1] = x /\ \A i \in DOMAIN s : t[i] = s[i]
    OBVIOUS
<1>2. \A i \in DOMAIN s : s[i] # x
    BY DEF Range
<1>3. IsInjective(t)
  <2> SUFFICES ASSUME NEW a \in DOMAIN t, NEW b \in DOMAIN t, t[a] = t[b]
               PROVE  a = b
      BY DEF IsInjective
  <2>1. CASE a \in DOMAIN s /\ b \in DOMAIN s
      BY <2>1, <1>1 DEF IsInjective
  <2>2. CASE a \notin DOMAIN s
    <3>1. a = Len(s) + 1
        BY <2>2, <1>1
    <3> QED BY <3>1, <1>1, <1>2
  <2>3. CASE b \notin DOMAIN s
    <3>1. b = Len(s) + 1
        BY <2>3, <1>1
    <3> QED BY <3>1, <1>1, <1>2
  <2> QED BY <2>1, <2>2, <2>3
<1>4. Range(t) = Range(s) \cup {x}
  <2>1. ASSUME NEW y \in Range(t) PROVE y \in Range(s) \cup {x}
    <3>1. PICK i \in DOMAIN t : t[i] = y
        BY DEF Range
    <3>2. i \in DOMAIN s \/ i = Len(s) + 1
        BY <1>1
    <3> QED BY <3>1, <3>2, <1>1 DEF Range
  <2>2. ASSUME NEW y \in Range(s) PROVE y \in Range(t)
    <3>1. PICK i \in DOMAIN s : s[i] = y
        BY DEF Range
    <3>2. i \in DOMAIN t /\ t[i] = y
        BY <3>1, <1>1
    <3> QED BY <3>2 DEF Range
  <2>3. x \in Range(t)
    <3>1. Len(s) + 1 \in DOMAIN t
        BY <1>1
    <3> QED BY <3>1, <1>1 DEF Range
  <2> QED BY <2>1, <2>2, <2>3
<1>5. Position(t, x) = Len(s) + 1
  <2>1. Len(s) + 1 \in DOMAIN t
      BY <1>1
  <2> QED BY <2>1, <1>1, <1>3, PositionUnique
<1>6. ASSUME NEW y \in Range(s) PROVE Position(t, y) = Position(s, y)
  <2>1. Position(s, y) \in DOMAIN s /\ s[Position(s, y)] = y
      BY PositionOf
  <2>2. Position(s, y) \in DOMAIN t /\ t[Position(s, y)] = y
      BY <2>1, <1>1
  <2> QED BY <2>2, <1>1, <1>3, PositionUnique
<1> QED BY <1>1, <1>3, <1>4, <1>5, <1>6

-----------------------------------------------------------------------------
(* Minima.                                                                 *)

LEMMA LeastExists ==
    ASSUME NEW S \in SUBSET Nat, S # {}
    PROVE  \E x \in S : \A y \in S : x <= y
<1>1. PICK x \in S : \A y \in S : ~(<<y, x>> \in OpToRel(<, Nat))
    BY NatLessThanWellFounded, WFMin
<1>2. ASSUME NEW y \in S PROVE x <= y
  <2>1. ~(y < x)
      BY <1>1 DEF OpToRel
  <2> QED BY <2>1
<1> QED BY <1>2

(* Comparing lists decides their first elements.                           *)
LEMMA FirstDecides ==
    ASSUME NEW s, NEW t, DOMAIN s \subseteq 1 .. 5, s[1] \in Int, t[1] \in Int, Precedes(s, t)
    PROVE  s[1] <= t[1]
<1>1. PICK i \in DOMAIN s : s[i] < t[i] /\ \A j \in 1 .. (i - 1) : s[j] = t[j]
    BY DEF Precedes
<1>2. CASE i = 1
    BY <1>1, <1>2
<1>3. CASE i # 1
  <2>1. 1 \in 1 .. (i - 1)
      BY <1>1, <1>3
  <2> QED BY <1>1, <2>1
<1> QED BY <1>2, <1>3

(* Build-time dependencies between build cycles are acyclic: some member   *)
(* of any set waits for no other member outside its own cycle.             *)
LEMMA NoCrossCycle ==
    ASSUME NEW H, NEW S \in SUBSET Nodes, S # {}
    PROVE  \E y \in S : \A u \in S : <<u, y>> \in H => Together(H, u, y)
<1> DEFINE above(y) == {z \in Nodes : Reaches(H, z, y)}
           sizes == {Cardinality(above(y)) : y \in S}
<1>1. \A y \in S : IsFiniteSet(above(y)) /\ Cardinality(above(y)) \in Nat
    BY InstallOrderAssumption, FS_Subset, FS_CardinalityType
<1>2. sizes \in SUBSET Nat /\ sizes # {}
    BY <1>1
<1>3. PICK m \in sizes : \A n \in sizes : m <= n
  <2> HIDE DEF sizes
  <2> QED BY <1>2, LeastExists
<1>4. PICK y \in S : Cardinality(above(y)) = m
    BY <1>3
<1>5. ASSUME NEW u \in S, <<u, y>> \in H, ~Together(H, u, y) PROVE FALSE
  <2>1. Reaches(H, u, y) /\ ~Reaches(H, y, u)
      BY <1>5, ReachesStep DEF Together
  <2>2. above(u) \subseteq above(y)
      BY <2>1, ReachesTrans
  <2>3. y \in above(y) /\ y \notin above(u)
      BY <2>1, ReachesSelf
  <2>4. Cardinality(above(u)) <= Cardinality(above(y)) /\ Cardinality(above(y)) # Cardinality(above(u))
    <3> HIDE DEF above
    <3> QED BY <1>1, <2>2, <2>3, FS_Subset
  <2>5. m <= Cardinality(above(u))
      BY <1>3
  <2> QED BY <1>1, <1>4, <2>4, <2>5
<1> QED BY <1>5

-----------------------------------------------------------------------------
(* The walk.                                                               *)

LEMMA PairTypes ==
    ASSUME TypeOK
    PROVE  /\ Hard \subseteq Nodes \X Nodes /\ Soft \subseteq Nodes \X Nodes
           /\ \A p \in Hard : \E e \in request.edges : e.to = p[1]
BY DEF TypeOK, IsRequest, Hard, Soft, Pairs

LEMMA ComponentWhole ==
    /\ \A x \in Nodes : x \in Component(x)
    /\ \A x \in Nodes : \A y \in Component(x) :
           x \in Component(y) /\ Component(y) \subseteq Component(x)
<1>1. \A x \in Nodes : x \in Component(x)
    BY ReachesSelf DEF Component, Together
<1>2. ASSUME NEW x \in Nodes, NEW y \in Component(x), NEW z \in Component(y)
      PROVE  x \in Component(y) /\ z \in Component(x)
    BY <1>2, ReachesTrans DEF Component, Together
<1>3. ASSUME NEW x \in Nodes, NEW y \in Component(x)
      PROVE  y \in Nodes /\ y \in Component(y)
    BY <1>1 DEF Component
<1> QED BY <1>1, <1>2, <1>3

(* Where the passes are.                                                   *)
Stages ==
    /\ pc = "walk" => before = {} /\ todo = {}
    /\ pc # "walk" => rest = {} /\ Range(order) = Nodes
    /\ pc \in {"walk", "hard", "soft"} => out = <<>>

(* Components are placed whole, after what they wait for; and a build-time *)
(* dependency on no build cycle is placed before its consumer.             *)
Walked ==
    /\ rest \cap Range(order) = {}
    /\ \A z \in rest \cup Range(order) : Component(z) \subseteq rest \cup Range(order)
    /\ \A p \in Hard \cup Soft : p[2] \in rest => p[1] \in rest \cup Range(order)
    /\ \A p \in Hard : p[2] \in Range(order) /\ ~Together(Hard, p[1], p[2]) =>
           p[1] \in Range(order) /\ Respects(order, p)

LEMMA StepStartComponent ==
    ASSUME TypeOK, Walked, Stages, NEW x \in Nodes, StartComponent(x)
    PROVE  TypeOK' /\ Walked' /\ Stages'
<1> DEFINE C == Component(x)
<1>1. /\ pc = "walk" /\ rest = {} /\ x \in Ready /\ rest' = C
      /\ request' = request /\ pc' = pc /\ order' = order /\ before' = before
      /\ todo' = todo /\ out' = out
    BY DEF StartComponent
<1>2. C \subseteq Nodes
    BY DEF Component
<1>3. TypeOK' /\ Stages'
    BY <1>1, <1>2 DEF TypeOK, Stages
<1>4. Hard' = Hard /\ Soft' = Soft /\ \A z : Component(z)' = Component(z)
    BY <1>1 DEF Hard, Soft, Pairs, Component
<1>5. C \cap Range(order) = {}
  <2> SUFFICES ASSUME NEW z \in C, z \in Range(order) PROVE FALSE
      OBVIOUS
  <2>1. x \in Component(z)
      BY ComponentWhole
  <2>2. x \in Range(order)
      BY <1>1, <2>1 DEF Walked
  <2> QED BY <1>1, <2>2 DEF Ready, Left
<1>6. \A z \in C : Component(z) \subseteq C
    BY ComponentWhole
<1>7. \A p \in Hard \cup Soft : p[2] \in C => p[1] \in C \cup Range(order)
  <2>1. \A p \in Hard \cup Soft : p[2] \in C => p[1] \notin Left \ C
      BY <1>1 DEF Ready
  <2> QED BY <2>1, PairTypes DEF Left
<1>8. Walked'
  <2>1. \A z \in rest' \cup Range(order') : Component(z)' \subseteq rest' \cup Range(order')
      BY <1>1, <1>4, <1>6 DEF Walked
  <2>2. \A p \in Hard' : p[2] \in Range(order') /\ ~Together(Hard', p[1], p[2]) =>
            p[1] \in Range(order') /\ Respects(order', p)
      BY <1>1, <1>4 DEF Walked
  <2> QED BY <1>1, <1>4, <1>5, <1>7, <2>1, <2>2 DEF Walked
<1> QED BY <1>3, <1>8

(* What is chosen waits for nothing in its component but its own cycle.    *)
LEMMA ChosenWaitsForCycle ==
    ASSUME TypeOK, NEW x \in Nodes, PickMember(x), NEW u \in rest, <<u, x>> \in Hard
    PROVE  Together(Hard, u, x)
<1> DEFINE cross(y) == \E v \in {w \in rest : <<w, y>> \in Hard} : ~Together(Hard, v, y)
<1>1. PICK y \in rest : ~cross(y)
  <2>1. rest \in SUBSET Nodes /\ rest # {}
      BY DEF TypeOK
  <2> QED BY <2>1, NoCrossCycle
<1>2. \A z \in rest : /\ DOMAIN Rank(z) = 1 .. 5
                      /\ Rank(z)[1] = Flag(cross(z)) /\ Rank(z)[1] \in Int
  <2>1. \A z \in rest : DOMAIN Rank(z) = 1 .. 5 /\ Rank(z)[1] = Flag(cross(z))
      BY DEF Rank
  <2> QED BY <2>1 DEF Flag
<1>3. x \in rest /\ \A z \in rest \ {x} : Precedes(Rank(x), Rank(z))
    BY DEF PickMember
<1>4. ~cross(x)
  <2>1. CASE y = x
      BY <1>1, <2>1
  <2>2. CASE y # x
    <3>1. Precedes(Rank(x), Rank(y))
        BY <1>3, <2>2
    <3>2. Rank(x)[1] <= Rank(y)[1]
        BY <1>2, <1>3, <3>1, FirstDecides
    <3>3. Flag(cross(x)) <= Flag(cross(y))
        BY <1>2, <1>3, <3>2
    <3> QED BY <1>1, <3>3 DEF Flag
  <2> QED BY <2>1, <2>2
<1> QED BY <1>4

LEMMA StepPickMember ==
    ASSUME TypeOK, Walked, Stages, NEW x \in Nodes, PickMember(x)
    PROVE  TypeOK' /\ Walked' /\ Stages'
<1>1. /\ pc = "walk" /\ x \in rest /\ order' = Append(order, x) /\ rest' = rest \ {x}
      /\ request' = request /\ pc' = pc /\ before' = before /\ todo' = todo /\ out' = out
    BY DEF PickMember
<1>2. x \in Nodes \ Range(order)
    BY <1>1 DEF Walked
<1>3. order \in Seq(Nodes) /\ IsInjective(order)
    BY DEF TypeOK
<1>4. /\ order' \in Seq(Nodes) /\ IsInjective(order') /\ Range(order') = Range(order) \cup {x}
      /\ Position(order', x) = Len(order) + 1
      /\ \A y \in Range(order) : Position(order', y) = Position(order, y)
    BY <1>1, <1>2, <1>3, Appended
<1>5. TypeOK' /\ Stages'
    BY <1>1, <1>4 DEF TypeOK, Stages
<1>6. Hard' = Hard /\ Soft' = Soft /\ \A z : Component(z)' = Component(z)
    BY <1>1 DEF Hard, Soft, Pairs, Component
<1>7. rest' \cup Range(order') = rest \cup Range(order) /\ rest' \cap Range(order') = {}
    BY <1>1, <1>4 DEF Walked
<1>8. ASSUME NEW p \in Hard, p[2] \in Range(order'), ~Together(Hard, p[1], p[2])
      PROVE  p[1] \in Range(order') /\ Respects(order', p)
  <2>1. CASE p[2] \in Range(order)
    <3>1. p[1] \in Range(order) /\ Respects(order, p)
        BY <1>8, <2>1 DEF Walked
    <3> QED BY <1>4, <2>1, <3>1 DEF Respects
  <2>2. CASE p[2] = x
    <3>1. p = <<p[1], x>>
        BY <2>2, PairTypes
    <3>2. p[1] \notin rest
        BY <1>8, <2>2, <3>1, ChosenWaitsForCycle
    <3>3. p[1] \in Range(order)
        BY <1>1, <2>2, <3>2 DEF Walked
    <3>4. Position(order, p[1]) <= Len(order) /\ Position(order, p[1]) \in Nat /\ Len(order) \in Nat
        BY <1>3, <3>3, PositionNat
    <3> QED BY <1>4, <2>2, <3>3, <3>4 DEF Respects
  <2> QED BY <1>4, <1>8, <2>1, <2>2
<1>9. Walked'
  <2>1. \A z \in rest' \cup Range(order') : Component(z)' \subseteq rest' \cup Range(order')
      BY <1>6, <1>7 DEF Walked
  <2>2. \A p \in Hard' \cup Soft' : p[2] \in rest' => p[1] \in rest' \cup Range(order')
      BY <1>1, <1>6, <1>7 DEF Walked
  <2> QED BY <1>6, <1>7, <1>8, <2>1, <2>2 DEF Walked
<1> QED BY <1>5, <1>9
-----------------------------------------------------------------------------
(* The repair.                                                             *)

Acyclic(E) ==
    \A S \in (SUBSET Nodes) \ {{}} : \E x \in S : \A p \in E : p[2] = x => p[1] \notin S

(* What a sequence respects is acyclic: the first of any set waits for     *)
(* none of it.                                                             *)
LEMMA RespectedAcyclic ==
    ASSUME NEW s \in Seq(Nodes), Range(s) = Nodes, NEW E, \A p \in E : Respects(s, p)
    PROVE  Acyclic(E)
<1> SUFFICES ASSUME NEW S \in (SUBSET Nodes) \ {{}}
             PROVE  \E x \in S : \A p \in E : p[2] = x => p[1] \notin S
    BY DEF Acyclic
<1> DEFINE places == {Position(s, x) : x \in S}
<1>1. \A x \in S : Position(s, x) \in Nat
    BY PositionNat
<1>2. places \in SUBSET Nat /\ places # {}
    BY <1>1
<1>3. PICK m \in places : \A n \in places : m <= n
  <2> HIDE DEF places
  <2> QED BY <1>2, LeastExists
<1>4. PICK x \in S : Position(s, x) = m
    BY <1>3
<1>5. ASSUME NEW p \in E, p[2] = x, p[1] \in S PROVE FALSE
  <2>1. Position(s, p[1]) < Position(s, x)
      BY <1>5 DEF Respects
  <2>2. m <= Position(s, p[1])
      BY <1>3, <1>5
  <2> QED BY <1>1, <1>4, <1>5, <2>1, <2>2
<1> QED BY <1>5

(* A pair whose consumer does not reach its dependency closes no cycle.    *)
LEMMA StaysAcyclic ==
    ASSUME NEW E, Acyclic(E), NEW p, ~Reaches(E, p[2], p[1])
    PROVE  Acyclic(E \cup {p})
<1> SUFFICES ASSUME NEW S \in (SUBSET Nodes) \ {{}}
             PROVE  \E x \in S : \A q \in E \cup {p} : q[2] = x => q[1] \notin S
    BY DEF Acyclic
<1> DEFINE reached == {z \in Nodes : Reaches(E, p[2], z)}
<1>1. p[1] \notin reached
    OBVIOUS
<1>2. CASE S \subseteq reached
  <2>1. PICK x \in S : \A q \in E : q[2] = x => q[1] \notin S
      BY DEF Acyclic
  <2> QED BY <1>1, <1>2, <2>1
<1>3. CASE ~(S \subseteq reached)
  <2>1. PICK x \in S \ reached : \A q \in E : q[2] = x => q[1] \notin S \ reached
      BY <1>3 DEF Acyclic
  <2>2. ASSUME NEW q \in E, q[2] = x PROVE q[1] \notin reached
    <3>1. x \in Nodes
        OBVIOUS
    <3>2. q[1] \in reached => Reaches(E, p[2], q[2])
        BY ReachedClosed
    <3> QED BY <2>1, <2>2, <3>1, <3>2
  <2>3. p[2] # x
      BY <2>1, ReachesSelf
  <2> QED BY <2>1, <2>2, <2>3
<1> QED BY <1>2, <1>3

(* Pass 2 holds to what pass 1 had right, and tries what it had not.       *)
Repaired ==
    /\ pc # "walk" => Locked \subseteq before
                      /\ before \subseteq {p \in Hard \cup Soft : p[1] # p[2]}
    /\ pc = "hard" => todo \subseteq Inverted(Hard)
    /\ pc = "soft" => todo \subseteq Inverted(Soft)

Settled(p) == p \in before \/ ClosesCycle(p)

Tried ==
    /\ pc # "walk" => \A p \in Inverted(Hard) : Settled(p) \/ (pc = "hard" /\ p \in todo)
    /\ pc \in {"soft", "sort", "done"} =>
           \A p \in Inverted(Soft) : Settled(p) \/ (pc = "soft" /\ p \in todo)

(* While a tool's pair is left to try, nothing is held to but what pass 1  *)
(* had right, build-time pairs and those of tools.                         *)
Early == {q \in before : Respects(order, q) \/ q \in Hard \/ q[2] \in Tools}

ToolsTried ==
    /\ pc = "hard" => before \subseteq Early
    /\ pc = "soft" /\ (\E q \in todo : q[2] \in Tools) => before \subseteq Early
    /\ pc \in {"soft", "sort", "done"} =>
           \A p \in Inverted(Soft) : p[2] \in Tools =>
               \/ p \in before \/ Reaches(Early, p[2], p[1])
               \/ pc = "soft" /\ p \in todo

(* The sort respects what is held to.                                      *)
Sorted ==
    /\ pc \in {"sort", "done"} =>
           \A p \in before : p[2] \in Range(out) => p[1] \in Range(out) /\ Respects(out, p)
    /\ pc = "done" => Range(out) = Nodes

RepairInv == Repaired /\ NeverStalls /\ Tried /\ ToolsTried /\ Sorted

IInv == TypeOK /\ Stages /\ Walked /\ RepairInv

LEMMA WalkKeepsRepair ==
    ASSUME Stages', pc' = "walk"
    PROVE  RepairInv'
<1>1. before' = {}
    BY DEF Stages
<1>2. NeverStalls'
    BY <1>1 DEF NeverStalls
<1> QED BY <1>2 DEF RepairInv, Repaired, Tried, ToolsTried, Sorted

LEMMA StepStartRepair == ASSUME IInv, StartRepair PROVE IInv'
<1>1. /\ pc = "walk" /\ Left = {} /\ rest = {} /\ pc' = "hard" /\ before' = Locked
      /\ todo' = Inverted(Hard) /\ request' = request /\ order' = order /\ rest' = rest
      /\ out' = out
    BY DEF StartRepair
<1>2. order \in Seq(Nodes) /\ Range(order) = Nodes
    BY <1>1 DEF IInv, TypeOK, Left, Range
<1>3. /\ Hard' = Hard /\ Soft' = Soft /\ Tools' = Tools /\ Locked' = Locked
      /\ Inverted(Hard)' = Inverted(Hard) /\ \A z : Component(z)' = Component(z)
    BY <1>1 DEF Hard, Soft, Pairs, Tools, Locked, Inverted, Component
<1>4. Locked \subseteq {p \in Hard \cup Soft : p[1] # p[2]} /\ \A p \in Locked : Respects(order, p)
    BY DEF Locked
<1>5. TypeOK'
  <2>1. Hard \subseteq Nodes \X Nodes /\ Soft \subseteq Nodes \X Nodes
      BY PairTypes DEF IInv
  <2> QED BY <1>1, <2>1 DEF IInv, TypeOK, Locked, Inverted
<1>6. Stages'
    BY <1>1, <1>2 DEF IInv, Stages
<1>7. Walked'
    BY <1>1, <1>3 DEF IInv, Walked
<1>8. Repaired'
    BY <1>1, <1>3, <1>4 DEF Repaired
<1>9. NeverStalls'
  <2>1. Acyclic(Locked)
      BY <1>2, <1>4, RespectedAcyclic
  <2> QED BY <1>1, <2>1 DEF NeverStalls, Acyclic
<1>10. Tried'
    BY <1>1, <1>3 DEF Tried
<1>11. ToolsTried'
    BY <1>1, <1>4 DEF ToolsTried, Early
<1>12. Sorted'
    BY <1>1 DEF Sorted
<1> QED BY <1>5, <1>6, <1>7, <1>8, <1>9, <1>10, <1>11, <1>12 DEF IInv, RepairInv

(* After the walk its order and the request stay as they are.              *)
LEMMA Frozen ==
    ASSUME request' = request, order' = order
    PROVE  /\ Hard' = Hard /\ Soft' = Soft /\ Tools' = Tools /\ Locked' = Locked
           /\ Inverted(Hard)' = Inverted(Hard) /\ Inverted(Soft)' = Inverted(Soft)
           /\ rest' = rest /\ Walked => Walked'
<1>1. Hard' = Hard /\ Soft' = Soft /\ Tools' = Tools
    BY DEF Hard, Soft, Pairs, Tools
<1>2. Locked' = Locked /\ Inverted(Hard)' = Inverted(Hard) /\ Inverted(Soft)' = Inverted(Soft)
    BY <1>1 DEF Locked, Inverted
<1>3. rest' = rest /\ Walked => Walked'
  <2>1. \A z : Component(z)' = Component(z)
      BY <1>1 DEF Component
  <2> QED BY <1>1, <2>1 DEF Walked
<1> QED BY <1>1, <1>2, <1>3

LEMMA StepStartSoft == ASSUME IInv, StartSoft PROVE IInv'
<1>1. /\ pc = "hard" /\ todo = {} /\ pc' = "soft" /\ todo' = Inverted(Soft)
      /\ request' = request /\ order' = order /\ rest' = rest /\ before' = before /\ out' = out
    BY DEF StartSoft
<1>2. /\ Hard' = Hard /\ Soft' = Soft /\ Tools' = Tools /\ Locked' = Locked
      /\ Inverted(Hard)' = Inverted(Hard) /\ Inverted(Soft)' = Inverted(Soft)
      /\ Walked'
    BY <1>1, Frozen DEF IInv
<1>3. TypeOK'
  <2>1. Soft \subseteq Nodes \X Nodes
      BY PairTypes DEF IInv
  <2> QED BY <1>1, <2>1 DEF IInv, TypeOK, Inverted
<1>4. Stages'
    BY <1>1 DEF IInv, Stages
<1>5. Repaired'
    BY <1>1, <1>2 DEF IInv, RepairInv, Repaired
<1>6. NeverStalls'
    BY <1>1 DEF IInv, RepairInv, NeverStalls
<1>7. Tried'
    BY <1>1, <1>2 DEF IInv, RepairInv, Tried, Settled, ClosesCycle
<1>8. ToolsTried'
  <2>1. before \subseteq Early /\ Early' = Early
      BY <1>1, <1>2 DEF IInv, RepairInv, ToolsTried, Early
  <2> QED BY <1>1, <1>2, <2>1 DEF ToolsTried
<1>9. Sorted'
    BY <1>1 DEF Sorted
<1> QED BY <1>2, <1>3, <1>4, <1>5, <1>6, <1>7, <1>8, <1>9 DEF IInv, RepairInv

(* The turn of a pair of a package that is no tool comes when no tool's is *)
(* left.                                                                   *)
LEMMA ToolsGoFirst ==
    ASSUME IInv, pc = "soft", NEW p \in todo, Try(p), p[2] \notin Tools, NEW q \in todo
    PROVE  q[2] \notin Tools
<1>1. CASE q = p
    BY <1>1
<1>2. CASE q # p
  <2>1. Precedes(Turn(p), Turn(q))
      BY <1>2 DEF Try
  <2>2. /\ DOMAIN Turn(p) = 1 .. 3
        /\ Turn(p)[1] = Flag(p[2] \notin Tools) /\ Turn(q)[1] = Flag(q[2] \notin Tools)
      BY DEF Turn
  <2>3. \A b \in BOOLEAN : Flag(b) \in Int
      BY DEF Flag
  <2>4. Flag(p[2] \notin Tools) <= Flag(q[2] \notin Tools)
    <3>1. DOMAIN Turn(p) \subseteq 1 .. 5
        BY <2>2
    <3> QED BY <2>1, <2>2, <2>3, <3>1, FirstDecides
  <2> QED BY <2>4 DEF Flag
<1> QED BY <1>1, <1>2

LEMMA StepTry ==
    ASSUME IInv, NEW p \in todo, Promote(p) \/ Refuse(p)
    PROVE  IInv'
<1>1. /\ pc \in {"hard", "soft"} /\ todo' = todo \ {p} /\ request' = request /\ pc' = pc
      /\ order' = order /\ rest' = rest /\ out' = out /\ Try(p)
    BY DEF Promote, Refuse, Try
<1>2. /\ Hard' = Hard /\ Soft' = Soft /\ Tools' = Tools /\ Locked' = Locked
      /\ Inverted(Hard)' = Inverted(Hard) /\ Inverted(Soft)' = Inverted(Soft)
      /\ Walked'
    BY <1>1, Frozen DEF IInv
<1>3. \/ before' = before \cup {p} /\ ~Reaches(before, p[2], p[1])
      \/ before' = before /\ Reaches(before, p[2], p[1])
    BY DEF Promote, Refuse, ClosesCycle
<1>4. before \subseteq before' /\ before' \subseteq before \cup {p}
    BY <1>3
<1>5. p \in Hard \cup Soft /\ p[1] # p[2] /\ (pc = "hard" => p \in Hard)
    BY <1>1 DEF IInv, RepairInv, Repaired, Inverted
<1>6. TypeOK'
  <2>1. p \in Nodes \X Nodes
      BY DEF IInv, TypeOK
  <2> QED BY <1>1, <1>4, <2>1 DEF IInv, TypeOK
<1>7. Stages'
    BY <1>1 DEF IInv, Stages
<1>8. Repaired'
    BY <1>1, <1>2, <1>4, <1>5 DEF IInv, RepairInv, Repaired
<1>9. NeverStalls'
  <2>1. Acyclic(before)
      BY DEF IInv, RepairInv, NeverStalls, Acyclic
  <2>2. Acyclic(before')
      BY <1>3, <2>1, StaysAcyclic
  <2> QED BY <2>2 DEF NeverStalls, Acyclic
<1>10. Tried'
  <2>1. \A q : Settled(q) => Settled(q)'
      BY <1>4, ReachesMore DEF Settled, ClosesCycle
  <2>2. Settled(p)'
      BY <1>3 DEF Settled, ClosesCycle
  <2> QED BY <1>1, <1>2, <2>1, <2>2 DEF IInv, RepairInv, Tried
<1>11. ToolsTried'
  <2>1. Early \subseteq Early'
      BY <1>1, <1>2, <1>4 DEF Early
  <2>2. pc = "hard" => before' \subseteq Early'
      BY <1>1, <1>2, <1>4, <1>5 DEF IInv, RepairInv, ToolsTried, Early
  <2>3. pc = "soft" /\ p[2] \in Tools => before \subseteq Early /\ before' \subseteq Early'
    <3>1. pc = "soft" /\ p[2] \in Tools => before \subseteq Early
        BY DEF IInv, RepairInv, ToolsTried
    <3> QED BY <1>1, <1>2, <1>4, <3>1 DEF Early
  <2>4. pc = "soft" /\ p[2] \notin Tools => \A q \in todo : q[2] \notin Tools
      BY <1>1, ToolsGoFirst
  <2>5. ASSUME pc = "soft", p[2] \in Tools
        PROVE  p \in before' \/ Reaches(Early', p[2], p[1])
    <3>1. CASE before' = before /\ Reaches(before, p[2], p[1])
      <4>1. before \subseteq Early'
          BY <2>1, <2>3, <2>5
      <4> QED BY <3>1, <4>1, ReachesMore
    <3> QED BY <1>3, <3>1
  <2>6. ASSUME pc = "soft", NEW q \in Inverted(Soft), q[2] \in Tools
        PROVE  q \in before' \/ Reaches(Early', q[2], q[1]) \/ q \in todo'
    <3>1. q \in before \/ Reaches(Early, q[2], q[1]) \/ q \in todo
        BY <2>6 DEF IInv, RepairInv, ToolsTried
    <3> QED BY <1>1, <1>4, <2>1, <2>5, <2>6, <3>1, ReachesMore
  <2> QED BY <1>1, <1>2, <2>2, <2>3, <2>4, <2>6 DEF ToolsTried
<1>12. Sorted'
    BY <1>1 DEF Sorted
<1> QED BY <1>2, <1>6, <1>7, <1>8, <1>9, <1>10, <1>11, <1>12 DEF IInv, RepairInv
-----------------------------------------------------------------------------
(* The sort.                                                               *)

(* Nothing but the sequence and the stage changes.                         *)
LEMMA SortKeeps ==
    ASSUME IInv, request' = request, order' = order, rest' = rest, before' = before,
           pc = "soft" => todo = {}, todo' = todo,
           <<pc, pc'>> \in {<<"soft", "sort">>, <<"sort", "sort">>, <<"sort", "done">>},
           out' \in Seq(Nodes), IsInjective(out')
    PROVE  TypeOK' /\ Stages' /\ Walked' /\ Repaired' /\ NeverStalls' /\ Tried' /\ ToolsTried'
<1>1. /\ Hard' = Hard /\ Soft' = Soft /\ Tools' = Tools /\ Locked' = Locked
      /\ Inverted(Hard)' = Inverted(Hard) /\ Inverted(Soft)' = Inverted(Soft)
      /\ Walked'
    BY Frozen DEF IInv
<1>2. TypeOK' /\ Stages'
    BY DEF IInv, TypeOK, Stages
<1>3. Repaired' /\ NeverStalls'
    BY <1>1 DEF IInv, RepairInv, Repaired, NeverStalls
<1>4. Tried'
    BY <1>1 DEF IInv, RepairInv, Tried, Settled, ClosesCycle
<1>5. ToolsTried'
  <2>1. Early' = Early
      BY <1>1 DEF Early
  <2> QED BY <1>1, <2>1 DEF IInv, RepairInv, ToolsTried
<1> QED BY <1>1, <1>2, <1>3, <1>4, <1>5

LEMMA StepStartSort == ASSUME IInv, StartSort PROVE IInv'
<1>1. /\ pc = "soft" /\ todo = {} /\ pc' = "sort" /\ out' = out /\ todo' = todo /\ request' = request
      /\ order' = order /\ rest' = rest /\ before' = before
    BY DEF StartSort
<1>2. out = <<>> /\ out \in Seq(Nodes) /\ IsInjective(out)
    BY <1>1 DEF IInv, TypeOK, Stages
<1>3. Range(out) = {}
    BY <1>2 DEF Range
<1>4. Sorted'
    BY <1>1, <1>3 DEF Sorted
<1>5. TypeOK' /\ Stages' /\ Walked' /\ Repaired' /\ NeverStalls' /\ Tried' /\ ToolsTried'
    BY <1>1, <1>2, SortKeeps
<1> QED BY <1>4, <1>5 DEF IInv, RepairInv

LEMMA StepPlace == ASSUME IInv, NEW x \in Nodes, Place(x) PROVE IInv'
<1>1. /\ pc = "sort" /\ pc' = pc /\ out' = Append(out, x) /\ todo' = todo /\ request' = request
      /\ order' = order /\ rest' = rest /\ before' = before
      /\ x \in Nodes \ Range(out) /\ \A p \in before : p[2] = x => p[1] \in Range(out)
    BY DEF Place, Free
<1>2. out \in Seq(Nodes) /\ IsInjective(out)
    BY DEF IInv, TypeOK
<1>3. /\ out' \in Seq(Nodes) /\ IsInjective(out') /\ Range(out') = Range(out) \cup {x}
      /\ Position(out', x) = Len(out) + 1
      /\ \A y \in Range(out) : Position(out', y) = Position(out, y)
    BY <1>1, <1>2, Appended
<1>4. ASSUME NEW p \in before, p[2] \in Range(out')
      PROVE  p[1] \in Range(out') /\ Respects(out', p)
  <2>1. CASE p[2] \in Range(out)
    <3>1. p[1] \in Range(out) /\ Respects(out, p)
        BY <1>1, <2>1 DEF IInv, RepairInv, Sorted
    <3> QED BY <1>3, <2>1, <3>1 DEF Respects
  <2>2. CASE p[2] = x
    <3>1. p[1] \in Range(out)
        BY <1>1, <2>2
    <3>2. Position(out, p[1]) <= Len(out) /\ Position(out, p[1]) \in Nat /\ Len(out) \in Nat
        BY <1>2, <3>1, PositionNat
    <3> QED BY <1>3, <2>2, <3>1, <3>2 DEF Respects
  <2> QED BY <1>3, <1>4, <2>1, <2>2
<1>5. Sorted'
    BY <1>1, <1>4 DEF Sorted
<1>6. TypeOK' /\ Stages' /\ Walked' /\ Repaired' /\ NeverStalls' /\ Tried' /\ ToolsTried'
    BY <1>1, <1>3, SortKeeps
<1> QED BY <1>5, <1>6 DEF IInv, RepairInv

(* The fall-back is never taken.                                           *)
LEMMA SortComplete ==
    ASSUME IInv, \A x \in Nodes : ~Free(x)
    PROVE  Range(out) = Nodes
<1>1. Range(out) \subseteq Nodes
    BY DEF IInv, TypeOK, Range
<1>2. before \subseteq Nodes \X Nodes
    BY DEF IInv, TypeOK
<1>3. ASSUME Nodes \ Range(out) # {} PROVE FALSE
  <2>1. PICK x \in Nodes \ Range(out) :
            \A p \in before : p[2] = x => p[1] \notin Nodes \ Range(out)
      BY <1>3 DEF IInv, RepairInv, NeverStalls
  <2>2. Free(x)
      BY <1>2, <2>1 DEF Free
  <2> QED BY <2>2
<1> QED BY <1>1, <1>3

LEMMA StepEndSort == ASSUME IInv, EndSort PROVE IInv'
<1>1. /\ pc = "sort" /\ pc' = "done" /\ todo' = todo /\ request' = request
      /\ order' = order /\ rest' = rest /\ before' = before
      /\ \A x \in Nodes : ~Free(x)
      /\ out' = IF Range(out) = Nodes THEN out ELSE order
    BY DEF EndSort
<1>2. Range(out) = Nodes /\ out' = out
    BY <1>1, SortComplete
<1>3. out \in Seq(Nodes) /\ IsInjective(out)
    BY DEF IInv, TypeOK
<1>4. Sorted'
    BY <1>1, <1>2 DEF IInv, RepairInv, Sorted
<1>5. TypeOK' /\ Stages' /\ Walked' /\ Repaired' /\ NeverStalls' /\ Tried' /\ ToolsTried'
    BY <1>1, <1>2, <1>3, SortKeeps
<1> QED BY <1>4, <1>5 DEF IInv, RepairInv

-----------------------------------------------------------------------------
LEMMA InitInv == Init => IInv
<1> SUFFICES ASSUME Init PROVE IInv
    OBVIOUS
<1>1. <<>> \in Seq(Nodes) /\ IsInjective(<<>>) /\ Range(<<>>) = {}
    BY DEF IsInjective, Range
<1>2. TypeOK
    BY <1>1, InstallOrderAssumption DEF Init, TypeOK
<1>3. Stages /\ Walked
    BY <1>1 DEF Init, Stages, Walked
<1>4. RepairInv
    BY DEF Init, RepairInv, Repaired, NeverStalls, Tried, ToolsTried, Sorted
<1> QED BY <1>2, <1>3, <1>4 DEF IInv

LEMMA StepInv == IInv /\ [Next]_vars => IInv'
<1> SUFFICES ASSUME IInv, [Next]_vars PROVE IInv'
    OBVIOUS
<1>1. ASSUME NEW x \in Nodes, StartComponent(x) PROVE IInv'
  <2>1. TypeOK' /\ Walked' /\ Stages' /\ pc' = "walk"
      BY <1>1, StepStartComponent DEF IInv, StartComponent
  <2> QED BY <2>1, WalkKeepsRepair DEF IInv
<1>2. ASSUME NEW x \in Nodes, PickMember(x) PROVE IInv'
  <2>1. TypeOK' /\ Walked' /\ Stages' /\ pc' = "walk"
      BY <1>2, StepPickMember DEF IInv, PickMember
  <2> QED BY <2>1, WalkKeepsRepair DEF IInv
<1>3. ASSUME NEW x \in Nodes, Place(x) PROVE IInv'
    BY <1>3, StepPlace
<1>4. ASSUME NEW p \in todo, Promote(p) \/ Refuse(p) PROVE IInv'
    BY <1>4, StepTry
<1>5. CASE StartRepair
    BY <1>5, StepStartRepair
<1>6. CASE StartSoft
    BY <1>6, StepStartSoft
<1>7. CASE StartSort
    BY <1>7, StepStartSort
<1>8. CASE EndSort
    BY <1>8, StepEndSort
<1>9. CASE UNCHANGED vars
  <2>1. /\ Hard' = Hard /\ Soft' = Soft /\ Tools' = Tools /\ Locked' = Locked
        /\ Inverted(Hard)' = Inverted(Hard) /\ Inverted(Soft)' = Inverted(Soft)
        /\ Walked'
      BY <1>9, Frozen DEF IInv, vars
  <2>2. TypeOK' /\ Stages'
      BY <1>9 DEF IInv, TypeOK, Stages, vars
  <2>3. Repaired' /\ NeverStalls' /\ Sorted'
      BY <1>9, <2>1 DEF IInv, RepairInv, Repaired, NeverStalls, Sorted, vars
  <2>4. Tried'
      BY <1>9, <2>1 DEF IInv, RepairInv, Tried, Settled, ClosesCycle, vars
  <2>5. ToolsTried'
    <3>1. Early' = Early
        BY <1>9, <2>1 DEF Early, vars
    <3> QED BY <1>9, <2>1, <3>1 DEF IInv, RepairInv, ToolsTried, vars
  <2> QED BY <2>1, <2>2, <2>3, <2>4, <2>5 DEF IInv, RepairInv
<1>10. CASE Done
    BY <1>9, <1>10 DEF Done
<1> QED BY <1>1, <1>2, <1>3, <1>4, <1>5, <1>6, <1>7, <1>8, <1>9, <1>10 DEF Next

LEMMA Inductive == Spec => []IInv
BY InitInv, StepInv, PTL DEF Spec

(* The order and its repair keep their types, and no package is placed     *)
(* twice by install_order_with_stats.                                      *)
THEOREM OrderTypes == Spec => []TypeOK
<1>1. IInv => TypeOK
    BY DEF IInv
<1> QED BY <1>1, Inductive, PTL

(* The pairs repair_soft_inversions holds to close no cycle: its fall-back *)
(* to the first pass is never taken.                                       *)
THEOREM RepairNeverStalls == Spec => []NeverStalls
<1>1. IInv => NeverStalls
    BY DEF IInv, RepairInv
<1> QED BY <1>1, Inductive, PTL

(* In the end what is held to is respected, and all the first pass had     *)
(* right is held to.                                                       *)
LEMMA AtTheEnd ==
    ASSUME IInv, pc = "done"
    PROVE  /\ \A p \in before : Respects(out, p)
           /\ before \subseteq Hard \cup Soft
           /\ \A p \in Hard \cup Soft : p[1] # p[2] /\ Respects(order, p) => p \in before
<1>1. ASSUME NEW p \in before PROVE Respects(out, p)
  <2>1. p[2] \in Range(out)
      BY DEF IInv, RepairInv, Sorted, TypeOK
  <2> QED BY <2>1 DEF IInv, RepairInv, Sorted
<1>2. before \subseteq Hard \cup Soft /\ Locked \subseteq before
    BY DEF IInv, RepairInv, Repaired
<1> QED BY <1>1, <1>2 DEF Locked

(* hard_cycle_edges holds nothing but build-time dependencies on a build   *)
(* cycle.                                                                  *)
THEOREM OnlyCyclesBroken == Spec => []HardCyclesOnly
<1>1. ASSUME IInv PROVE HardCyclesOnly
  <2> SUFFICES ASSUME pc = "done", NEW p \in HardCycleEdges, ~Together(Hard, p[1], p[2])
               PROVE  FALSE
      BY DEF HardCyclesOnly
  <2>1. p \in Hard /\ Earlier(p[2], p[1])
      BY DEF HardCycleEdges
  <2>2. p[1] \in Nodes /\ p[2] \in Nodes /\ p[1] \notin Moved
      BY <1>1, <2>1, PairTypes DEF IInv, Moved
  <2>3. Respects(out, <<p[2], p[1]>>)
      BY <2>1, <2>2 DEF Earlier
  <2>4. p[1] # p[2]
      BY ReachesSelf DEF Together
  <2>5. Range(order) = Nodes /\ Range(out) = Nodes /\ out \in Seq(Nodes)
      BY <1>1 DEF IInv, Stages, RepairInv, Sorted, TypeOK
  <2>6. Respects(order, p)
      BY <1>1, <2>1, <2>2, <2>5 DEF IInv, Walked
  <2>7. Respects(out, p)
      BY <1>1, <2>1, <2>4, <2>6, AtTheEnd
  <2>8. Position(out, p[1]) \in Nat /\ Position(out, p[2]) \in Nat
      BY <2>2, <2>5, PositionNat
  <2> QED BY <2>3, <2>7, <2>8 DEF Respects
<1> QED BY <1>1, Inductive, PTL

(* What the first pass had right is a blocker in the plan: neither the     *)
(* repair nor targets_last turns it round.                                 *)
THEOREM NothingLost == Spec => []NothingTurnedBack
<1>1. ASSUME IInv PROVE NothingTurnedBack
  <2> SUFFICES ASSUME pc = "done", NEW p \in Hard \cup Soft, p[1] # p[2], Respects(order, p),
                      {p[1], p[2]} \subseteq request.needed
               PROVE  p[1] \in Blockers(p[2])
      BY DEF NothingTurnedBack
  <2>1. Respects(out, p)
      BY <1>1, AtTheEnd
  <2>2. p = <<p[1], p[2]>> /\ p[1] \in Nodes
      BY <1>1, PairTypes DEF IInv
  <2>3. p[1] \notin Moved
    <3>1. \E e \in request.edges : e.to = p[1]
        BY DEF Hard, Soft, Pairs
    <3> QED BY <3>1 DEF Moved
  <2>4. Earlier(p[1], p[2])
      BY <2>1, <2>2, <2>3 DEF Earlier
  <2> QED BY <2>2, <2>4 DEF Blockers
<1> QED BY <1>1, Inductive, PTL

(* What stays inverted is held so by dependencies that are respected.      *)
THEOREM OnlyForcedInversions == Spec => []InversionsForced
<1>1. ASSUME IInv PROVE InversionsForced
  <2> SUFFICES ASSUME pc = "done", NEW p \in Hard \cup Soft, p[1] # p[2], ~Respects(out, p)
               PROVE  Reaches({q \in Hard \cup Soft : Respects(out, q)}, p[2], p[1])
      BY DEF InversionsForced
  <2>1. p \notin before /\ ~Respects(order, p)
      BY <1>1, AtTheEnd
  <2>2. Settled(p)
      BY <1>1, <2>1 DEF IInv, RepairInv, Tried, Inverted
  <2>3. Reaches(before, p[2], p[1])
      BY <2>1, <2>2 DEF Settled, ClosesCycle
  <2>4. before \subseteq {q \in Hard \cup Soft : Respects(out, q)}
      BY <1>1, AtTheEnd
  <2> QED BY <2>3, <2>4, ReachesMore
<1> QED BY <1>1, Inductive, PTL

(* A tool gives up its own runtime dependency only to what the first pass  *)
(* had right, to build-time dependencies or to another tool's.             *)
THEOREM ToolsKeepTheirs == Spec => []ToolsFirst
<1>1. ASSUME IInv PROVE ToolsFirst
  <2> SUFFICES ASSUME pc = "done", NEW p \in Soft, p[2] \in Tools, p[1] # p[2],
                      ~Respects(out, p)
               PROVE  Reaches(Early, p[2], p[1])
      BY DEF ToolsFirst, Early
  <2>1. p \notin before /\ ~Respects(order, p)
      BY <1>1, AtTheEnd
  <2> QED BY <1>1, <2>1 DEF IInv, RepairInv, ToolsTried, Inverted
<1> QED BY <1>1, Inductive, PTL
=============================================================================
