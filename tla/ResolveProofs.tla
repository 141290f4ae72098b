--------------------------- MODULE ResolveProofs ---------------------------
(* Theorems about what the resolver does around the solver: the USE        *)
(* co-solve (Cosolve), and then the ranges of `=V*` (VersionSet) and the   *)
(* order of versions they are made of (Versions).                          *)
(* For any packages, dependencies, defaults and configuration: the flags   *)
(* settled and forced keep their reasons while each decision is made       *)
(* anew, and so a fixpoint explains what it leaves violated.  For any      *)
(* versions: the byte key compares as PMS says, each known version lands   *)
(* on its side of a glob, and the bounds of `=V*` and `~V` hold what they  *)
(* say they do.                                                            *)
EXTENDS Cosolve, VersionSet, TLAPS, SequenceTheorems, WellFoundedInduction

(* What is on record about a contested flag: its decision only flips what  *)
(* follows, against the side it decided for.                               *)
FitsSeen(t) ==
    /\ decisions[t].flipped \subseteq
          {d \in seen[t] : Follows(d) /\ d.enable # decisions[t].enable}
    /\ decisions[t].matched => \E d \in seen[t] : d.enable = decisions[t].enable

Tied ==
    /\ \A t \in world.iuse : reqs[t] \subseteq seen[t]
    /\ DOMAIN decisions \subseteq Contested(seen) /\ todo \subseteq Contested(seen)
    /\ \A t \in DOMAIN decisions : FitsSeen(t)

(* A flip that nothing else can take back stands.                          *)
FlipsStand ==
    \A t \in Matched : \A d \in decisions[t].flipped :
        ~Unsure(t, d) => /\ d.parent \in DOMAIN applied
                         /\ applied[d.parent] = ParentValueToAgree(d)

(* While nothing changed, the demands are those of the plan as it is, and  *)
(* the decisions what settling anew would give.                            *)
Steady ==
    /\ \A t \in Packages : reqs[t] \in Recorded(Plan, t)
    /\ \A t \in Contested(seen) \ todo : t \in DOMAIN decisions /\ decisions[t] = Settle(t)

AtFixpoint ==
    /\ pc = "settle" /\ ~changed => Steady
    /\ solved => /\ pc = "done" /\ todo = {} /\ Steady
                 /\ Targeted \subseteq DOMAIN world.config \cup DOMAIN decisions
                                       \cup DOMAIN applied

IInv == TypeOK /\ Tied /\ FlipsStand /\ AtFixpoint /\ SettlementHolds /\ ForcedForAReason

-----------------------------------------------------------------------------
(* The operators.                                                          *)

LEMMA WorldType ==
    ASSUME TypeOK
    PROVE  /\ world.iuse \subseteq Packages
           /\ IsMap(world.config, Packages) /\ IsMap(world.fixed, Packages)
           /\ \A d \in world.deps :
                /\ d.from \in Packages \cup {Root} /\ d.to \in Packages
                /\ d.kind \in Kinds
                /\ d.from = Root => d.kind \in {"pull", "Enabled", "Disabled"}
BY CosolveAssumption DEF TypeOK

LEMMA EffectiveType ==
    ASSUME TypeOK, NEW p \in Packages
    PROVE  Effective(p) \in BOOLEAN
BY WorldType DEF TypeOK, Effective, IsMap

LEMMA DemandsType ==
    ASSUME TypeOK, NEW plan, NEW t, NEW v \in BOOLEAN
    PROVE  Demands(plan, t, v) \subseteq {d \in Demand : d.enable = v}
<1> SUFFICES ASSUME NEW e \in world.deps, Asks(e, v)
             PROVE  [parent |-> e.from, kind |-> e.kind, enable |-> v] \in Demand
    BY DEF Demands
<1>1. e.kind \in Kinds \ {"pull"}
    BY WorldType DEF Asks, Kinds
<1>2. e.from = Root => e.kind \in {"Enabled", "Disabled"}
    BY <1>1, WorldType
<1> QED BY <1>1, <1>2, WorldType DEF Demand, Follows

LEMMA RecordedType ==
    ASSUME TypeOK, NEW plan, NEW t, NEW S \in Recorded(plan, t)
    PROVE  S \subseteq Demand
<1> DEFINE on == Demands(plan, t, TRUE)
           off == Demands(plan, t, FALSE)
<1>1. on \subseteq Demand /\ off \subseteq Demand
    BY DemandsType
<1>2. S \subseteq on \cup off
    BY DEF Recorded
<1> QED BY <1>1, <1>2

(* A violated dependency is on record, or one that asks for the same.      *)
LEMMA ViolationRecorded ==
    ASSUME TypeOK, NEW d \in world.deps, Violated(d),
           NEW v \in BOOLEAN, v # Effective(d.to),
           NEW S \in Recorded(Plan, d.to)
    PROVE  \E x \in S : x \in Demands(Plan, d.to, v)
<1> DEFINE on == Demands(Plan, d.to, TRUE)
           off == Demands(Plan, d.to, FALSE)
<1>1. Effective(d.to) \in BOOLEAN
    BY WorldType, EffectiveType
<1>2. Demands(Plan, d.to, v) # {}
  <2>1. Asks(d, v)
      BY <1>1 DEF Violated, Asks
  <2> QED BY <2>1 DEF Violated, Demands
<1>3. CASE v = FALSE
  <2>1. off # {} /\ Effective(d.to)
      BY <1>1, <1>2, <1>3
  <2>2. CASE on # {}
      BY <2>1, <2>2, <1>3 DEF Recorded
  <2>3. CASE on = {}
      BY <2>1, <2>3, <1>3 DEF Recorded
  <2> QED BY <2>2, <2>3
<1>4. CASE v = TRUE
  <2>1. on # {} /\ ~Effective(d.to)
      BY <1>1, <1>2, <1>4
  <2> QED BY <2>1, <1>4 DEF Recorded
<1> QED BY <1>3, <1>4

(* A demand whose parent has the flag and gave way is not asked any more.  *)
LEMMA GaveWay ==
    ASSUME TypeOK, NEW t, NEW v \in BOOLEAN, NEW x \in Demands(Plan, t, v), Follows(x),
           x.parent \in world.iuse \ DOMAIN world.fixed,
           x.parent \in DOMAIN applied, applied[x.parent] = ParentValueToAgree(x)
    PROVE  FALSE
<1>1. PICK e \in world.deps : /\ Asks(e, v)
                              /\ x = [parent |-> e.from, kind |-> e.kind, enable |-> v]
    BY DEF Demands
<1>2. x.parent = e.from /\ x.kind = e.kind /\ x.enable = v
    BY <1>1
<1>3. Effective(e.from) = ParentValueToAgree(x)
    BY <1>2 DEF Effective
<1>4. e.kind \in {"Equal", "EqualInverse", "Conditional", "ConditionalInverse"}
    BY <1>1, <1>2, WorldType DEF Follows, Asks, Kinds
<1> QED BY <1>1, <1>2, <1>3, <1>4 DEF Asks, ParentValueToAgree

LEMMA AgreeType ==
    ASSUME NEW d \in Demand
    PROVE  ParentValueToAgree(d) \in BOOLEAN
BY DEF Demand, ParentValueToAgree

(* Contested is being demanded both ways.                                  *)
LEMMA BothWays ==
    ASSUME TypeOK, NEW sn \in [Packages -> SUBSET Demand]
    PROVE  \A t : t \in Contested(sn) <=>
              /\ t \in Packages \ DOMAIN world.config
              /\ \E d, e \in sn[t] : d.enable # e.enable
<1> SUFFICES ASSUME NEW t \in Packages
             PROVE  {d.enable : d \in sn[t]} = BOOLEAN
                        <=> \E d, e \in sn[t] : d.enable # e.enable
    BY DEF Contested
<1>1. \A d \in sn[t] : d.enable \in BOOLEAN
    BY DEF Demand
<1>2. ASSUME {d.enable : d \in sn[t]} = BOOLEAN
      PROVE  \E d, e \in sn[t] : d.enable # e.enable
  <2>1. PICK d \in sn[t] : d.enable = TRUE
      BY <1>2
  <2>2. PICK e \in sn[t] : e.enable = FALSE
      BY <1>2
  <2> QED BY <2>1, <2>2
<1>3. ASSUME NEW d \in sn[t], NEW e \in sn[t], d.enable # e.enable
      PROVE  {x.enable : x \in sn[t]} = BOOLEAN
  <2>1. \A v \in BOOLEAN : v = d.enable \/ v = e.enable
      BY <1>1, <1>3
  <2> QED BY <1>1, <2>1
<1> QED BY <1>2, <1>3

-----------------------------------------------------------------------------
(* What settle returns.                                                    *)
LEMMA SettleShape ==
    ASSUME TypeOK, NEW t \in Packages
    PROVE  /\ Settle(t) \in Decision
           /\ Settle(t).matched =>
                /\ \E d \in seen[t] : ~Follows(d) /\ d.enable = Settle(t).enable
                /\ Settle(t).flipped = {d \in seen[t] : d.enable # Settle(t).enable}
                /\ \A d \in Settle(t).flipped : Follows(d) /\ PinOf(d) = "none"
           /\ ~Settle(t).matched => Settle(t).flipped = {}
<1> DEFINE plain == {d.enable : d \in {e \in seen[t] : ~Follows(e)}}
           loses(d) == Follows(d) /\ plain = {~d.enable}
           pins == {<<d, IF loses(d) THEN PinOf(d) ELSE "none">> : d \in seen[t]}
           wins == plain \in {{TRUE}, {FALSE}} /\ \A x \in pins : x[2] = "none"
<1>0. Settle(t) = IF wins
         THEN [matched |-> TRUE, enable |-> CHOOSE v \in plain : TRUE,
               flipped |-> {d \in seen[t] : d.enable \notin plain}, pins |-> {}]
         ELSE [matched |-> FALSE, enable |-> FALSE, flipped |-> {}, pins |-> pins]
    BY DEF Settle
<1>1. seen[t] \subseteq Demand /\ \A d \in seen[t] : d.enable \in BOOLEAN
    BY DEF TypeOK, Demand
<1>2. CASE ~wins
  <2>1. Settle(t) = [matched |-> FALSE, enable |-> FALSE, flipped |-> {}, pins |-> pins]
      BY <1>0, <1>2
  <2>2. pins \subseteq Demand \X {"config", "decided", "fixed", "none"}
      BY <1>1 DEF PinOf
  <2> QED BY <2>1, <2>2 DEF Decision
<1>3. CASE wins
  <2> DEFINE s == CHOOSE v \in plain : TRUE
             flipped == {d \in seen[t] : d.enable \notin plain}
  <2>1. Settle(t) = [matched |-> TRUE, enable |-> s, flipped |-> flipped, pins |-> {}]
      BY <1>0, <1>3
  <2>2. s \in BOOLEAN /\ plain = {s}
    <3>1. plain = {TRUE} \/ plain = {FALSE}
        BY <1>3
    <3>2. s \in plain
        BY <3>1
    <3> HIDE DEF s
    <3> QED BY <3>1, <3>2
  <2>3. flipped = {d \in seen[t] : d.enable # s}
      BY <2>2
  <2>4. PICK d \in seen[t] : ~Follows(d) /\ d.enable = s
      BY <2>2
  <2>5. ASSUME NEW e \in flipped
        PROVE  Follows(e) /\ PinOf(e) = "none"
    <3>1. e \in seen[t] /\ e.enable \notin plain
        BY <2>5
    <3>2. Follows(e)
        BY <3>1
    <3>3. loses(e)
      <4>1. CASE s = TRUE
        <5>1. e.enable = FALSE
            BY <1>1, <2>2, <3>1, <4>1
        <5> QED BY <2>2, <3>2, <4>1, <5>1
      <4>2. CASE s = FALSE
        <5>1. e.enable = TRUE
            BY <1>1, <2>2, <3>1, <4>2
        <5> QED BY <2>2, <3>2, <4>2, <5>1
      <4> QED BY <2>2, <4>1, <4>2
    <3>4. <<e, PinOf(e)>> \in pins
        BY <3>1, <3>3
    <3> QED BY <1>3, <3>2, <3>4
  <2>6. flipped \subseteq Demand
      BY <1>1
  <2>7. Settle(t) \in Decision
      BY <2>1, <2>2, <2>6 DEF Decision
  <2>8. /\ Settle(t).matched /\ Settle(t).enable = s /\ Settle(t).flipped = flipped
      BY <2>1
  <2> QED BY <2>3, <2>4, <2>5, <2>7, <2>8
<1> QED BY <1>2, <1>3

-----------------------------------------------------------------------------
(* What a step leaves alone when it leaves these alone.                    *)

LEMMA PlanSame ==
    ASSUME UNCHANGED <<world, applied>>
    PROVE  Plan' = Plan /\ \A t : Recorded(Plan, t)' = Recorded(Plan, t)
<1>1. \A p : Effective(p)' = Effective(p)
    BY DEF Effective
<1>2. \A d : InForce(d)' <=> InForce(d)
    BY <1>1 DEF InForce
<1>3. Plan' = Plan
    BY <1>2 DEF Plan
<1>4. \A d, v : Asks(d, v)' <=> Asks(d, v)
    BY <1>1 DEF Asks
<1>5. \A t : /\ Demands(Plan, t, TRUE)' = Demands(Plan, t, TRUE)
             /\ Demands(Plan, t, FALSE)' = Demands(Plan, t, FALSE)
    BY <1>2, <1>3, <1>4 DEF Demands
<1> QED BY <1>1, <1>3, <1>5 DEF Recorded

LEMMA SettleSame ==
    ASSUME UNCHANGED <<world, applied, seen>>
    PROVE  \A t : Settle(t)' = Settle(t)
BY DEF Settle, PinOf, Follows, ParentValueToAgree

LEMMA PropertiesSame ==
    ASSUME UNCHANGED <<world, applied, seen, decisions>>
    PROVE  /\ FlipsStand' <=> FlipsStand
           /\ SettlementHolds' <=> SettlementHolds
           /\ ForcedForAReason' <=> ForcedForAReason
<1>1. Matched' = Matched /\ \A t : Followed(t)' = Followed(t)
    BY DEF Matched, Followed
<1>2. \A t, d : Unsure(t, d)' <=> Unsure(t, d)
    BY <1>1 DEF Unsure, ParentValueToAgree
<1>3. Yielding' = Yielding
    BY <1>1 DEF Yielding
<1> QED BY <1>1, <1>2, <1>3
        DEF FlipsStand, SettlementHolds, ForcedForAReason, ParentValueToAgree

(* What a new decision leaves forced: the parents it flips, its own flag,  *)
(* and whatever the old decision had not flipped.                          *)
LetGo(t) == IF t \in DOMAIN decisions THEN Parents(decisions[t]) ELSE {}

LEMMA EnforcedShape ==
    ASSUME TypeOK, NEW t \in Packages, NEW dn \in Decision, NEW flips \in Flips(dn),
           \A d \in dn.flipped : Follows(d), ~dn.matched => dn.flipped = {},
           NEW f, f = Enforced(t, dn, flips)
    PROVE  /\ IsMap(f, Packages)
           /\ \A p \in Parents(dn) :
                /\ p \in DOMAIN f
                /\ \E d \in dn.flipped : d.parent = p /\ f[p] = ParentValueToAgree(d)
           /\ t \notin Parents(dn) =>
                IF dn.matched THEN t \in DOMAIN f /\ f[t] = dn.enable ELSE t \notin DOMAIN f
           /\ \A p : p # t /\ p \notin Parents(dn) =>
                /\ p \in DOMAIN f <=> p \in DOMAIN applied \ LetGo(t)
                /\ p \in DOMAIN f => f[p] = applied[p]
<1> DEFINE kept == Without(applied, LetGo(t))
           own == With(kept, Only(t, dn.enable))
<1>0. dn.matched \in BOOLEAN /\ dn.enable \in BOOLEAN /\ dn.flipped \subseteq Demand
    BY DEF Decision
<1>1. /\ DOMAIN kept = DOMAIN applied \ LetGo(t)
      /\ \A p \in DOMAIN kept : kept[p] = applied[p] /\ kept[p] \in BOOLEAN /\ p \in Packages
    BY DEF Without, Restrict, TypeOK, IsMap
<1>2. /\ DOMAIN flips = Parents(dn) /\ Parents(dn) \subseteq Packages
      /\ \A p \in Parents(dn) : flips[p] \in BOOLEAN
      /\ \A p \in Parents(dn) : \E d \in dn.flipped :
            d.parent = p /\ flips[p] = ParentValueToAgree(d)
    BY <1>0 DEF Flips, Parents, Demand
<1>3. f = IF dn.matched THEN With(own, flips) ELSE Without(kept, {t})
    BY DEF Enforced, LetGo
<1> HIDE DEF kept
<1>4. CASE dn.matched
  <2>1. /\ DOMAIN own = DOMAIN kept \cup {t} /\ own[t] = dn.enable
        /\ \A p \in DOMAIN kept \ {t} : own[p] = kept[p]
      BY DEF With, Only
  <2> HIDE DEF own
  <2>2. f = [x \in DOMAIN own \cup Parents(dn) |-> IF x \in Parents(dn) THEN flips[x] ELSE own[x]]
      BY <1>2, <1>3, <1>4 DEF With
  <2>3. IsMap(f, Packages)
      BY <1>0, <1>1, <1>2, <2>1, <2>2 DEF IsMap
  <2> QED BY <1>1, <1>2, <1>4, <2>1, <2>2, <2>3
<1>5. CASE ~dn.matched
  <2>1. Parents(dn) = {}
      BY <1>5 DEF Parents
  <2>2. f = [x \in DOMAIN kept \ {t} |-> kept[x]]
      BY <1>3, <1>5 DEF Without, Restrict
  <2>3. IsMap(f, Packages)
      BY <1>1, <2>2 DEF IsMap
  <2> QED BY <1>1, <1>5, <2>1, <2>2, <2>3
<1> QED BY <1>0, <1>4, <1>5

-----------------------------------------------------------------------------
(* A contested flag is decided anew.                                       *)

Decides(t, flips) ==
    /\ decisions' = With(decisions, Only(t, Settle(t)))
    /\ applied' = Enforced(t, Settle(t), flips)
    /\ flips \in Flips(Settle(t))
    /\ UNCHANGED <<world, reqs, seen>>

LEMMA Decided ==
    ASSUME IInv, NEW t \in todo, NEW flips, Decides(t, flips)
    PROVE  /\ t \in Packages /\ Settle(t) \in Decision
           /\ DOMAIN decisions' = DOMAIN decisions \cup {t}
           /\ decisions'[t] = Settle(t)
           /\ \A u \in DOMAIN decisions \ {t} : decisions'[u] = decisions[u]
           /\ IsMap(applied', Packages)
           /\ \A p \in Parents(Settle(t)) :
                /\ p \in DOMAIN applied'
                /\ \E d \in Settle(t).flipped : d.parent = p /\ applied'[p] = ParentValueToAgree(d)
           /\ t \notin Parents(Settle(t)) =>
                IF Settle(t).matched THEN t \in DOMAIN applied' /\ applied'[t] = Settle(t).enable
                ELSE t \notin DOMAIN applied'
           /\ \A p : p # t /\ p \notin Parents(Settle(t)) =>
                /\ p \in DOMAIN applied' <=> p \in DOMAIN applied \ LetGo(t)
                /\ p \in DOMAIN applied' => applied'[p] = applied[p]
           /\ Parents(Settle(t)) \subseteq Followed(t) /\ LetGo(t) \subseteq Followed(t)
<1>1. t \in Packages
    BY DEF IInv, TypeOK
<1>2. Settle(t) \in Decision /\ (\A d \in Settle(t).flipped : Follows(d))
      /\ (~Settle(t).matched => Settle(t).flipped = {})
      /\ Settle(t).flipped \subseteq {d \in seen[t] : Follows(d)}
    BY <1>1, SettleShape DEF IInv, Decision
<1>3. /\ DOMAIN decisions' = DOMAIN decisions \cup {t}
      /\ decisions'[t] = Settle(t)
      /\ \A u \in DOMAIN decisions \ {t} : decisions'[u] = decisions[u]
    BY DEF Decides, With, Only
<1>4. Parents(Settle(t)) \subseteq Followed(t)
    BY <1>2 DEF Parents, Followed
<1>5. LetGo(t) \subseteq Followed(t)
    BY DEF LetGo, Parents, Followed, IInv, Tied, FitsSeen
<1> QED BY <1>1, <1>2, <1>3, <1>4, <1>5, EnforcedShape DEF Decides, IInv

LEMMA DecidedType ==
    ASSUME IInv, NEW t \in todo, NEW flips, Decides(t, flips)
    PROVE  /\ IsMap(applied', Packages) /\ DOMAIN decisions' \subseteq Packages
           /\ \A u \in DOMAIN decisions' : decisions'[u] \in Decision
<1>1. /\ DOMAIN decisions \subseteq Packages
      /\ \A u \in DOMAIN decisions : decisions[u] \in Decision
    BY DEF IInv, TypeOK
<1>2. IsMap(applied', Packages)
    BY Decided
<1>3. /\ t \in Packages /\ Settle(t) \in Decision /\ decisions'[t] = Settle(t)
      /\ DOMAIN decisions' = DOMAIN decisions \cup {t}
      /\ \A u \in DOMAIN decisions \ {t} : decisions'[u] = decisions[u]
    BY Decided
<1> QED BY <1>1, <1>2, <1>3

LEMMA DecidedFits ==
    ASSUME IInv, NEW t \in todo, NEW flips, Decides(t, flips)
    PROVE  /\ DOMAIN decisions' \subseteq Contested(seen)
           /\ \A u \in DOMAIN decisions' : FitsSeen(u)'
<1>1. Tied /\ TypeOK /\ seen' = seen
    BY DEF IInv, Decides
<1>2. DOMAIN decisions' = DOMAIN decisions \cup {t} /\ t \in Packages
    BY Decided
<1>3. FitsSeen(t)'
  <2>1. decisions'[t] = Settle(t) /\ Settle(t) \in Decision
      BY Decided
  <2>2. Settle(t).matched => \E d \in seen[t] : d.enable = Settle(t).enable
      BY <1>1, <1>2, SettleShape
  <2>3. Settle(t).flipped \subseteq {d \in seen[t] : Follows(d) /\ d.enable # Settle(t).enable}
      BY <1>1, <1>2, <2>1, SettleShape DEF Decision
  <2> QED BY <1>1, <2>1, <2>2, <2>3 DEF FitsSeen
<1>4. ASSUME NEW u \in DOMAIN decisions \ {t}
      PROVE  FitsSeen(u)'
  <2>1. decisions'[u] = decisions[u]
      BY Decided
  <2> QED BY <1>1, <2>1 DEF Tied, FitsSeen
<1> QED BY <1>1, <1>2, <1>3, <1>4 DEF Tied

LEMMA DecidedHolds ==
    ASSUME IInv, NEW t \in todo, NEW flips, Decides(t, flips)
    PROVE  SettlementHolds'
<1>1. DOMAIN decisions' = DOMAIN decisions \cup {t} /\ seen' = seen
    BY Decided DEF Decides
<1>2. Yielding' = Yielding \cup Followed(t)
    BY <1>1 DEF Yielding, Followed
<1> SUFFICES ASSUME NEW u \in DOMAIN decisions', u \notin Yielding'
             PROVE  IF decisions'[u].matched
                    THEN u \in DOMAIN applied' /\ applied'[u] = decisions'[u].enable
                    ELSE u \notin DOMAIN applied'
    BY DEF SettlementHolds, Matched
<1>3. CASE u = t
  <2>1. t \notin Parents(Settle(t)) /\ decisions'[t] = Settle(t)
      BY <1>2, <1>3, Decided
  <2>2. IF Settle(t).matched THEN t \in DOMAIN applied' /\ applied'[t] = Settle(t).enable
        ELSE t \notin DOMAIN applied'
      BY <2>1, Decided
  <2> QED BY <1>3, <2>1, <2>2
<1>4. CASE u # t
  <2>1. u \notin Followed(t) /\ u \notin Yielding
      BY <1>2
  <2>2. /\ decisions'[u] = decisions[u]
        /\ u \in DOMAIN applied' <=> u \in DOMAIN applied
        /\ u \in DOMAIN applied' => applied'[u] = applied[u]
      BY <1>1, <1>4, <2>1, Decided
  <2> QED BY <1>1, <1>4, <2>1, <2>2 DEF SettlementHolds, Matched, IInv
<1> QED BY <1>3, <1>4

LEMMA DecidedReason ==
    ASSUME IInv, NEW t \in todo, NEW flips, Decides(t, flips)
    PROVE  ForcedForAReason'
<1> SUFFICES ASSUME NEW p \in DOMAIN applied'
             PROVE  \/ \E d \in seen'[p] : d.enable = applied'[p]
                    \/ \E u \in DOMAIN decisions' : decisions'[u].matched
                         /\ \E d \in decisions'[u].flipped :
                               d.parent = p /\ applied'[p] = ParentValueToAgree(d)
    BY DEF ForcedForAReason, Matched
<1>1. /\ DOMAIN decisions' = DOMAIN decisions \cup {t} /\ seen' = seen
      /\ decisions'[t] = Settle(t) /\ t \in Packages /\ TypeOK
    BY Decided DEF Decides, IInv
<1>2. CASE p \in Parents(Settle(t))
  <2>1. Settle(t).matched
      BY <1>1, <1>2, SettleShape DEF Parents, Decision
  <2> QED BY <1>1, <1>2, <2>1, Decided
<1>3. CASE p = t /\ p \notin Parents(Settle(t))
  <2>1. Settle(t).matched /\ applied'[t] = Settle(t).enable
      BY <1>3, Decided
  <2> QED BY <1>1, <1>3, <2>1, SettleShape
<1>4. CASE p # t /\ p \notin Parents(Settle(t))
  <2>1. p \in DOMAIN applied \ LetGo(t) /\ applied'[p] = applied[p]
      BY <1>4, Decided
  <2>2. CASE \E d \in seen[p] : d.enable = applied[p]
      BY <1>1, <2>1, <2>2
  <2>3. ASSUME NEW u \in Matched, NEW d \in decisions[u].flipped,
               d.parent = p, applied[p] = ParentValueToAgree(d)
        PROVE  u # t
      BY <2>1, <2>3 DEF LetGo, Parents, Matched
  <2>4. \A u \in DOMAIN decisions \ {t} : decisions'[u] = decisions[u]
      BY Decided
  <2> QED BY <1>1, <2>1, <2>2, <2>3, <2>4 DEF IInv, ForcedForAReason, Matched
<1> QED BY <1>2, <1>3, <1>4

LEMMA DecidedFlips ==
    ASSUME IInv, NEW t \in todo, NEW flips, Decides(t, flips)
    PROVE  FlipsStand'
<1>1. /\ DOMAIN decisions' = DOMAIN decisions \cup {t} /\ seen' = seen /\ world' = world
      /\ decisions'[t] = Settle(t) /\ t \in Packages
    BY Decided DEF Decides
<1> SUFFICES ASSUME NEW u \in DOMAIN decisions', decisions'[u].matched,
                    NEW d \in decisions'[u].flipped, ~Unsure(u, d)'
             PROVE  d.parent \in DOMAIN applied' /\ applied'[d.parent] = ParentValueToAgree(d)
    BY DEF FlipsStand, Matched, ParentValueToAgree
<1>2. CASE u = t
  <2>1. d \in Settle(t).flipped /\ d.parent \in Parents(Settle(t))
      BY <1>1, <1>2 DEF Parents
  <2>2. /\ d.parent \in DOMAIN applied'
        /\ \E e \in Settle(t).flipped :
              e.parent = d.parent /\ applied'[d.parent] = ParentValueToAgree(e)
    <3>1. \A p \in Parents(Settle(t)) :
             /\ p \in DOMAIN applied'
             /\ \E e \in Settle(t).flipped :
                   e.parent = p /\ applied'[p] = ParentValueToAgree(e)
        BY Decided
    <3> QED BY <2>1, <3>1
  <2>3. PICK e \in Settle(t).flipped :
           e.parent = d.parent /\ applied'[d.parent] = ParentValueToAgree(e)
      BY <2>2
  <2>4. ParentValueToAgree(e) = ParentValueToAgree(d)
    <3>1. ~\E x \in decisions'[u].flipped :
             x.parent = d.parent /\ ParentValueToAgree(x) # ParentValueToAgree(d)
        BY DEF Unsure
    <3> QED BY <1>1, <1>2, <2>3, <3>1
  <2> QED BY <2>2, <2>3, <2>4
<1>3. CASE u # t
  <2>1. u \in Matched /\ decisions'[u] = decisions[u] /\ d \in decisions[u].flipped
      BY <1>1, <1>3, Decided DEF Matched
  <2>2. d.parent \notin Followed(t) /\ d.parent # t
      BY <1>1, <1>3 DEF Unsure, Followed
  <2>3. ~Unsure(u, d)
      BY <1>1, <2>1 DEF Unsure, Followed, ParentValueToAgree
  <2>4. d.parent \in DOMAIN applied /\ applied[d.parent] = ParentValueToAgree(d)
      BY <2>1, <2>3 DEF IInv, FlipsStand
  <2>5. /\ Parents(Settle(t)) \subseteq Followed(t) /\ LetGo(t) \subseteq Followed(t)
        /\ \A p : p # t /\ p \notin Parents(Settle(t)) =>
              /\ p \in DOMAIN applied' <=> p \in DOMAIN applied \ LetGo(t)
              /\ p \in DOMAIN applied' => applied'[p] = applied[p]
      BY Decided
  <2> QED BY <2>2, <2>4, <2>5
<1> QED BY <1>2, <1>3

-----------------------------------------------------------------------------
(* The steps.                                                              *)

LEMMA InitInv == Init => IInv
<1> SUFFICES ASSUME Init PROVE IInv
    OBVIOUS
<1>1. PICK deps \in Graphs, iuse \in IUses, default \in [Packages -> BOOLEAN], h \in Holds :
         world = [deps |-> deps, iuse |-> iuse, default |-> default,
                  config |-> h.config, fixed |-> h.fixed]
    BY DEF Init
<1>2. /\ world.deps \in Graphs /\ world.iuse \in IUses
      /\ world.default \in [Packages -> BOOLEAN]
      /\ world.config = h.config /\ world.fixed = h.fixed
    BY <1>1
<1>3. applied = <<>> /\ DOMAIN applied = {} /\ decisions = <<>> /\ DOMAIN decisions = {}
    BY DEF Init
<1>4. TypeOK
  <2>1. IsMap(applied, Packages)
      BY <1>3 DEF IsMap
  <2>2. solves \in 0..MaxSolves
      BY CosolveAssumption DEF Init
  <2>3. reqs \in [Packages -> SUBSET Demand] /\ seen \in [Packages -> SUBSET Demand]
      BY DEF Init
  <2>4. \E x \in Holds : world.config = x.config /\ world.fixed = x.fixed
      BY <1>2
  <2> QED BY <1>2, <1>3, <2>1, <2>2, <2>3, <2>4 DEF Init, TypeOK
<1>5. world.iuse \subseteq Packages
    BY <1>4, WorldType
<1>6. Tied
    BY <1>3, <1>5 DEF Init, Tied
<1>7. FlipsStand /\ SettlementHolds /\ ForcedForAReason
    BY <1>3 DEF FlipsStand, Matched, SettlementHolds, ForcedForAReason
<1>8. AtFixpoint
    BY DEF Init, AtFixpoint
<1> QED BY <1>4, <1>6, <1>7, <1>8 DEF IInv

(* A solve adds to what was seen, and the demands are those of the plan.   *)
LEMMA SolveInv == ASSUME IInv, Solve PROVE IInv'
<1>0. TypeOK
    BY DEF IInv
<1>1. PICK found \in Findings(LET plan == Plan IN [t \in Packages |-> Recorded(plan, t)]) :
         /\ reqs' = found
         /\ seen' = [t \in Packages |->
                        IF t \in world.iuse THEN seen[t] \cup found[t] ELSE seen[t]]
         /\ todo' = Contested(seen')
    BY DEF Solve
<1>2. /\ found \in [Packages -> SUBSET Demand]
      /\ \A t \in Packages : found[t] \in Recorded(Plan, t)
  <2>1. /\ DOMAIN found = Packages /\ found = [t \in Packages |-> found[t]]
        /\ \A t \in Packages : found[t] \in Recorded(Plan, t)
      BY DEF Findings
  <2>2. \A t \in Packages : found[t] \subseteq Demand
      BY <1>0, <2>1, RecordedType
  <2> QED BY <2>1, <2>2
<1>3. /\ UNCHANGED <<world, applied, decisions, solved>>
      /\ pc = "solve" /\ pc' = "settle" /\ changed' = FALSE
      /\ solves < MaxSolves /\ solves' = solves + 1
    BY DEF Solve
<1>4. /\ seen' \in [Packages -> SUBSET Demand] /\ seen \in [Packages -> SUBSET Demand]
      /\ \A t \in Packages : seen[t] \subseteq seen'[t]
      /\ \A t \in world.iuse : found[t] \subseteq seen'[t]
    BY <1>0, <1>1, <1>2, WorldType DEF TypeOK
<1>5. Contested(seen) \subseteq Contested(seen') /\ Contested(seen') \subseteq Packages
  <2>1. \A t : t \in Contested(seen) <=>
              /\ t \in Packages \ DOMAIN world.config
              /\ \E d, e \in seen[t] : d.enable # e.enable
      BY <1>0, <1>4, BothWays
  <2>2. \A t : t \in Contested(seen') <=>
              /\ t \in Packages \ DOMAIN world.config
              /\ \E d, e \in seen'[t] : d.enable # e.enable
      BY <1>0, <1>4, BothWays
  <2> QED BY <1>4, <2>1, <2>2
<1>6. Contested(seen)' = Contested(seen')
    BY <1>3 DEF Contested
<1>7. TypeOK'
  <2>1. solves' \in 0..MaxSolves
      BY <1>0, <1>3, CosolveAssumption DEF TypeOK
  <2> QED BY <1>0, <1>1, <1>2, <1>3, <1>4, <1>5, <2>1 DEF TypeOK
<1>8. Tied'
  <2>1. \A t \in DOMAIN decisions : FitsSeen(t)'
      BY <1>0, <1>3, <1>4 DEF IInv, Tied, FitsSeen, TypeOK
  <2>2. \A t \in world'.iuse : reqs'[t] \subseteq seen'[t]
      BY <1>1, <1>3, <1>4
  <2> QED BY <1>1, <1>3, <1>5, <1>6, <2>1, <2>2 DEF IInv, Tied
<1>9. \A t \in DOMAIN decisions : Followed(t) \subseteq Followed(t)'
    BY <1>0, <1>4 DEF Followed, TypeOK
<1>10. FlipsStand'
  <2> SUFFICES ASSUME NEW t \in Matched, NEW d \in decisions[t].flipped, ~Unsure(t, d)'
               PROVE  d.parent \in DOMAIN applied /\ applied[d.parent] = ParentValueToAgree(d)
      BY <1>3 DEF FlipsStand, Matched, ParentValueToAgree
  <2>1. ~Unsure(t, d)
      BY <1>3, <1>9 DEF Unsure, ParentValueToAgree
  <2> QED BY <2>1 DEF IInv, FlipsStand
<1>11. SettlementHolds'
  <2>1. Yielding \subseteq Yielding'
      BY <1>3, <1>9 DEF Yielding
  <2> QED BY <1>3, <2>1 DEF IInv, SettlementHolds, Matched
<1>12. ForcedForAReason'
    BY <1>0, <1>3, <1>4 DEF IInv, ForcedForAReason, Matched, ParentValueToAgree, TypeOK, IsMap
<1>13. AtFixpoint'
  <2>1. \A t \in Packages : reqs'[t] \in Recorded(Plan, t)
      BY <1>1, <1>2
  <2>2. \A t \in Packages : Recorded(Plan, t)' = Recorded(Plan, t)
      BY <1>3, PlanSame
  <2>3. ~solved'
      BY <1>3 DEF IInv, AtFixpoint
  <2> QED BY <1>1, <1>6, <2>1, <2>2, <2>3 DEF AtFixpoint, Steady
<1> QED BY <1>7, <1>8, <1>10, <1>11, <1>12, <1>13 DEF IInv

LEMMA SolveFailsInv == ASSUME IInv, SolveFails PROVE IInv'
<1>1. /\ UNCHANGED <<world, solves, applied, reqs, seen, decisions, todo, changed, solved>>
      /\ pc = "solve" /\ pc' = "done"
    BY DEF SolveFails
<1>2. ~solved
    BY <1>1 DEF IInv, AtFixpoint
<1>3. TypeOK' /\ Tied'
    BY <1>1 DEF IInv, TypeOK, Tied, FitsSeen, Contested
<1>4. FlipsStand' /\ SettlementHolds' /\ ForcedForAReason'
    BY <1>1, PropertiesSame DEF IInv
<1>5. AtFixpoint'
    BY <1>1, <1>2 DEF AtFixpoint
<1> QED BY <1>3, <1>4, <1>5 DEF IInv

(* Nothing but the forced flags, the decision and what is left to settle.  *)
LEMMA SettleInv == ASSUME IInv, SettleNext PROVE IInv'
<1>1. PICK t \in todo :
         /\ todo' = todo \ {t}
         /\ \/ /\ t \in DOMAIN decisions /\ decisions[t] = Settle(t)
               /\ UNCHANGED <<decisions, applied, changed>>
            \/ /\ decisions' = With(decisions, Only(t, Settle(t)))
               /\ \E flips \in Flips(Settle(t)) : applied' = Enforced(t, Settle(t), flips)
               /\ changed' = TRUE
    BY DEF SettleNext
<1>2. /\ UNCHANGED <<world, pc, solves, reqs, seen, solved>> /\ pc = "settle"
      /\ TypeOK /\ ~solved
    BY DEF SettleNext, IInv, AtFixpoint
<1>3. Contested(seen)' = Contested(seen)
    BY <1>2 DEF Contested
<1>4. CASE decisions[t] = Settle(t) /\ t \in DOMAIN decisions
           /\ UNCHANGED <<decisions, applied, changed>>
  <2>1. TypeOK'
      BY <1>1, <1>2, <1>4 DEF TypeOK
  <2>2. Tied'
      BY <1>1, <1>2, <1>3, <1>4 DEF IInv, Tied, FitsSeen
  <2>3. FlipsStand' /\ SettlementHolds' /\ ForcedForAReason'
      BY <1>2, <1>4, PropertiesSame DEF IInv
  <2>4. AtFixpoint'
    <3> SUFFICES ASSUME ~changed
                 PROVE  Steady'
        BY <1>2, <1>4 DEF AtFixpoint
    <3>1. Steady
        BY <1>2 DEF IInv, AtFixpoint
    <3>2. \A u : Settle(u)' = Settle(u) /\ Recorded(Plan, u)' = Recorded(Plan, u)
        BY <1>2, <1>4, SettleSame, PlanSame
    <3> QED BY <1>1, <1>2, <1>3, <1>4, <3>1, <3>2 DEF Steady
  <2> QED BY <2>1, <2>2, <2>3, <2>4 DEF IInv
<1>5. ASSUME NEW flips \in Flips(Settle(t)),
             decisions' = With(decisions, Only(t, Settle(t))),
             applied' = Enforced(t, Settle(t), flips), changed' = TRUE
      PROVE  IInv'
  <2>1. Decides(t, flips)
      BY <1>2, <1>5 DEF Decides
  <2>2. TypeOK'
      BY <1>1, <1>2, <1>5, <2>1, DecidedType DEF TypeOK
  <2>3. Tied'
    <3>1. DOMAIN decisions' \subseteq Contested(seen) /\ \A u \in DOMAIN decisions' : FitsSeen(u)'
        BY <2>1, DecidedFits
    <3> QED BY <1>1, <1>2, <1>3, <3>1 DEF IInv, Tied
  <2>4. FlipsStand' /\ SettlementHolds' /\ ForcedForAReason'
      BY <2>1, DecidedFlips, DecidedHolds, DecidedReason
  <2>5. AtFixpoint'
      BY <1>2, <1>5 DEF AtFixpoint
  <2> QED BY <2>2, <2>3, <2>4, <2>5 DEF IInv
<1> QED BY <1>1, <1>4, <1>5

(* What is forced now was asked for in the last solve, and was free.       *)
LEMMA ApplyInv == ASSUME IInv, Apply PROVE IInv'
<1> DEFINE new == Targeted \ (DOMAIN world.config \cup DOMAIN decisions \cup DOMAIN applied)
<1>1. /\ pc = "settle" /\ todo = {}
      /\ applied' = [t \in DOMAIN applied \cup new |->
                        IF t \in new THEN \E d \in reqs[t] : d.enable ELSE applied[t]]
      /\ solved' = (new = {} /\ ~changed)
      /\ pc' = IF solved' THEN "done" ELSE "solve"
      /\ UNCHANGED <<world, solves, reqs, seen, decisions, todo, changed>>
    BY DEF Apply
<1>2. TypeOK /\ Tied /\ world.iuse \subseteq Packages
    BY WorldType DEF IInv
<1>3. /\ new \subseteq Packages /\ new \cap DOMAIN decisions = {}
      /\ \A t \in new : t \in world.iuse /\ reqs[t] # {}
    BY <1>2 DEF Targeted
<1>4. /\ DOMAIN applied' = DOMAIN applied \cup new
      /\ \A t \in DOMAIN applied : applied'[t] = applied[t]
      /\ \A t \in new : t \notin DOMAIN applied /\ applied'[t] = (\E d \in reqs[t] : d.enable)
    BY <1>1
<1>5. TypeOK'
  <2>1. \A t \in DOMAIN applied' : applied'[t] \in BOOLEAN
      BY <1>2, <1>4 DEF TypeOK, IsMap
  <2>2. IsMap(applied', Packages)
      BY <1>1, <1>2, <1>3, <1>4, <2>1 DEF TypeOK, IsMap
  <2>3. solved' \in BOOLEAN /\ pc' \in {"solve", "settle", "done"}
      BY <1>1
  <2> QED BY <1>1, <1>2, <2>2, <2>3 DEF TypeOK
<1>6. Contested(seen)' = Contested(seen)
    BY <1>1 DEF Contested
<1>7. Tied'
    BY <1>1, <1>2, <1>6 DEF Tied, FitsSeen
<1>8. Matched' = Matched /\ \A t : Followed(t)' = Followed(t)
    BY <1>1 DEF Matched, Followed
<1>9. FlipsStand'
  <2>1. \A t, d : Unsure(t, d)' <=> Unsure(t, d)
      BY <1>1, <1>8 DEF Unsure, ParentValueToAgree
  <2> SUFFICES ASSUME NEW t \in Matched, NEW d \in decisions[t].flipped, ~Unsure(t, d)
               PROVE  d.parent \in DOMAIN applied' /\ applied'[d.parent] = ParentValueToAgree(d)
      BY <1>1, <1>8, <2>1 DEF FlipsStand, ParentValueToAgree
  <2>2. d.parent \in DOMAIN applied /\ applied[d.parent] = ParentValueToAgree(d)
      BY DEF IInv, FlipsStand
  <2> QED BY <1>4, <2>2
<1>10. SettlementHolds'
  <2>1. Yielding' = Yielding
      BY <1>1, <1>8 DEF Yielding
  <2> QED BY <1>1, <1>3, <1>4, <1>8, <2>1 DEF IInv, SettlementHolds
<1>11. ForcedForAReason'
  <2> SUFFICES ASSUME NEW t \in DOMAIN applied'
               PROVE  \/ \E d \in seen'[t] : d.enable = applied'[t]
                      \/ \E u \in Matched' : \E d \in decisions'[u].flipped :
                            d.parent = t /\ applied'[t] = ParentValueToAgree(d)
      BY DEF ForcedForAReason
  <2>1. CASE t \in DOMAIN applied
    <3>1. applied'[t] = applied[t]
        BY <1>4, <2>1
    <3>2. \/ \E d \in seen[t] : d.enable = applied[t]
          \/ \E u \in Matched : \E d \in decisions[u].flipped :
                d.parent = t /\ applied[t] = ParentValueToAgree(d)
        BY <2>1 DEF IInv, ForcedForAReason
    <3> QED BY <1>1, <1>8, <3>1, <3>2
  <2>2. CASE t \in new
    <3>1. reqs[t] \subseteq seen[t] /\ reqs[t] \subseteq Demand /\ reqs[t] # {}
        BY <1>2, <1>3, <2>2 DEF Tied, TypeOK
    <3>2. \A d \in reqs[t] : d.enable \in BOOLEAN
        BY <3>1 DEF Demand
    <3>3. CASE \E d \in reqs[t] : d.enable
      <4>1. PICK d \in reqs[t] : d.enable = TRUE
          BY <3>2, <3>3
      <4>2. applied'[t] = TRUE
          BY <1>4, <2>2, <3>3
      <4> QED BY <1>1, <3>1, <4>1, <4>2
    <3>4. CASE ~\E d \in reqs[t] : d.enable
      <4>1. PICK d \in reqs[t] : d.enable = FALSE
          BY <3>1, <3>2, <3>4
      <4>2. applied'[t] = FALSE
          BY <1>4, <2>2, <3>4
      <4> QED BY <1>1, <3>1, <4>1, <4>2
    <3> QED BY <3>3, <3>4
  <2> QED BY <1>4, <2>1, <2>2
<1>12. AtFixpoint'
  <2>1. pc' # "settle"
      BY <1>1
  <2>2. ASSUME solved'
        PROVE  /\ pc' = "done" /\ todo' = {} /\ Steady'
               /\ Targeted' \subseteq DOMAIN world'.config \cup DOMAIN decisions'
                                       \cup DOMAIN applied'
    <3>1. new = {} /\ ~changed /\ pc' = "done"
        BY <1>1, <2>2
    <3>2. applied' = applied
        BY <1>1, <1>2, <3>1 DEF TypeOK, IsMap
    <3>3. Steady
        BY <1>1, <3>1 DEF IInv, AtFixpoint
    <3>4. \A u : Settle(u)' = Settle(u) /\ Recorded(Plan, u)' = Recorded(Plan, u)
        BY <1>1, <3>2, SettleSame, PlanSame
    <3>5. Steady'
        BY <1>1, <1>6, <3>3, <3>4 DEF Steady
    <3>6. Targeted' = Targeted
        BY <1>1 DEF Targeted
    <3> QED BY <1>1, <3>1, <3>2, <3>5, <3>6
  <2> QED BY <2>1, <2>2 DEF AtFixpoint
<1> QED BY <1>5, <1>7, <1>9, <1>10, <1>11, <1>12 DEF IInv

LEMMA StepInv == ASSUME IInv, [Next]_vars PROVE IInv'
<1>1. CASE Next
    BY <1>1, SolveInv, SolveFailsInv, SettleInv, ApplyInv DEF Next
<1>2. CASE UNCHANGED vars
  <2>1. UNCHANGED <<world, applied, seen, decisions, reqs, todo, pc, solves, changed, solved>>
      BY <1>2 DEF vars
  <2>2. TypeOK' /\ Contested(seen)' = Contested(seen) /\ Targeted' = Targeted
      BY <2>1 DEF IInv, TypeOK, Contested, Targeted
  <2>3. Tied'
      BY <2>1, <2>2 DEF IInv, Tied, FitsSeen
  <2>4. FlipsStand' /\ SettlementHolds' /\ ForcedForAReason'
      BY <2>1, PropertiesSame DEF IInv
  <2>5. \A u : Settle(u)' = Settle(u) /\ Recorded(Plan, u)' = Recorded(Plan, u)
      BY <2>1, SettleSame, PlanSame
  <2>6. Steady' <=> Steady
      BY <2>1, <2>2, <2>5 DEF Steady
  <2>7. AtFixpoint'
      BY <2>1, <2>2, <2>6 DEF IInv, AtFixpoint
  <2> QED BY <2>2, <2>3, <2>4, <2>7 DEF IInv
<1> QED BY <1>1, <1>2

-----------------------------------------------------------------------------
(* A dependency still violated at the fixpoint has its demand on record.   *)
(* Its target is not contested: then it was forced the other way, which    *)
(* nobody asked for, so it was flipped.  Or it was settled the other way   *)
(* and its parent flipped, so the parent no longer asks.                   *)
LEMMA InvExplained == IInv => Explained
<1> SUFFICES ASSUME IInv, solved, NEW d \in world.deps, Violated(d), d.to \in world.iuse,
                    d.to \notin DOMAIN world.config \cup DOMAIN world.fixed,
                    d.to \notin Conflicts \cup Entangled
             PROVE  FALSE
    BY DEF Explained
<1> DEFINE t == d.to
<1>1. /\ TypeOK /\ Tied /\ Steady /\ todo = {}
      /\ Targeted \subseteq DOMAIN world.config \cup DOMAIN decisions \cup DOMAIN applied
    BY DEF IInv, AtFixpoint
<1>2. t \in Packages /\ Effective(t) \in BOOLEAN
    BY <1>1, WorldType, EffectiveType
<1>3. PICK v \in BOOLEAN : v # Effective(t)
    BY <1>2
<1>4. reqs[t] \in Recorded(Plan, t)
    BY <1>1, <1>2 DEF Steady
<1>5. PICK x \in reqs[t] : x \in Demands(Plan, t, v)
    BY <1>1, <1>3, <1>4, ViolationRecorded
<1>6. x \in seen[t] /\ x.enable = v /\ x \in Demand
    BY <1>1, <1>3, <1>5, DemandsType DEF Tied
<1>7. t \in DOMAIN decisions \cup DOMAIN applied
    BY <1>1, <1>5 DEF Targeted
<1>8. CASE t \in DOMAIN decisions
  <2>1. t \in Matched /\ t \notin Yielding /\ ~\E e \in decisions[t].flipped : Unsure(t, e)
      BY <1>8 DEF Conflicts, Entangled
  <2>2. t \in DOMAIN applied /\ applied[t] = decisions[t].enable
      BY <1>8, <2>1 DEF IInv, SettlementHolds
  <2>3. decisions[t] = Settle(t) /\ Settle(t).matched
      BY <1>1, <1>8, <2>1 DEF Steady, Tied, Matched
  <2>4. Effective(t) = Settle(t).enable
      BY <2>2, <2>3 DEF Effective
  <2>5. x \in Settle(t).flipped /\ Follows(x) /\ PinOf(x) = "none"
      BY <1>1, <1>2, <1>3, <1>6, <2>3, <2>4, SettleShape
  <2>6. /\ x.parent \in DOMAIN applied /\ applied[x.parent] = ParentValueToAgree(x)
        /\ x.parent \in world.iuse
      BY <2>1, <2>3, <2>5 DEF IInv, FlipsStand, Unsure
  <2>7. x.parent \notin DOMAIN world.fixed
      BY <2>5 DEF PinOf
  <2> QED BY <1>1, <1>3, <1>5, <2>5, <2>6, <2>7, GaveWay
<1>9. CASE t \notin DOMAIN decisions
  <2>1. t \in DOMAIN applied /\ Effective(t) = applied[t]
      BY <1>7, <1>9 DEF Effective
  <2>2. CASE \E y \in seen[t] : y.enable = applied[t]
    <3>1. t \in Contested(seen)
        BY <1>1, <1>2, <1>3, <1>6, <2>1, <2>2, BothWays DEF TypeOK
    <3> QED BY <1>1, <1>9, <3>1 DEF Steady
  <2>3. CASE \E u \in Matched : \E y \in decisions[u].flipped : y.parent = t
      BY <2>3 DEF Entangled, Flipped, Parents
  <2> QED BY <2>1, <2>2, <2>3 DEF IInv, ForcedForAReason
<1> QED BY <1>8, <1>9

-----------------------------------------------------------------------------
(* The parts of the invariant hold in every state of the loop.             *)
LEMMA InvariantHolds == Spec => []IInv
<1>1. Init => IInv
    BY InitInv
<1>2. IInv /\ [Next]_vars => IInv'
    BY StepInv
<1> QED BY <1>1, <1>2, PTL DEF Spec

(* cosolve_use_deps keeps its maps well-formed: only packages' flags are   *)
(* forced, only demands of dependencies are seen and flipped.              *)
THEOREM CosolveTypes == Spec => []TypeOK
<1>1. IInv => TypeOK
    BY DEF IInv
<1> QED BY <1>1, InvariantHolds, PTL

(* Whenever cosolve_use_deps ends with a solution, each USE dependency     *)
(* that the plan violates is on a flag without IUSE, held, reported as a   *)
(* conflict, or entangled with another settlement.                         *)
THEOREM FixpointExplained == Spec => []Explained
<1> QED BY InvExplained, InvariantHolds, PTL

(* A flag demanded both ways that no other one follows is forced to what   *)
(* it was settled to, or not at all when it is reported as a conflict,     *)
(* whatever else is settled, flipped and released since.                   *)
THEOREM SettledStays == Spec => []SettlementHolds
<1>1. IInv => SettlementHolds
    BY DEF IInv
<1> QED BY <1>1, InvariantHolds, PTL

(* cosolve_use_deps forces no flag but to what some dependency demanded,   *)
(* or to what a flag settled by flipping it needs.                         *)
THEOREM NothingForcedIdly == Spec => []ForcedForAReason
<1>1. IInv => ForcedForAReason
    BY DEF IInv
<1> QED BY <1>1, InvariantHolds, PTL

-----------------------------------------------------------------------------
(* The ranges.  For any versions, repository and order: each known version *)
(* lands on its side.  The operators on versions stay as they are,         *)
(* unexpanded: the argument needs only that matching looks at nothing but  *)
(* the key.                                                                *)

(* A key is only added when it matches, and only cut when it does not and  *)
(* the range is not said to be exact: so no later correction undoes one,   *)
(* not even of a version spelt differently with the same key.              *)
Corrected ==
    /\ unjudged # {} => dep.op = "=*"
    /\ \A k \in added : GlobMatches(k, dep.v)
    /\ \A k \in cut : ~GlobMatches(k, dep.v) /\ ~GlobBoundsExact(dep.v)

RangeInv == Corrected /\ KnownSettled

LEMMA RangeInit == VSInit => RangeInv
<1> SUFFICES ASSUME VSInit PROVE RangeInv
    OBVIOUS
<1>1. Corrected
    BY DEF VSInit, Corrected
<1>2. KnownSettled
    BY DEF VSInit, KnownSettled
<1> QED BY <1>1, <1>2 DEF RangeInv

(* What is known of one version after candidate c, from what the step did. *)
LEMMA RangeStep == ASSUME RangeInv, NEW c \in unjudged, Candidate(c) PROVE RangeInv'
<1> DEFINE match == GlobMatches(Key(c), dep.v)
<1> DEFINE inside == InRange(c)
<1>1. /\ dep' = dep /\ known' = known /\ unjudged' = unjudged \ {c}
      /\ dep.op = "=*"
    BY DEF Candidate, RangeInv, Corrected
<1>2. CASE inside /\ GlobBoundsExact(dep.v)
  <2>1. added' = added /\ cut' = cut
      BY <1>2 DEF Candidate
  <2>2. Corrected'
      BY <1>1, <2>1 DEF Corrected, RangeInv
  <2>3. GlobMatches(Key(c), dep.v) \/ FromOperator("=*", dep.v, c)
      BY <1>1, <1>2 DEF InRange, RangeInv, Corrected
  <2>4. KnownSettled'
      BY <1>1, <1>2, <2>1, <2>3 DEF KnownSettled, RangeInv, InRange
  <2> QED BY <2>2, <2>4 DEF RangeInv
<1>3. CASE ~(inside /\ GlobBoundsExact(dep.v)) /\ inside /\ ~match
  <2>1. added' = added /\ cut' = cut \cup {Key(c)}
      BY <1>3 DEF Candidate
  <2>2. Corrected'
      BY <1>1, <1>3, <2>1 DEF Corrected, RangeInv
  <2>3. Key(c) \notin added
      BY <1>3 DEF Corrected, RangeInv
  <2>4. KnownSettled'
      BY <1>1, <1>3, <2>1, <2>3 DEF KnownSettled, RangeInv, InRange
  <2> QED BY <2>2, <2>4 DEF RangeInv
<1>4. CASE ~inside /\ match
  <2>1. added' = added \cup {Key(c)} /\ cut' = cut
      BY <1>4 DEF Candidate
  <2>2. Corrected'
      BY <1>1, <1>4, <2>1 DEF Corrected, RangeInv
  <2>3. KnownSettled'
      BY <1>1, <1>4, <2>1 DEF KnownSettled, RangeInv, InRange
  <2> QED BY <2>2, <2>3 DEF RangeInv
<1>5. CASE ~(inside /\ GlobBoundsExact(dep.v)) /\ (inside <=> match)
  <2>1. added' = added /\ cut' = cut
      BY <1>5 DEF Candidate
  <2>2. Corrected'
      BY <1>1, <2>1 DEF Corrected, RangeInv
  <2>3. GlobBoundsExact(dep.v) => ~FromOperator("=*", dep.v, c)
      BY <1>1, <1>5 DEF InRange, RangeInv, Corrected
  <2>4. KnownSettled'
      BY <1>1, <1>5, <2>1, <2>3 DEF KnownSettled, RangeInv, InRange
  <2> QED BY <2>2, <2>4 DEF RangeInv
<1> QED BY <1>2, <1>3, <1>4, <1>5

(* from_operator_among puts each known version of a `=V*` target on its    *)
(* glob_matches side, or leaves it in a range said to be exact, whatever   *)
(* versions are known and in whatever order they come.                     *)
THEOREM EachLandsOnItsSide == VSSpec => []KnownSettled
<1>1. VSInit => RangeInv
    BY RangeInit
<1>2. RangeInv /\ [VSNext]_vsvars => RangeInv'
  <2> SUFFICES ASSUME RangeInv, [VSNext]_vsvars PROVE RangeInv'
      OBVIOUS
  <2>1. CASE VSNext
      BY <2>1, RangeStep DEF VSNext
  <2>2. CASE UNCHANGED vsvars
      BY <2>2 DEF vsvars, RangeInv, Corrected, KnownSettled, InRange
  <2> QED BY <2>1, <2>2
<1>3. RangeInv => KnownSettled
    BY DEF RangeInv
<1> QED BY <1>1, <1>2, <1>3, PTL DEF VSSpec

-----------------------------------------------------------------------------
(* The keys.  For any versions: comparing keys as bytes is comparing the   *)
(* versions by the algorithms of PMS.  Where two versions part, in a       *)
(* component, in the letter, in a suffix or in the revision, their bytes   *)
(* are the same before, and what follows is in the order of what differs,  *)
(* because no part of a key is the beginning of another: that is what the  *)
(* bytes that end the components, a zero-led component and the suffixes    *)
(* are for.                                                                *)
(* Induction, with the property as a set.                                  *)
LEMMA NatSetInduction ==
    ASSUME NEW S, 0 \in S, \A n \in Nat : n \in S => n + 1 \in S
    PROVE  \A n \in Nat : n \in S
<1> SUFFICES ASSUME Nat \ S # {} PROVE FALSE
    OBVIOUS
<1> DEFINE R == OpToRel(<, Nat)
           T == Nat \ S
<1>1. PICK x \in T : \A y \in T : ~(<<y, x>> \in R)
  <2>1. IsWellFoundedOn(R, Nat)
      BY NatLessThanWellFounded
  <2>2. T \subseteq Nat /\ T # {}
      OBVIOUS
  <2> HIDE DEF R, T
  <2> QED BY <2>1, <2>2, WFMin
<1>2. x \in Nat /\ x \notin S
    OBVIOUS
<1>3. x # 0 /\ x - 1 \in Nat /\ x - 1 < x /\ (x - 1) + 1 = x
  <2> HIDE DEF R
  <2> QED BY <1>2
<1>4. <<x - 1, x>> \in R
    BY <1>2, <1>3 DEF OpToRel
<1>5. x - 1 \in S
  <2> HIDE DEF R
  <2> QED BY <1>1, <1>3, <1>4
<1> HIDE DEF R
<1> QED BY <1>2, <1>3, <1>5

(* FlattenSeq is by recursion: first that there is such a function, then   *)
(* what it gives for one element more, for two sequences and around one    *)
(* element.                                                                *)
FlattenStep(f, s, n) ==
    f \in [1 .. n -> Seq(Int)]
    /\ \A i \in 1 .. n : f[i] = IF i = 1 THEN s[i] ELSE f[i - 1] \o s[i]

LEMMA FlattenExists ==
    ASSUME NEW s \in Seq(Seq(Int))
    PROVE  \A n \in Nat : n <= Len(s) => \E f : FlattenStep(f, s, n)
<1> DEFINE S == {n \in Nat : n <= Len(s) => \E f : FlattenStep(f, s, n)}
<1>1. 0 \in S
  <2>1. FlattenStep([i \in 1 .. 0 |-> <<>>], s, 0)
      BY DEF FlattenStep
  <2> QED BY <2>1
<1>2. ASSUME NEW n \in Nat, n \in S PROVE n + 1 \in S
  <2> SUFFICES ASSUME n + 1 <= Len(s) PROVE \E f : FlattenStep(f, s, n + 1)
      OBVIOUS
  <2>1. PICK f : FlattenStep(f, s, n)
      BY <1>2
  <2>2. s[n + 1] \in Seq(Int) /\ s[1] \in Seq(Int)
      OBVIOUS
  <2> DEFINE e == IF n + 1 = 1 THEN s[n + 1] ELSE f[n] \o s[n + 1]
             g == [i \in 1 .. n + 1 |-> IF i = n + 1 THEN e ELSE f[i]]
  <2>3. e \in Seq(Int)
    <3>1. n + 1 # 1 => f[n] \in Seq(Int)
        BY <2>1 DEF FlattenStep
    <3> QED BY <2>2, <3>1
  <2>4. g \in [1 .. n + 1 -> Seq(Int)]
      BY <2>1, <2>3 DEF FlattenStep
  <2>5. \A i \in 1 .. n + 1 : g[i] = IF i = 1 THEN s[i] ELSE g[i - 1] \o s[i]
    <3> SUFFICES ASSUME NEW i \in 1 .. n + 1
                 PROVE  g[i] = IF i = 1 THEN s[i] ELSE g[i - 1] \o s[i]
        OBVIOUS
    <3>1. CASE i = n + 1
      <4>1. i # 1 => g[i - 1] = f[n]
          BY <3>1
      <4> QED BY <3>1, <4>1
    <3>2. CASE i # n + 1
      <4>1. i \in 1 .. n /\ g[i] = f[i]
          BY <3>2
      <4>2. i # 1 => i - 1 \in 1 .. n + 1 /\ g[i - 1] = f[i - 1]
          BY <3>2
      <4> HIDE DEF g
      <4> QED BY <2>1, <4>1, <4>2 DEF FlattenStep
    <3> QED BY <3>1, <3>2
  <2> HIDE DEF g
  <2> QED BY <2>4, <2>5 DEF FlattenStep
<1>3. \A n \in Nat : n \in S
  <2> HIDE DEF S
  <2> QED BY <1>1, <1>2, NatSetInduction
<1> QED BY <1>3

LEMMA FlattenDef ==
    ASSUME NEW s \in Seq(Seq(Int)), s # <<>>
    PROVE  \E f : FlattenStep(f, s, Len(s)) /\ FlattenSeq(s) = f[Len(s)]
<1> DEFINE F == CHOOSE f : f = [i \in 1 .. Len(s) |-> IF i = 1 THEN s[i] ELSE f[i - 1] \o s[i]]
<1>1. FlattenSeq(s) = F[Len(s)]
    BY DEF FlattenSeq
<1>2. \E f : f = [i \in 1 .. Len(s) |-> IF i = 1 THEN s[i] ELSE f[i - 1] \o s[i]]
  <2>1. PICK f : FlattenStep(f, s, Len(s))
    <3>1. Len(s) \in Nat /\ Len(s) <= Len(s)
        BY LenProperties
    <3> QED BY <3>1, FlattenExists
  <2>2. f = [i \in 1 .. Len(s) |-> IF i = 1 THEN s[i] ELSE f[i - 1] \o s[i]]
      BY <2>1 DEF FlattenStep
  <2> QED BY <2>2
<1>3. F = [i \in 1 .. Len(s) |-> IF i = 1 THEN s[i] ELSE F[i - 1] \o s[i]]
    BY <1>2
<1> HIDE DEF F
<1> DEFINE S == {n \in Nat : n \in 1 .. Len(s) => F[n] \in Seq(Int)}
<1>4. \A n \in Nat : n \in S
  <2>1. 0 \in S
      OBVIOUS
  <2>2. ASSUME NEW n \in Nat, n \in S PROVE n + 1 \in S
    <3> SUFFICES ASSUME n + 1 <= Len(s) PROVE F[n + 1] \in Seq(Int)
        OBVIOUS
    <3>1. F[n + 1] = IF n + 1 = 1 THEN s[n + 1] ELSE F[(n + 1) - 1] \o s[n + 1]
      <4>1. n + 1 \in 1 .. Len(s)
          OBVIOUS
      <4> QED BY <1>3, <4>1
    <3>2. (n + 1) - 1 = n /\ s[n + 1] \in Seq(Int)
        OBVIOUS
    <3>3. n # 0 => F[n] \in Seq(Int)
        BY <2>2
    <3> QED BY <3>1, <3>2, <3>3
  <2> HIDE DEF S
  <2> QED BY <2>1, <2>2, NatSetInduction
<1>5. \A i \in 1 .. Len(s) : F[i] \in Seq(Int)
    BY <1>4
<1>6. FlattenStep(F, s, Len(s))
    BY <1>3, <1>5 DEF FlattenStep
<1> QED BY <1>1, <1>6

LEMMA FlattenEmpty == FlattenSeq(<<>>) = <<>>
    BY DEF FlattenSeq

LEMMA FlattenType == ASSUME NEW s \in Seq(Seq(Int)) PROVE FlattenSeq(s) \in Seq(Int)
<1>1. CASE s = <<>>
    BY <1>1, FlattenEmpty, EmptySeq
<1>2. CASE s # <<>>
  <2>1. PICK f : FlattenStep(f, s, Len(s)) /\ FlattenSeq(s) = f[Len(s)]
      BY <1>2, FlattenDef
  <2>2. Len(s) \in 1 .. Len(s)
    <3>1. Len(s) \in Nat /\ Len(s) # 0
        BY <1>2, LenProperties, EmptySeq
    <3> QED BY <3>1
  <2>3. f[Len(s)] \in Seq(Int)
      BY <2>1, <2>2 DEF FlattenStep
  <2> QED BY <2>1, <2>3
<1> QED BY <1>1, <1>2

LEMMA FlattenAppend ==
    ASSUME NEW s \in Seq(Seq(Int)), NEW e \in Seq(Int)
    PROVE  FlattenSeq(Append(s, e)) = FlattenSeq(s) \o e
<1> DEFINE t == Append(s, e)
           n == Len(s)
<1>1. n \in Nat /\ (s # <<>> => n # 0) /\ (s = <<>> => n = 0)
    BY LenProperties, EmptySeq
<1>2. /\ t \in Seq(Seq(Int)) /\ t # <<>> /\ Len(t) = n + 1 /\ t[n + 1] = e
      /\ \A i \in 1 .. n : t[i] = s[i]
    BY AppendProperties
<1> HIDE DEF t, n
<1>3. PICK g : FlattenStep(g, t, n + 1) /\ FlattenSeq(t) = g[n + 1]
  <2>1. \E f : FlattenStep(f, t, Len(t)) /\ FlattenSeq(t) = f[Len(t)]
      BY <1>2, FlattenDef
  <2> QED BY <1>2, <2>1
<1>4. g[n + 1] = IF n = 0 THEN e ELSE g[n] \o e
  <2>1. n + 1 \in 1 .. n + 1 /\ (n + 1) - 1 = n /\ (n + 1 = 1 <=> n = 0)
      BY <1>1
  <2> QED BY <1>2, <1>3, <2>1 DEF FlattenStep
<1>5. CASE s = <<>>
  <2>1. n = 0 /\ FlattenSeq(s) = <<>>
      BY <1>1, <1>5, FlattenEmpty
  <2> QED BY <1>3, <1>4, <2>1 DEF t
<1>6. CASE s # <<>>
  <2>1. PICK f : FlattenStep(f, s, n) /\ FlattenSeq(s) = f[n]
      BY <1>6, FlattenDef DEF n
  <2>2. n \in 1 .. n /\ n # 0 /\ n <= n + 1 /\ n + 1 \in Nat
      BY <1>6, <1>1
  <2> DEFINE S == {i \in Nat : i \in 1 .. n => f[i] = g[i]}
  <2>3. 0 \in S
      OBVIOUS
  <2>4. ASSUME NEW i \in Nat, i \in S PROVE i + 1 \in S
    <3> SUFFICES ASSUME i + 1 <= n PROVE f[i + 1] = g[i + 1]
        BY <1>1
    <3>1. i + 1 \in 1 .. n /\ i + 1 \in 1 .. n + 1 /\ (i + 1) - 1 = i
        BY <1>1
    <3>2. /\ f[i + 1] = IF i + 1 = 1 THEN s[i + 1] ELSE f[(i + 1) - 1] \o s[i + 1]
          /\ g[i + 1] = IF i + 1 = 1 THEN t[i + 1] ELSE g[(i + 1) - 1] \o t[i + 1]
        BY <1>3, <2>1, <3>1 DEF FlattenStep
    <3>3. s[i + 1] = t[i + 1] /\ (i + 1 # 1 => f[i] = g[i])
        BY <1>1, <1>2, <2>4, <3>1
    <3> QED BY <3>1, <3>2, <3>3
  <2>5. f[n] = g[n]
    <3>1. \A i \in Nat : i \in S
      <4> HIDE DEF S
      <4> QED BY <2>3, <2>4, NatSetInduction
    <3> QED BY <1>1, <2>2, <3>1
  <2> QED BY <1>3, <1>4, <2>1, <2>2, <2>5 DEF t
<1> QED BY <1>5, <1>6

(* The same for sequences, by their length.                                *)
LEMMA SeqSetInduction ==
    ASSUME NEW E, NEW S, <<>> \in S, \A s \in Seq(E), e \in E : s \in S => Append(s, e) \in S
    PROVE  \A s \in Seq(E) : s \in S
<1> DEFINE T == {n \in Nat : \A s \in Seq(E) : Len(s) = n => s \in S}
<1>1. 0 \in T
    BY EmptySeq
<1>2. ASSUME NEW n \in Nat, n \in T PROVE n + 1 \in T
  <2> SUFFICES ASSUME NEW s \in Seq(E), Len(s) = n + 1 PROVE s \in S
      OBVIOUS
  <2>1. s # <<>>
      BY EmptySeq
  <2>2. PICK r \in Seq(E), e \in E : s = Append(r, e)
      BY <2>1, SequenceEmptyOrAppend
  <2>3. Len(r) = n
      BY <2>2, AppendProperties, LenProperties
  <2> QED BY <1>2, <2>2, <2>3
<1>3. \A n \in Nat : n \in T
  <2> HIDE DEF T
  <2> QED BY <1>1, <1>2, NatSetInduction
<1> QED BY <1>3, LenProperties

LEMMA IntsAssociative == \A s, t, u \in Seq(Int) : (s \o t) \o u = s \o (t \o u)
<1> SUFFICES ASSUME NEW s \in Seq(Int), NEW t \in Seq(Int), NEW u \in Seq(Int)
             PROVE  (s \o t) \o u = s \o (t \o u)
    OBVIOUS
<1> QED BY ConcatAssociative

LEMMA FlattenConcat ==
    ASSUME NEW s \in Seq(Seq(Int)), NEW t \in Seq(Seq(Int))
    PROVE  FlattenSeq(s \o t) = FlattenSeq(s) \o FlattenSeq(t)
<1> DEFINE S == {r \in Seq(Seq(Int)) : FlattenSeq(s \o r) = FlattenSeq(s) \o FlattenSeq(r)}
<1>1. <<>> \in S
  <2>1. s \o <<>> = s /\ <<>> \in Seq(Seq(Int)) /\ FlattenSeq(s) \o <<>> = FlattenSeq(s)
      BY ConcatEmptySeq, EmptySeq, FlattenType
  <2> QED BY <2>1, FlattenEmpty
<1>2. ASSUME NEW r \in Seq(Seq(Int)), NEW e \in Seq(Int), r \in S PROVE Append(r, e) \in S
  <2>1. s \o Append(r, e) = Append(s \o r, e)
    <3>1. /\ Append(r, e) = r \o <<e>> /\ Append(s \o r, e) = (s \o r) \o <<e>>
          /\ <<e>> \in Seq(Seq(Int))
        BY AppendIsConcat, ConcatProperties
    <3> QED BY <3>1, ConcatAssociative
  <2>2. FlattenSeq(Append(s \o r, e)) = FlattenSeq(s \o r) \o e
      BY FlattenAppend, ConcatProperties
  <2>3. (FlattenSeq(s) \o FlattenSeq(r)) \o e = FlattenSeq(s) \o (FlattenSeq(r) \o e)
    <3>1. FlattenSeq(s) \in Seq(Int) /\ FlattenSeq(r) \in Seq(Int)
        BY FlattenType
    <3> QED BY <3>1, IntsAssociative
  <2>4. FlattenSeq(Append(r, e)) = FlattenSeq(r) \o e /\ Append(r, e) \in Seq(Seq(Int))
      BY FlattenAppend, AppendProperties
  <2> QED BY <1>2, <2>1, <2>2, <2>3, <2>4
<1>3. \A r \in Seq(Seq(Int)) : r \in S
  <2> HIDE DEF S
  <2> QED BY <1>1, <1>2, SeqSetInduction
<1> QED BY <1>3

LEMMA FlattenSplit ==
    ASSUME NEW s \in Seq(Seq(Int)), NEW i \in 1 .. Len(s)
    PROVE  /\ FlattenSeq(s) = FlattenSeq(SubSeq(s, 1, i - 1))
                               \o (s[i] \o FlattenSeq(SubSeq(s, i + 1, Len(s))))
           /\ FlattenSeq(SubSeq(s, 1, i - 1)) \in Seq(Int)
           /\ FlattenSeq(SubSeq(s, i + 1, Len(s))) \in Seq(Int)
           /\ s[i] \in Seq(Int)
<1> DEFINE a == SubSeq(s, 1, i - 1)
           b == SubSeq(s, i + 1, Len(s))
<1>1. s[i] \in Seq(Int) /\ Len(s) \in Nat /\ \A j \in 1 .. Len(s) : s[j] \in Seq(Int)
    BY ElementOfSeq, LenProperties
<1>2. a \in Seq(Seq(Int)) /\ b \in Seq(Seq(Int)) /\ <<s[i]>> \in Seq(Seq(Int))
    BY <1>1, SubSeqProperties
<1>3. s = a \o (<<s[i]>> \o b)
  <2>1. <<s[i]>> \o b = SubSeq(s, i, Len(s))
    <3>1. Len(s) \in i .. Len(s)
        BY <1>1
    <3> QED BY <3>1, SubSeqRecursiveFirst
  <2>2. a \o SubSeq(s, i, Len(s)) = SubSeq(s, 1, Len(s))
    <3>1. 1 \in 1 .. Len(s) + 1 /\ i - 1 \in 0 .. Len(s) /\ Len(s) \in i - 1 .. Len(s)
          /\ (i - 1) + 1 = i
        BY <1>1
    <3>2. PICK k \in 0 .. Len(s) : k = i - 1
        BY <3>1
    <3>3. SubSeq(s, 1, k) \o SubSeq(s, k + 1, Len(s)) = SubSeq(s, 1, Len(s))
      <4>1. 1 \in 1 .. Len(s) + 1 /\ k \in 1 - 1 .. Len(s) /\ Len(s) \in k .. Len(s)
          BY <1>1
      <4> QED BY <4>1, ConcatAdjacentSubSeq
    <3> QED BY <3>1, <3>2, <3>3
  <2> QED BY <2>1, <2>2, SubSeqFull
<1>4. FlattenSeq(<<s[i]>>) = s[i]
  <2>1. <<s[i]>> = Append(<<>>, s[i]) /\ <<>> \in Seq(Seq(Int))
      OBVIOUS
  <2>2. FlattenSeq(Append(<<>>, s[i])) = <<>> \o s[i]
      BY <1>1, <2>1, FlattenAppend, FlattenEmpty
  <2> QED BY <1>1, <2>1, <2>2, ConcatEmptySeq
<1> HIDE DEF a, b
<1>5. <<s[i]>> \o b \in Seq(Seq(Int))
    BY <1>2, ConcatProperties
<1>6. FlattenSeq(<<s[i]>> \o b) = s[i] \o FlattenSeq(b)
    BY <1>2, <1>4, FlattenConcat
<1> QED BY <1>1, <1>2, <1>3, <1>5, <1>6, FlattenConcat, FlattenType DEF a, b

LEMMA LeastExists ==
    ASSUME NEW T, T \subseteq Nat, T # {}
    PROVE  \E x \in T : \A y \in T : x <= y
<1> DEFINE R == OpToRel(<, Nat)
<1>1. PICK x \in T : \A y \in T : ~(<<y, x>> \in R)
  <2>1. IsWellFoundedOn(R, Nat)
      BY NatLessThanWellFounded
  <2> HIDE DEF R
  <2> QED BY <2>1, WFMin
<1>2. ASSUME NEW y \in T, ~(x <= y) PROVE FALSE
  <2>1. x \in Nat /\ y \in Nat /\ y < x
    <3> HIDE DEF R
    <3> QED BY <1>2
  <2>2. <<y, x>> \in R
      BY <2>1 DEF OpToRel
  <2> HIDE DEF R
  <2> QED BY <1>1, <2>2
<1> HIDE DEF R
<1> QED BY <1>1, <1>2

(* LexLess: what is common in front does not count, the first elements     *)
(* decide when they differ, and it is a strict total order.                *)
LEMMA LexCommon ==
    ASSUME NEW p \in Seq(Int), NEW x \in Seq(Int), NEW y \in Seq(Int)
    PROVE  LexLess(p \o x, p \o y) <=> LexLess(x, y)
<1> DEFINE a == p \o x
           b == p \o y
           n == Len(p)
<1>1. /\ DOMAIN a = 1 .. n + Len(x) /\ DOMAIN b = 1 .. n + Len(y)
      /\ DOMAIN x = 1 .. Len(x) /\ DOMAIN y = 1 .. Len(y)
      /\ n \in Nat /\ Len(x) \in Nat /\ Len(y) \in Nat
    BY ConcatProperties, LenProperties
<1>2. /\ \A i \in 1 .. n : a[i] = p[i] /\ b[i] = p[i] /\ p[i] \in Int
      /\ \A i \in 1 .. Len(x) : a[n + i] = x[i]
      /\ \A i \in 1 .. Len(y) : b[n + i] = y[i]
  <2>1. \A i \in 1 .. n + Len(x) : a[i] = IF i <= n THEN p[i] ELSE x[i - n]
      BY ConcatProperties
  <2>2. \A i \in 1 .. n + Len(y) : b[i] = IF i <= n THEN p[i] ELSE y[i - n]
      BY ConcatProperties
  <2>3. \A i \in 1 .. n : p[i] \in Int
      BY ElementOfSeq
  <2> HIDE DEF a, b, n
  <2>4. \A i \in 1 .. n : a[i] = p[i] /\ b[i] = p[i]
      BY <1>1, <2>1, <2>2
  <2>5. ASSUME NEW i \in 1 .. Len(x) PROVE a[n + i] = x[i]
    <3>1. n + i \in 1 .. n + Len(x) /\ ~(n + i <= n) /\ (n + i) - n = i
        BY <1>1
    <3> QED BY <2>1, <3>1
  <2>6. ASSUME NEW i \in 1 .. Len(y) PROVE b[n + i] = y[i]
    <3>1. n + i \in 1 .. n + Len(y) /\ ~(n + i <= n) /\ (n + i) - n = i
        BY <1>1
    <3> QED BY <2>2, <3>1
  <2> QED BY <2>3, <2>4, <2>5, <2>6
<1> HIDE DEF a, b, n
<1>3. ASSUME LexLess(a, b) PROVE LexLess(x, y)
  <2>1. PICK i \in DOMAIN b : /\ \A j \in 1 .. i - 1 : j \in DOMAIN a /\ a[j] = b[j]
                              /\ i \in DOMAIN a => a[i] < b[i]
      BY <1>3 DEF LexLess
  <2>2. i > n
    <3> SUFFICES ASSUME i <= n PROVE FALSE
        BY <1>1
    <3>1. i \in 1 .. n /\ i \in DOMAIN a
        BY <1>1
    <3>2. a[i] < b[i]
        BY <2>1, <3>1
    <3>3. a[i] = p[i] /\ b[i] = p[i] /\ p[i] \in Int
        BY <1>2, <3>1
    <3>4. p[i] < p[i]
        BY <3>2, <3>3
    <3> QED BY <3>3, <3>4
  <2>3. PICK k \in 1 .. Len(y) : i = n + k
    <3>1. i - n \in 1 .. Len(y) /\ i = n + (i - n)
        BY <1>1, <2>2
    <3> QED BY <3>1
  <2>4. ASSUME NEW j \in 1 .. k - 1 PROVE j \in DOMAIN x /\ x[j] = y[j]
    <3>1. n + j \in 1 .. i - 1 /\ j \in 1 .. Len(y)
        BY <1>1, <2>3
    <3>2. n + j \in DOMAIN a /\ a[n + j] = b[n + j]
        BY <2>1, <3>1
    <3>3. j \in 1 .. Len(x)
        BY <1>1, <3>2
    <3> QED BY <1>1, <1>2, <3>1, <3>2, <3>3
  <2>5. k \in DOMAIN x => x[k] < y[k]
    <3> SUFFICES ASSUME k \in 1 .. Len(x) PROVE x[k] < y[k]
        BY <1>1
    <3>1. a[n + k] < b[n + k]
        BY <1>1, <2>1, <2>3
    <3> QED BY <1>2, <3>1
  <2> QED BY <1>1, <2>4, <2>5 DEF LexLess
<1>4. ASSUME LexLess(x, y) PROVE LexLess(a, b)
  <2>1. PICK k \in DOMAIN y : /\ \A j \in 1 .. k - 1 : j \in DOMAIN x /\ x[j] = y[j]
                              /\ k \in DOMAIN x => x[k] < y[k]
      BY <1>4 DEF LexLess
  <2>2. n + k \in DOMAIN b
      BY <1>1
  <2>3. ASSUME NEW j \in 1 .. (n + k) - 1 PROVE j \in DOMAIN a /\ a[j] = b[j]
    <3>1. CASE j <= n
        BY <1>1, <1>2, <3>1
    <3>2. CASE j > n
      <4>1. PICK l \in 1 .. k - 1 : j = n + l
          BY <1>1, <3>2
      <4>2. l \in 1 .. Len(x) /\ l \in 1 .. Len(y) /\ x[l] = y[l]
          BY <1>1, <2>1, <4>1
      <4> QED BY <1>1, <1>2, <4>1, <4>2
    <3> QED BY <1>1, <3>1, <3>2
  <2>4. n + k \in DOMAIN a => a[n + k] < b[n + k]
    <3> SUFFICES ASSUME n + k \in DOMAIN a PROVE a[n + k] < b[n + k]
        OBVIOUS
    <3>1. k \in 1 .. Len(x) /\ k \in 1 .. Len(y)
        BY <1>1
    <3> QED BY <1>1, <1>2, <2>1, <3>1
  <2> QED BY <2>2, <2>3, <2>4 DEF LexLess
<1> QED BY <1>3, <1>4 DEF a, b

LEMMA LexHead ==
    ASSUME NEW a \in Int, NEW b \in Int, NEW x \in Seq(Int), NEW y \in Seq(Int)
    PROVE  LexLess(<<a>> \o x, <<b>> \o y) <=> a < b \/ (a = b /\ LexLess(x, y))
<1> DEFINE s == <<a>> \o x
           t == <<b>> \o y
<1>1. <<a>> \in Seq(Int) /\ <<b>> \in Seq(Int)
    OBVIOUS
<1>2. CASE a = b
  <2>1. LexLess(s, t) <=> LexLess(x, y)
      BY <1>1, <1>2, LexCommon
  <2> QED BY <1>2, <2>1
<1>3. CASE a # b
  <2>1. /\ 1 \in DOMAIN s /\ 1 \in DOMAIN t /\ s[1] = a /\ t[1] = b
        /\ DOMAIN t \subseteq Nat \ {0}
      BY <1>1, ConcatProperties, LenProperties
  <2> HIDE DEF s, t
  <2>2. LexLess(s, t) => a < b
    <3> SUFFICES ASSUME LexLess(s, t) PROVE a < b
        OBVIOUS
    <3>1. PICK i \in DOMAIN t : /\ \A j \in 1 .. i - 1 : j \in DOMAIN s /\ s[j] = t[j]
                                /\ i \in DOMAIN s => s[i] < t[i]
        BY DEF LexLess
    <3>2. ~(1 \in 1 .. i - 1)
        BY <1>3, <2>1, <3>1
    <3>3. i = 1
        BY <2>1, <3>2
    <3> QED BY <2>1, <3>1, <3>3
  <2>3. a < b => LexLess(s, t)
      BY <2>1 DEF LexLess
  <2> QED BY <1>3, <2>2, <2>3 DEF s, t
<1> QED BY <1>2, <1>3

LEMMA LexEmpty ==
    ASSUME NEW x \in Seq(Int)
    PROVE  ~LexLess(x, <<>>) /\ (LexLess(<<>>, x) <=> x # <<>>)
<1>1. DOMAIN <<>> = {} /\ DOMAIN x = 1 .. Len(x) /\ Len(x) \in Nat
    BY LenProperties
<1>2. x # <<>> => 1 \in DOMAIN x
    BY <1>1, EmptySeq
<1>3. x = <<>> => DOMAIN x = {}
    BY <1>1
<1>4. (1 .. 1 - 1) = {}
    OBVIOUS
<1> QED BY <1>1, <1>2, <1>3, <1>4 DEF LexLess

LEMMA LexAsymmetric ==
    ASSUME NEW x \in Seq(Int), NEW y \in Seq(Int), LexLess(x, y)
    PROVE  ~LexLess(y, x)
<1> SUFFICES ASSUME LexLess(y, x) PROVE FALSE
    OBVIOUS
<1>1. PICK i \in DOMAIN y : /\ \A j \in 1 .. i - 1 : j \in DOMAIN x /\ x[j] = y[j]
                            /\ i \in DOMAIN x => x[i] < y[i]
    BY DEF LexLess
<1>2. PICK k \in DOMAIN x : /\ \A j \in 1 .. k - 1 : j \in DOMAIN y /\ y[j] = x[j]
                            /\ k \in DOMAIN y => y[k] < x[k]
    BY DEF LexLess
<1>3. /\ i \in 1 .. Len(y) /\ k \in 1 .. Len(x)
      /\ DOMAIN x = 1 .. Len(x) /\ DOMAIN y = 1 .. Len(y)
      /\ \A j \in DOMAIN x : x[j] \in Int
      /\ \A j \in DOMAIN y : y[j] \in Int
    BY LenProperties, ElementOfSeq
<1>4. CASE i < k
  <2>1. i \in 1 .. k - 1
      BY <1>3, <1>4
  <2>2. y[i] = x[i] /\ i \in DOMAIN x
      BY <1>2, <1>3, <1>4, <2>1
  <2>3. x[i] < y[i] /\ x[i] \in Int
      BY <1>1, <1>3, <2>2
  <2> QED BY <2>2, <2>3
<1>5. CASE k < i
  <2>1. k \in 1 .. i - 1
      BY <1>3, <1>5
  <2>2. x[k] = y[k] /\ k \in DOMAIN y
      BY <1>1, <1>3, <1>5, <2>1
  <2>3. y[k] < x[k] /\ x[k] \in Int
      BY <1>2, <1>3, <2>2
  <2> QED BY <2>2, <2>3
<1>6. CASE i = k
  <2>1. x[i] < y[i] /\ y[i] < x[i] /\ x[i] \in Int /\ y[i] \in Int
      BY <1>1, <1>2, <1>3, <1>6
  <2> QED BY <2>1
<1> QED BY <1>3, <1>4, <1>5, <1>6

LEMMA LexTotal ==
    ASSUME NEW x \in Seq(Int), NEW y \in Seq(Int), x # y
    PROVE  LexLess(x, y) \/ LexLess(y, x)
<1> DEFINE T == {i \in Nat \ {0} : ~(i \in DOMAIN x /\ i \in DOMAIN y /\ x[i] = y[i])}
<1>1. /\ DOMAIN x = 1 .. Len(x) /\ DOMAIN y = 1 .. Len(y)
      /\ Len(x) \in Nat /\ Len(y) \in Nat
      /\ \A j \in DOMAIN x : x[j] \in Int
      /\ \A j \in DOMAIN y : y[j] \in Int
    BY LenProperties, ElementOfSeq
<1>2. T # {} /\ T \subseteq Nat
  <2>1. Len(x) + 1 \in T
      BY <1>1
  <2> QED BY <2>1
<1>3. PICK i \in T : \A j \in T : i <= j
  <2> HIDE DEF T
  <2> QED BY <1>2, LeastExists
<1>4. \A j \in 1 .. i - 1 : j \in DOMAIN x /\ j \in DOMAIN y /\ x[j] = y[j]
  <2> SUFFICES ASSUME NEW j \in 1 .. i - 1 PROVE j \notin T
      OBVIOUS
  <2> HIDE DEF T
  <2> QED BY <1>2, <1>3
<1>5. i \in DOMAIN x \/ i \in DOMAIN y
  <2> SUFFICES ASSUME i \notin DOMAIN x, i \notin DOMAIN y PROVE FALSE
      OBVIOUS
  <2>1. Len(x) = i - 1 /\ Len(y) = i - 1
    <3>1. i > Len(x) /\ i > Len(y)
        BY <1>1
    <3>2. i - 1 # 0 => i - 1 \in 1 .. i - 1
        BY <1>3
    <3>3. i - 1 <= Len(x) /\ i - 1 <= Len(y)
        BY <1>1, <1>3, <1>4, <3>2
    <3> QED BY <1>1, <3>1, <3>3
  <2> QED BY <1>1, <1>4, <2>1, SeqEqual
<1>6. CASE i \in DOMAIN x /\ i \in DOMAIN y
  <2>1. x[i] # y[i] /\ x[i] \in Int /\ y[i] \in Int
      BY <1>1, <1>6
  <2>2. CASE x[i] < y[i]
      BY <1>4, <1>6, <2>2 DEF LexLess
  <2>3. CASE y[i] < x[i]
      BY <1>4, <1>6, <2>3 DEF LexLess
  <2> QED BY <2>1, <2>2, <2>3
<1>7. CASE i \in DOMAIN x /\ i \notin DOMAIN y
    BY <1>4, <1>7 DEF LexLess
<1>8. CASE i \notin DOMAIN x /\ i \in DOMAIN y
    BY <1>4, <1>8 DEF LexLess
<1> QED BY <1>5, <1>6, <1>7, <1>8

(* The digits of a number: there are some, and only zero starts with 0.    *)
LEMMA DivBelow ==
    ASSUME NEW n \in Nat, Base <= n
    PROVE  n \div Base \in Nat /\ n \div Base # 0 /\ n \div Base < n /\ n % Base \in Nat
    BY VersionAssumption

DigitsStep(f, m) ==
    \A n \in 0 .. m : f[n] = IF n < Base THEN <<n>> ELSE Append(f[n \div Base], n % Base)

LEMMA DigitsExist == \A m \in Nat : \E f : DOMAIN f = 0 .. m /\ DigitsStep(f, m)
<1> DEFINE S == {m \in Nat : \E f : DOMAIN f = 0 .. m /\ DigitsStep(f, m)}
<1> USE VersionAssumption
<1>1. 0 \in S
  <2> DEFINE f == [n \in 0 .. 0 |-> <<n>>]
  <2>1. DOMAIN f = 0 .. 0 /\ DigitsStep(f, 0)
      BY DEF DigitsStep
  <2> QED BY <2>1
<1>2. ASSUME NEW m \in Nat, m \in S PROVE m + 1 \in S
  <2>1. PICK f : DOMAIN f = 0 .. m /\ DigitsStep(f, m)
      BY <1>2
  <2> DEFINE k == m + 1
             g == [n \in 0 .. k |-> IF n # k THEN f[n]
                     ELSE IF k < Base THEN <<k>> ELSE Append(f[k \div Base], k % Base)]
  <2>2. ASSUME NEW n \in 0 .. k
        PROVE  g[n] = IF n < Base THEN <<n>> ELSE Append(g[n \div Base], n % Base)
    <3>1. n >= Base => n \div Base \in 0 .. k /\ n \div Base # k /\ g[n \div Base] = f[n \div Base]
      <4>1. n >= Base => n \div Base \in Nat /\ n \div Base < n
          BY DivBelow
      <4> HIDE DEF g
      <4>2. n >= Base => n \div Base \in 0 .. k /\ n \div Base # k
          BY <4>1
      <4> QED BY <4>2 DEF g
    <3>2. CASE n = k
        BY <3>1, <3>2
    <3>3. CASE n # k
      <4>1. n \in 0 .. m /\ g[n] = f[n]
          BY <3>3
      <4>2. ~(n < Base) => n >= Base
          OBVIOUS
      <4>3. f[n] = IF n < Base THEN <<n>> ELSE Append(f[n \div Base], n % Base)
          BY <2>1, <4>1, Zenon DEF DigitsStep
      <4> HIDE DEF g
      <4> QED BY <3>1, <4>1, <4>2, <4>3, Zenon
    <3> QED BY <3>2, <3>3
  <2>3. DOMAIN g = 0 .. m + 1 /\ DigitsStep(g, m + 1)
    <3>1. DOMAIN g = 0 .. k
        OBVIOUS
    <3> HIDE DEF g
    <3> QED BY <2>2, <3>1 DEF DigitsStep
  <2> HIDE DEF g
  <2> QED BY <2>3
<1>3. \A m \in Nat : m \in S
  <2> HIDE DEF S
  <2> QED BY <1>1, <1>2, NatSetInduction
<1> QED BY <1>3

LEMMA DigitsDef ==
    \A n \in 0 .. MaxNum :
        Digits[n] = IF n < Base THEN <<n>> ELSE Append(Digits[n \div Base], n % Base)
<1>1. \E f : f = [n \in 0 .. MaxNum |-> IF n < Base THEN <<n>>
                                        ELSE Append(f[n \div Base], n % Base)]
  <2>1. PICK f : DOMAIN f = 0 .. MaxNum /\ DigitsStep(f, MaxNum)
      BY VersionAssumption, DigitsExist
  <2> DEFINE g == [n \in 0 .. MaxNum |-> f[n]]
  <2>2. ASSUME NEW n \in 0 .. MaxNum
        PROVE  g[n] = IF n < Base THEN <<n>> ELSE Append(g[n \div Base], n % Base)
    <3>1. n >= Base => n \div Base \in 0 .. MaxNum
      <4>1. n >= Base => n \div Base \in Nat /\ n \div Base < n
          BY VersionAssumption, DivBelow
      <4> QED BY VersionAssumption, <4>1
    <3>2. n >= Base => g[n \div Base] = f[n \div Base]
        BY <3>1
    <3>3. g[n] = f[n] /\ n \in 0 .. MaxNum
        OBVIOUS
    <3>4. ~(n < Base) => n >= Base
        BY VersionAssumption
    <3>5. f[n] = IF n < Base THEN <<n>> ELSE Append(f[n \div Base], n % Base)
        BY <2>1, <3>3, Zenon DEF DigitsStep
    <3> HIDE DEF g
    <3> QED BY <3>2, <3>3, <3>4, <3>5, Zenon
  <2>3. g = [n \in 0 .. MaxNum |-> IF n < Base THEN <<n>> ELSE Append(g[n \div Base], n % Base)]
    <3>1. g = [n \in 0 .. MaxNum |-> g[n]]
        OBVIOUS
    <3> HIDE DEF g
    <3> QED BY <2>2, <3>1
  <2> HIDE DEF g
  <2> QED BY <2>3
<1>2. Digits = [n \in 0 .. MaxNum |-> IF n < Base THEN <<n>>
                                     ELSE Append(Digits[n \div Base], n % Base)]
    BY <1>1 DEF Digits
<1> QED BY <1>2

LEMMA DigitsShape ==
    ASSUME NEW n \in 0 .. MaxNum
    PROVE  /\ Digits[n] \in Seq(Nat) /\ Digits[n] # <<>>
           /\ IF n = 0 THEN Digits[n] = <<0>> ELSE Digits[n][1] # 0
<1> USE VersionAssumption
<1> DEFINE Good(i) == /\ Digits[i] \in Seq(Nat) /\ Digits[i] # <<>>
                      /\ IF i = 0 THEN Digits[i] = <<0>> ELSE Digits[i][1] # 0
           S == {m \in Nat : \A i \in 0 .. MaxNum : i <= m => Good(i)}
<1>1. ASSUME NEW i \in 0 .. MaxNum, i < Base PROVE Good(i)
  <2>1. Digits[i] = <<i>>
      BY <1>1, DigitsDef
  <2> QED BY <2>1
<1>2. 0 \in S
    BY <1>1
<1>3. ASSUME NEW m \in Nat, m \in S PROVE m + 1 \in S
  <2> SUFFICES ASSUME NEW i \in 0 .. MaxNum, i <= m + 1 PROVE Good(i)
      OBVIOUS
  <2>1. CASE i < Base
      BY <1>1, <2>1
  <2>2. CASE i >= Base
    <3>1. /\ i \div Base \in 0 .. MaxNum /\ i \div Base <= m /\ i \div Base # 0
          /\ i % Base \in Nat
      <4>1. i \div Base \in Nat /\ i \div Base # 0 /\ i \div Base < i /\ i % Base \in Nat
          BY <2>2, DivBelow
      <4> QED BY <4>1
    <3>2. Digits[i] = Append(Digits[i \div Base], i % Base)
      <4>1. ~(i < Base)
          BY <2>2
      <4> QED BY <4>1, DigitsDef, Zenon
    <3>3. Good(i \div Base)
        BY <1>3, <3>1
    <3> DEFINE d == Digits[i \div Base]
    <3>4. d \in Seq(Nat) /\ d # <<>> /\ d[1] # 0
        BY <3>1, <3>3
    <3>5. Append(d, i % Base) \in Seq(Nat) /\ Append(d, i % Base) # <<>>
          /\ Append(d, i % Base)[1] = d[1]
      <4> HIDE DEF d
      <4>1. 1 \in 1 .. Len(d)
          BY <3>4, LenProperties, EmptySeq
      <4> QED BY <3>1, <3>4, <4>1, AppendProperties
    <3>6. i # 0
        BY <2>2
    <3> HIDE DEF d
    <3> QED BY <3>2, <3>4, <3>5, <3>6 DEF d
  <2> QED BY <2>1, <2>2
<1>4. \A m \in Nat : m \in S
  <2> HIDE DEF S
  <2> QED BY <1>2, <1>3, NatSetInduction
<1>5. n \in S
  <2> HIDE DEF S
  <2> QED BY <1>4
<1>6. n \in 0 .. n
    OBVIOUS
<1> QED BY <1>5, <1>6

(* TrimEnd takes off the zeros at the end, however many.                   *)
LEMMA TrimAt ==
    ASSUME NEW s \in Seq(Nat), NEW k \in 0 .. Len(s), k = 0 \/ s[k] # 0,
           \A j \in k + 1 .. Len(s) : s[j] = 0
    PROVE  TrimEnd(s) = SubSeq(s, 1, k)
<1>1. DOMAIN s = 1 .. Len(s) /\ Len(s) \in Nat
    BY LenProperties
<1>2. CASE k = 0
  <2>1. ~\E i \in DOMAIN s : s[i] # 0
      BY <1>1, <1>2
  <2> QED BY <1>2, <2>1 DEF TrimEnd
<1>3. CASE k # 0
  <2> DEFINE Last_(i) == i \in DOMAIN s /\ s[i] # 0 /\ \A j \in DOMAIN s : s[j] # 0 => j <= i
  <2>1. k \in DOMAIN s /\ s[k] # 0
      BY <1>1, <1>3
  <2>2. \A j \in DOMAIN s : s[j] # 0 => j <= k
      BY <1>1
  <2>3. \A i \in DOMAIN s : (s[i] # 0 /\ \A j \in DOMAIN s : s[j] # 0 => j <= i) => i = k
      BY <1>1, <2>1, <2>2
  <2>4. (CHOOSE i \in DOMAIN s : s[i] # 0 /\ \A j \in DOMAIN s : s[j] # 0 => j <= i) = k
      BY <2>1, <2>2, <2>3
  <2> QED BY <2>1, <2>4 DEF TrimEnd
<1> QED BY <1>2, <1>3

LEMMA TrimWhere ==
    ASSUME NEW s \in Seq(Nat)
    PROVE  \E k \in 0 .. Len(s) : /\ k = 0 \/ s[k] # 0
                                  /\ \A j \in k + 1 .. Len(s) : s[j] = 0
<1> DEFINE T == {k \in 0 .. Len(s) : \A j \in k + 1 .. Len(s) : s[j] = 0}
<1>1. Len(s) \in Nat
    BY LenProperties
<1>2. Len(s) \in T /\ T \subseteq Nat
    BY <1>1
<1>3. PICK k \in T : \A l \in T : k <= l
  <2> HIDE DEF T
  <2> QED BY <1>2, LeastExists
<1>4. ASSUME k # 0, s[k] = 0 PROVE FALSE
  <2>1. k - 1 \in 0 .. Len(s) /\ ~(k <= k - 1)
      BY <1>1, <1>4
  <2>2. k - 1 \in T
    <3> SUFFICES ASSUME NEW j \in (k - 1) + 1 .. Len(s) PROVE s[j] = 0
        BY <2>1
    <3> QED BY <1>1, <1>4
  <2> HIDE DEF T
  <2> QED BY <1>3, <2>1, <2>2
<1> QED BY <1>4

LEMMA ZerosShape ==
    ASSUME NEW n \in Nat
    PROVE  Zeros(n) \in Seq(Nat) /\ Len(Zeros(n)) = n /\ \A i \in 1 .. n : Zeros(n)[i] = 0
    BY DEF Zeros

(* The string a zero-led component is compared by.                         *)
String(c) == IF c.value = 0 THEN <<>> ELSE Zeros(c.zeros) \o TrimEnd(Digits[c.value])

(* It is what PMS compares, and starts with 0 just when it is zero-led.    *)
LEMMA StringShape ==
    ASSUME NEW c \in Component
    PROVE  /\ String(c) \in Seq(Nat) /\ TrimEnd(Written(c)) = String(c)
           /\ ZeroLed(c) => String(c) = <<>> \/ (String(c) # <<>> /\ String(c)[1] = 0)
           /\ ~ZeroLed(c) => String(c) # <<>> /\ String(c)[1] # 0
<1> DEFINE z == c.zeros
           d == Digits[c.value]
           w == Zeros(z) \o d
<1>1. /\ z \in Nat /\ c.value \in 0 .. MaxNum
      /\ Zeros(z) \in Seq(Nat) /\ Len(Zeros(z)) = z /\ \A i \in 1 .. z : Zeros(z)[i] = 0
    BY ZerosShape DEF Component
<1>2. d \in Seq(Nat) /\ d # <<>> /\ IF c.value = 0 THEN d = <<0>> ELSE d[1] # 0
    BY <1>1, DigitsShape
<1>3. w = Written(c)
    BY DEF Written
<1>4. Len(d) \in Nat /\ Len(d) # 0
    BY <1>2, LenProperties, EmptySeq
<1> HIDE DEF d
<1>5. /\ w \in Seq(Nat) /\ Len(w) = z + Len(d)
      /\ \A i \in 1 .. z + Len(d) : w[i] = IF i <= z THEN 0 ELSE d[i - z]
  <2>1. \A i \in 1 .. z + Len(d) : w[i] = IF i <= z THEN Zeros(z)[i] ELSE d[i - z]
      BY <1>1, <1>2, ConcatProperties
  <2>2. w \in Seq(Nat) /\ Len(w) = z + Len(d)
    <3>1. /\ Zeros(z) \o d \in Seq(Nat)
          /\ Len(Zeros(z) \o d) = Len(Zeros(z)) + Len(d)
        BY <1>1, <1>2, ConcatProperties
    <3> QED BY <1>1, <3>1
  <2> QED BY <1>1, <1>4, <2>1, <2>2
<1> HIDE DEF w, z
<1>6. CASE c.value = 0
  <2>1. String(c) = <<>>
      BY <1>6 DEF String
  <2>2. \A j \in 0 + 1 .. Len(w) : w[j] = 0
    <3>1. Len(d) = 1 /\ d[1] = 0
        BY <1>2, <1>6
    <3>2. ASSUME NEW j \in 1 .. z + Len(d) PROVE w[j] = 0
      <4>1. j <= z \/ j - z = 1
          BY <1>1, <3>1, <3>2
      <4> QED BY <1>1, <1>5, <3>1, <4>1
    <3> QED BY <1>5, <3>2
  <2>3. TrimEnd(w) = SubSeq(w, 1, 0)
    <3>1. 0 \in 0 .. Len(w) /\ 0 = 0
        BY <1>1, <1>4, <1>5
    <3> QED BY <1>5, <2>2, <3>1, TrimAt
  <2>4. SubSeq(w, 1, 0) = <<>>
      BY SubSeqEmpty
  <2> QED BY <1>3, <1>6, <2>1, <2>3, <2>4, EmptySeq DEF ZeroLed
<1>7. CASE c.value # 0
  <2>1. PICK k \in 0 .. Len(d) : (k = 0 \/ d[k] # 0) /\ \A j \in k + 1 .. Len(d) : d[j] = 0
      BY <1>2, TrimWhere
  <2>2. k \in 1 .. Len(d)
    <3>1. k = 0 => d[1] = 0
        BY <1>4, <2>1
    <3> QED BY <1>2, <1>7, <3>1
  <2> DEFINE e == SubSeq(d, 1, k)
  <2>3. TrimEnd(d) = e
      BY <1>2, <2>1, TrimAt
  <2>4. e \in Seq(Nat) /\ Len(e) = k /\ \A i \in 1 .. k : e[i] = d[i]
    <3>1. \A i \in 1 .. k : d[i] \in Nat
        BY <1>2, <2>2, ElementOfSeq
    <3>2. e \in Seq(Nat) /\ Len(e) = k /\ \A i \in 1 .. (k - 1) + 1 : e[i] = d[(1 + i) - 1]
        BY <2>2, <3>1, SubSeqProperties
    <3> QED BY <2>2, <3>2
  <2>5. TrimEnd(w) = SubSeq(w, 1, z + k)
    <3>1. z + k \in 0 .. Len(w) /\ z + k \in 1 .. z + Len(d) /\ ~(z + k <= z) /\ (z + k) - z = k
        BY <1>1, <1>4, <1>5, <2>2
    <3>2. w[z + k] = d[k] /\ d[k] # 0
        BY <1>5, <2>1, <2>2, <3>1
    <3>3. ASSUME NEW j \in (z + k) + 1 .. Len(w) PROVE w[j] = 0
      <4>1. j \in 1 .. z + Len(d) /\ ~(j <= z) /\ j - z \in k + 1 .. Len(d)
          BY <1>1, <1>4, <1>5, <2>2
      <4> QED BY <1>5, <2>1, <4>1
    <3> QED BY <1>5, <3>1, <3>2, <3>3, TrimAt
  <2> HIDE DEF e
  <2>6. /\ Zeros(z) \o e \in Seq(Nat) /\ Len(Zeros(z) \o e) = z + k
        /\ \A i \in 1 .. z + k : (Zeros(z) \o e)[i] = IF i <= z THEN 0 ELSE d[i - z]
    <3>1. \A i \in 1 .. z + k : (Zeros(z) \o e)[i] = IF i <= z THEN Zeros(z)[i] ELSE e[i - z]
      <4>1. \A i \in 1 .. Len(Zeros(z)) + Len(e) :
               (Zeros(z) \o e)[i] = IF i <= Len(Zeros(z)) THEN Zeros(z)[i] ELSE e[i - Len(Zeros(z))]
          BY <1>1, <2>4, ConcatProperties
      <4> QED BY <1>1, <2>4, <4>1
    <3>2. Zeros(z) \o e \in Seq(Nat) /\ Len(Zeros(z) \o e) = z + k
        BY <1>1, <2>4, ConcatProperties
    <3>3. \A i \in 1 .. z + k : IF i <= z THEN Zeros(z)[i] = 0 ELSE e[i - z] = d[i - z]
        BY <1>1, <2>2, <2>4
    <3> QED BY <3>1, <3>2, <3>3
  <2>7. SubSeq(w, 1, z + k) = Zeros(z) \o e
    <3>1. \A i \in 1 .. z + k : w[i] \in Nat
        BY <1>1, <1>4, <1>5, <2>2, ElementOfSeq
    <3>2. /\ SubSeq(w, 1, z + k) \in Seq(Nat) /\ Len(SubSeq(w, 1, z + k)) = z + k
          /\ \A i \in 1 .. z + k : SubSeq(w, 1, z + k)[i] = w[i]
      <4>1. /\ SubSeq(w, 1, z + k) \in Seq(Nat)
            /\ Len(SubSeq(w, 1, z + k)) = IF 1 <= z + k THEN (z + k) - 1 + 1 ELSE 0
            /\ \A i \in 1 .. (z + k) - 1 + 1 : SubSeq(w, 1, z + k)[i] = w[1 + i - 1]
          BY <1>1, <2>2, <3>1, SubSeqProperties
      <4> QED BY <1>1, <2>2, <4>1
    <3>3. \A i \in 1 .. z + k : w[i] = (Zeros(z) \o e)[i]
      <4> SUFFICES ASSUME NEW i \in 1 .. z + k PROVE w[i] = (Zeros(z) \o e)[i]
          OBVIOUS
      <4>1. i \in 1 .. z + Len(d)
          BY <1>1, <1>4, <2>2
      <4> QED BY <1>5, <2>6, <4>1
    <3> QED BY <2>6, <3>2, <3>3, SeqEqual
  <2>8. String(c) = Zeros(z) \o e
      BY <1>7, <2>3 DEF String, z, d
  <2>9. String(c) # <<>> /\ String(c)[1] = IF z = 0 THEN d[1] ELSE 0
    <3>1. 1 \in 1 .. z + k /\ (1 <= z <=> z # 0) /\ (z = 0 => 1 - z = 1)
        BY <1>1, <2>2
    <3>2. Len(String(c)) # 0
        BY <1>1, <2>2, <2>6, <2>8
    <3>3. String(c)[1] = IF 1 <= z THEN 0 ELSE d[1 - z]
        BY <2>6, <2>8, <3>1
    <3> QED BY <3>1, <3>2, <3>3, EmptySeq
  <2>10. ZeroLed(c) <=> z # 0
      BY <1>1, <1>7 DEF ZeroLed, z
  <2> QED BY <1>2, <1>3, <1>7, <2>5, <2>6, <2>7, <2>8, <2>9, <2>10
<1> QED BY <1>6, <1>7

(* The bytes of a string: what differs decides, and the end, below every   *)
(* digit, puts a string before those it begins.                            *)
Enc(s) == [j \in DOMAIN s |-> s[j] + 1] \o <<0>>

LEMMA EncShape ==
    ASSUME NEW s \in Seq(Nat), NEW x \in Seq(Int)
    PROVE  /\ Enc(s) \in Seq(Int) /\ Enc(s) \o x \in Seq(Int)
           /\ Len(s) \in Nat /\ DOMAIN s = 1 .. Len(s)
           /\ {j \in Nat : 1 <= j /\ j <= Len(s) + 1} \subseteq DOMAIN (Enc(s) \o x)
           /\ \A j \in 1 .. Len(s) : (Enc(s) \o x)[j] = s[j] + 1 /\ s[j] \in Nat
           /\ (Enc(s) \o x)[Len(s) + 1] = 0
<1> DEFINE m == [j \in DOMAIN s |-> s[j] + 1]
           n == Len(s)
<1>1. n \in Nat /\ DOMAIN s = 1 .. n /\ \A j \in 1 .. n : s[j] \in Nat
    BY LenProperties, ElementOfSeq
<1>2. m \in Seq(Int) /\ Len(m) = n /\ (\A j \in 1 .. n : m[j] = s[j] + 1) /\ <<0>> \in Seq(Int)
    BY <1>1
<1> HIDE DEF m, n
<1>3. /\ Enc(s) \in Seq(Int) /\ Len(Enc(s)) = n + 1
      /\ \A j \in 1 .. n + 1 : Enc(s)[j] = IF j <= n THEN m[j] ELSE <<0>>[j - n]
  <2>1. /\ m \o <<0>> \in Seq(Int) /\ Len(m \o <<0>>) = Len(m) + Len(<<0>>)
        /\ \A j \in 1 .. Len(m) + Len(<<0>>) :
               (m \o <<0>>)[j] = IF j <= Len(m) THEN m[j] ELSE <<0>>[j - Len(m)]
      BY <1>2, ConcatProperties
  <2>2. Enc(s) = m \o <<0>> /\ Len(<<0>>) = 1
      BY DEF Enc, m
  <2> QED BY <1>2, <2>1, <2>2
<1>4. \A j \in 1 .. n + 1 : Enc(s)[j] = IF j <= n THEN s[j] + 1 ELSE 0
  <2> SUFFICES ASSUME NEW j \in 1 .. n + 1
               PROVE  Enc(s)[j] = IF j <= n THEN s[j] + 1 ELSE 0
      OBVIOUS
  <2>1. CASE j <= n
      BY <1>1, <1>2, <1>3, <2>1
  <2>2. CASE ~(j <= n)
    <3>1. j - n = 1
        BY <1>1, <2>2
    <3>2. Enc(s)[j] = <<0>>[j - n]
        BY <1>3, <2>2
    <3>3. <<0>>[1] = 0
        OBVIOUS
    <3> QED BY <2>2, <3>1, <3>2, <3>3
  <2> QED BY <2>1, <2>2
<1>5. /\ Enc(s) \o x \in Seq(Int) /\ Len(Enc(s) \o x) = n + 1 + Len(x) /\ Len(x) \in Nat
      /\ \A j \in 1 .. n + 1 + Len(x) :
             (Enc(s) \o x)[j] = IF j <= n + 1 THEN Enc(s)[j] ELSE x[j - (n + 1)]
  <2>1. /\ Enc(s) \o x \in Seq(Int) /\ Len(Enc(s) \o x) = Len(Enc(s)) + Len(x)
        /\ \A j \in 1 .. Len(Enc(s)) + Len(x) :
               (Enc(s) \o x)[j] = IF j <= Len(Enc(s)) THEN Enc(s)[j] ELSE x[j - Len(Enc(s))]
      BY <1>3, ConcatProperties
  <2>2. Len(x) \in Nat
      BY LenProperties
  <2> QED BY <1>3, <2>1, <2>2
<1>6. DOMAIN (Enc(s) \o x) = 1 .. n + 1 + Len(x)
    BY <1>5, LenProperties
<1>7. \A j \in 1 .. n + 1 : (Enc(s) \o x)[j] = IF j <= n THEN s[j] + 1 ELSE 0
    BY <1>1, <1>4, <1>5
<1>8. ~(n + 1 <= n) /\ n + 1 \in 1 .. n + 1 /\ \A j \in 1 .. n : j <= n /\ j \in 1 .. n + 1
    BY <1>1
<1>9. {j \in Nat : 1 <= j /\ j <= n + 1} \subseteq 1 .. n + 1 + Len(x)
    BY <1>1, <1>5
<1> QED BY <1>1, <1>3, <1>5, <1>6, <1>7, <1>8, <1>9 DEF n

LEMMA EncLess ==
    ASSUME NEW s \in Seq(Nat), NEW t \in Seq(Nat), NEW x \in Seq(Int), NEW y \in Seq(Int),
           LexLess(s, t)
    PROVE  LexLess(Enc(s) \o x, Enc(t) \o y)
<1> DEFINE a == Enc(s) \o x
           b == Enc(t) \o y
<1>1. /\ Len(s) \in Nat /\ DOMAIN s = 1 .. Len(s)
      /\ {j \in Nat : 1 <= j /\ j <= Len(s) + 1} \subseteq DOMAIN a
      /\ \A j \in 1 .. Len(s) : a[j] = s[j] + 1 /\ s[j] \in Nat
      /\ a[Len(s) + 1] = 0
    BY EncShape
<1>2. /\ Len(t) \in Nat /\ DOMAIN t = 1 .. Len(t)
      /\ {j \in Nat : 1 <= j /\ j <= Len(t) + 1} \subseteq DOMAIN b
      /\ \A j \in 1 .. Len(t) : b[j] = t[j] + 1 /\ t[j] \in Nat
    BY EncShape
<1> HIDE DEF a, b
<1>3. PICK i \in DOMAIN t : /\ \A j \in 1 .. i - 1 : j \in DOMAIN s /\ s[j] = t[j]
                            /\ i \in DOMAIN s => s[i] < t[i]
    BY DEF LexLess
<1>4. i \in 1 .. Len(t) /\ i \in DOMAIN b /\ b[i] = t[i] + 1 /\ t[i] \in Nat
  <2>1. i \in 1 .. Len(t)
      BY <1>2
  <2>2. i \in {j \in Nat : 1 <= j /\ j <= Len(t) + 1}
      BY <1>2, <2>1
  <2> QED BY <1>2, <2>1, <2>2
<1>5. ASSUME NEW j \in 1 .. i - 1 PROVE j \in DOMAIN a /\ a[j] = b[j]
  <2>1. j \in 1 .. Len(s) /\ j \in 1 .. Len(t) /\ s[j] = t[j]
      BY <1>1, <1>3, <1>4
  <2>2. j \in {l \in Nat : 1 <= l /\ l <= Len(s) + 1}
      BY <1>1, <2>1
  <2> QED BY <1>1, <1>2, <2>1, <2>2
<1>6. a[i] < b[i]
  <2>1. CASE i \in 1 .. Len(s)
    <3>1. s[i] < t[i] /\ a[i] = s[i] + 1 /\ s[i] \in Nat
        BY <1>1, <1>3, <2>1
    <3> QED BY <1>4, <3>1
  <2>2. CASE i \notin 1 .. Len(s)
    <3>1. i = Len(s) + 1
      <4>1. i - 1 # 0 => i - 1 \in 1 .. i - 1
          BY <1>4
      <4>2. i - 1 <= Len(s)
          BY <1>1, <1>3, <1>4, <4>1
      <4> QED BY <1>1, <1>4, <2>2, <4>2
    <3> QED BY <1>1, <1>4, <3>1
  <2> QED BY <2>1, <2>2
<1>7. LexLess(a, b)
    BY <1>4, <1>5, <1>6 DEF LexLess
<1> QED BY <1>7 DEF a, b

LEMMA EncOrder ==
    ASSUME NEW s \in Seq(Nat), NEW t \in Seq(Nat), NEW x \in Seq(Int), NEW y \in Seq(Int)
    PROVE  /\ s # t => (LexLess(Enc(s) \o x, Enc(t) \o y) <=> LexLess(s, t))
           /\ s # t => (LexLess(s, t) <=> ~LexLess(t, s))
           /\ Enc(s) = Enc(t) => s = t
<1>1. s \in Seq(Int) /\ t \in Seq(Int)
    BY SeqMonotonic
<1>2. s # t => LexLess(s, t) \/ LexLess(t, s)
    BY <1>1, LexTotal
<1>3. LexLess(s, t) => ~LexLess(t, s)
    BY <1>1, LexAsymmetric
<1>4. ASSUME NEW u \in Seq(Int), NEW w \in Seq(Int), LexLess(t, s)
      PROVE  ~LexLess(Enc(s) \o u, Enc(t) \o w)
  <2>1. LexLess(Enc(t) \o w, Enc(s) \o u)
      BY <1>4, EncLess
  <2>2. Enc(s) \o u \in Seq(Int) /\ Enc(t) \o w \in Seq(Int)
      BY EncShape
  <2> QED BY <2>1, <2>2, LexAsymmetric
<1>5. LexLess(s, t) => LexLess(Enc(s) \o x, Enc(t) \o y)
    BY EncLess
<1>6. LexLess(t, s) => ~LexLess(Enc(s) \o x, Enc(t) \o y)
    BY <1>4
<1>7. ASSUME Enc(s) = Enc(t) PROVE ~LexLess(t, s) /\ ~LexLess(s, t)
  <2>1. Enc(s) \o x \in Seq(Int)
      BY EncShape
  <2>2. LexLess(t, s) => LexLess(Enc(s) \o x, Enc(s) \o x)
      BY <1>7, EncLess
  <2>3. LexLess(s, t) => LexLess(Enc(s) \o x, Enc(s) \o x)
      BY <1>7, EncLess
  <2> QED BY <2>1, <2>2, <2>3, LexAsymmetric
<1> QED BY <1>2, <1>3, <1>5, <1>6, <1>7

(* One component: as a number, or marked as zero-led and as a string.      *)
LEMMA ComponentForm ==
    ASSUME NEW i \in Nat \ {0}, NEW c \in Component
    PROVE  /\ c.value \in Nat /\ ComponentKey(i, c) \in Seq(Int)
           /\ i = 1 => ComponentKey(i, c) = <<c.value>>
           /\ (i # 1 /\ ~ZeroLed(c)) => ComponentKey(i, c) = <<NUMERIC>> \o <<c.value>>
           /\ (i # 1 /\ ZeroLed(c)) => ComponentKey(i, c) = <<ZERO_LED>> \o Enc(String(c))
           /\ ZERO_LED \in Int /\ NUMERIC \in Int
<1>1. c.value \in 0 .. MaxNum /\ c.zeros \in Nat /\ c.value \in Nat
    BY DEF Component
<1>2. String(c) \in Seq(Nat)
    BY StringShape
<1>3. ZeroLed(c) <=> ~(c.zeros = 0 /\ c.value # 0)
    BY <1>1 DEF ZeroLed
<1>7. ZERO_LED \in Int /\ NUMERIC \in Int
    BY DEF ZERO_LED, NUMERIC
<1>4. CASE i = 1
  <2>1. ComponentKey(i, c) = <<c.value>>
      BY <1>4 DEF ComponentKey
  <2>2. <<c.value>> \in Seq(Int)
      BY <1>1
  <2> QED BY <1>1, <1>4, <1>7, <2>1, <2>2
<1>5. CASE i # 1 /\ ~ZeroLed(c)
  <2>1. ComponentKey(i, c) = <<NUMERIC, c.value>>
      BY <1>3, <1>5 DEF ComponentKey
  <2>2. <<NUMERIC, c.value>> = <<NUMERIC>> \o <<c.value>>
      BY <1>1 DEF NUMERIC
  <2>3. <<NUMERIC, c.value>> \in Seq(Int)
      BY <1>1 DEF NUMERIC
  <2> QED BY <1>1, <1>5, <1>7, <2>1, <2>2, <2>3
<1>6. CASE i # 1 /\ ZeroLed(c)
  <2> DEFINE s == String(c)
             m == [j \in DOMAIN s |-> s[j] + 1]
  <2>1. ComponentKey(i, c) = (<<ZERO_LED>> \o m) \o <<0>>
      BY <1>3, <1>6 DEF ComponentKey, String
  <2>2. m \in Seq(Int)
    <3> HIDE DEF s
    <3>1. Len(s) \in Nat /\ DOMAIN s = 1 .. Len(s) /\ \A j \in 1 .. Len(s) : s[j] \in Nat
        BY <1>2, LenProperties, ElementOfSeq DEF s
    <3> QED BY <3>1
  <2>3. <<ZERO_LED>> \in Seq(Int) /\ <<0>> \in Seq(Int)
      BY DEF ZERO_LED
  <2> HIDE DEF m
  <2>4. (<<ZERO_LED>> \o m) \o <<0>> = <<ZERO_LED>> \o (m \o <<0>>)
      BY <2>2, <2>3, ConcatAssociative
  <2>5. m \o <<0>> = Enc(String(c))
      BY DEF m, Enc
  <2>6. Enc(String(c)) \in Seq(Int)
      BY <1>2, EncShape, EmptySeq
  <2>7. <<ZERO_LED>> \o Enc(String(c)) \in Seq(Int)
      BY <2>3, <2>6, ConcatProperties
  <2> QED BY <1>1, <1>6, <1>7, <2>1, <2>4, <2>5, <2>7
<1> QED BY <1>4, <1>5, <1>6

LEMMA LexPair ==
    ASSUME NEW a \in Int, NEW b \in Int, NEW k \in Seq(Int), NEW l \in Seq(Int),
           NEW x \in Seq(Int), NEW y \in Seq(Int)
    PROVE  /\ (<<a>> \o k) \o x = <<a>> \o (k \o x)
           /\ LexLess((<<a>> \o k) \o x, (<<b>> \o l) \o y)
                 <=> a < b \/ (a = b /\ LexLess(k \o x, l \o y))
<1>1. <<a>> \in Seq(Int) /\ <<b>> \in Seq(Int) /\ k \o x \in Seq(Int) /\ l \o y \in Seq(Int)
    BY ConcatProperties
<1>2. (<<a>> \o k) \o x = <<a>> \o (k \o x) /\ (<<b>> \o l) \o y = <<b>> \o (l \o y)
  <2>1. (<<a>> \o k) \o x = <<a>> \o (k \o x)
      BY <1>1, ConcatAssociative
  <2>2. (<<b>> \o l) \o y = <<b>> \o (l \o y)
      BY <1>1, ConcatAssociative
  <2> QED BY <2>1, <2>2
<1>3. LexLess(<<a>> \o (k \o x), <<b>> \o (l \o y)) <=> a < b \/ (a = b /\ LexLess(k \o x, l \o y))
    BY <1>1, LexHead
<1> QED BY <1>2, <1>3

LEMMA PairSame ==
    ASSUME NEW a \in Int, NEW b \in Int, NEW k \in Seq(Int), NEW l \in Seq(Int),
           <<a>> \o k = <<b>> \o l
    PROVE  a = b /\ k = l
<1>1. <<a>> \in Seq(Int) /\ <<b>> \in Seq(Int)
    OBVIOUS
<1>2. (<<a>> \o k)[1] = a /\ (<<b>> \o l)[1] = b
    BY <1>1, ConcatProperties, LenProperties
<1>3. a = b
    BY <1>2
<1> QED BY <1>1, <1>3, ConcatSimplifications

(* Components are the same when their bytes are, and otherwise in the      *)
(* order of their bytes, whatever follows.                                 *)
LEMMA ComponentOrder ==
    ASSUME NEW i \in Nat \ {0}, NEW c \in Component, NEW d \in Component,
           NEW x \in Seq(Int), NEW y \in Seq(Int)
    PROVE  /\ SameComponent(i, c, d) <=> ComponentKey(i, c) = ComponentKey(i, d)
           /\ ~SameComponent(i, c, d) =>
                 /\ LexLess(ComponentKey(i, c) \o x, ComponentKey(i, d) \o y)
                       <=> LowerComponent(i, c, d)
                 /\ LowerComponent(i, c, d) <=> ~LowerComponent(i, d, c)
<1> DEFINE j == ComponentKey(i, c)
           k == ComponentKey(i, d)
           s == String(c)
           t == String(d)
<1>1. /\ c.value \in Nat /\ d.value \in Nat /\ ZERO_LED \in Int /\ NUMERIC \in Int
      /\ i = 1 => j = <<c.value>> /\ k = <<d.value>>
      /\ (i # 1 /\ ~ZeroLed(c)) => j = <<NUMERIC>> \o <<c.value>>
      /\ (i # 1 /\ ~ZeroLed(d)) => k = <<NUMERIC>> \o <<d.value>>
      /\ (i # 1 /\ ZeroLed(c)) => j = <<ZERO_LED>> \o Enc(s)
      /\ (i # 1 /\ ZeroLed(d)) => k = <<ZERO_LED>> \o Enc(t)
    BY ComponentForm
<1>2. /\ s \in Seq(Nat) /\ t \in Seq(Nat)
      /\ TrimEnd(Written(c)) = s /\ TrimEnd(Written(d)) = t
      /\ ZeroLed(c) => s = <<>> \/ (s # <<>> /\ s[1] = 0)
      /\ ZeroLed(d) => t = <<>> \/ (t # <<>> /\ t[1] = 0)
      /\ ~ZeroLed(c) => s # <<>> /\ s[1] # 0
      /\ ~ZeroLed(d) => t # <<>> /\ t[1] # 0
    BY StringShape
<1>3. Enc(s) \in Seq(Int) /\ Enc(t) \in Seq(Int)
      /\ <<c.value>> \in Seq(Int) /\ <<d.value>> \in Seq(Int)
  <2>1. Enc(s) \in Seq(Int) /\ Enc(t) \in Seq(Int)
    <3> HIDE DEF s, t
    <3> QED BY <1>2, EncShape, EmptySeq
  <2>2. c.value \in Int /\ d.value \in Int
      BY <1>1
  <2> QED BY <2>1, <2>2
<1>4. StringOrder(i, c, d) <=> i # 1 /\ (ZeroLed(c) \/ ZeroLed(d))
    BY DEF StringOrder
<1>5. StringOrder(i, d, c) <=> StringOrder(i, c, d)
    BY DEF StringOrder
<1>6. /\ SameComponent(i, c, d) <=> IF StringOrder(i, c, d) THEN s = t ELSE c.value = d.value
      /\ LowerComponent(i, c, d) <=> IF StringOrder(i, c, d) THEN LexLess(s, t)
                                     ELSE c.value < d.value
      /\ LowerComponent(i, d, c) <=> IF StringOrder(i, c, d) THEN LexLess(t, s)
                                     ELSE d.value < c.value
    BY <1>2, <1>5 DEF SameComponent, LowerComponent
<1>7. s # t => (LexLess(s, t) <=> ~LexLess(t, s))
    BY <1>2, <1>3, EncOrder
<1> HIDE DEF j, k, s, t
<1>14. c.value \in Int /\ d.value \in Int
    BY <1>1
<1>15. ZERO_LED \in Int /\ NUMERIC \in Int
    BY <1>1
<1>16. ASSUME NEW p \in Seq(Int), NEW q \in Seq(Int)
       PROVE  /\ <<ZERO_LED>> \o p = <<ZERO_LED>> \o q <=> p = q
              /\ <<ZERO_LED>> \o p # <<NUMERIC>> \o q
  <2>1. PICK z \in Int, n \in Int : z = ZERO_LED /\ n = NUMERIC
      BY <1>15
  <2>2. z # n
      BY <2>1 DEF ZERO_LED, NUMERIC
  <2>3. <<z>> \o p = <<n>> \o q => z = n
      BY PairSame
  <2>4. <<z>> \o p = <<z>> \o q => p = q
      BY PairSame
  <2> QED BY <2>1, <2>2, <2>3, <2>4
<1>8. CASE i = 1
  <2>7. j = <<c.value>> /\ k = <<d.value>>
      BY <1>1, <1>8
  <2>1. LexLess(j \o x, k \o y) <=> c.value < d.value \/ (c.value = d.value /\ LexLess(x, y))
      BY <1>14, <2>7, LexHead
  <2>2. j = k <=> c.value = d.value
      BY <1>1, <1>8
  <2> QED BY <1>1, <1>4, <1>6, <1>8, <2>1, <2>2 DEF j, k
<1>9. CASE i # 1 /\ ~ZeroLed(c) /\ ~ZeroLed(d)
  <2>7. j = <<NUMERIC>> \o <<c.value>> /\ k = <<NUMERIC>> \o <<d.value>>
      BY <1>1, <1>9
  <2>1. LexLess(j \o x, k \o y) <=> \/ NUMERIC < NUMERIC
                                    \/ NUMERIC = NUMERIC /\ LexLess(<<c.value>> \o x, <<d.value>> \o y)
      BY <1>3, <1>15, <2>7, LexPair
  <2>2. LexLess(<<c.value>> \o x, <<d.value>> \o y)
           <=> c.value < d.value \/ (c.value = d.value /\ LexLess(x, y))
      BY <1>14, LexHead
  <2>3. j = k <=> <<c.value>> = <<d.value>>
    <3>1. <<NUMERIC>> \o <<c.value>> = <<NUMERIC>> \o <<d.value>> => <<c.value>> = <<d.value>>
        BY <1>3, <1>15, PairSame
    <3> QED BY <2>7, <3>1
  <2>4. j = k <=> c.value = d.value
      BY <2>3
  <2> QED BY <1>1, <1>4, <1>6, <1>9, <2>1, <2>2, <2>4 DEF j, k, NUMERIC
<1>10. CASE i # 1 /\ ZeroLed(c) /\ ZeroLed(d)
  <2>7. j = <<ZERO_LED>> \o Enc(s) /\ k = <<ZERO_LED>> \o Enc(t)
      BY <1>1, <1>10
  <2>1. LexLess(j \o x, k \o y) <=> \/ ZERO_LED < ZERO_LED
                                    \/ ZERO_LED = ZERO_LED /\ LexLess(Enc(s) \o x, Enc(t) \o y)
      BY <1>3, <1>15, <2>7, LexPair
  <2>2. s # t => (LexLess(Enc(s) \o x, Enc(t) \o y) <=> LexLess(s, t))
      BY <1>2, EncOrder
  <2>3. j = k <=> Enc(s) = Enc(t)
    <3>1. PICK p \in Seq(Int), q \in Seq(Int) : p = Enc(s) /\ q = Enc(t)
        BY <1>3
    <3>2. <<ZERO_LED>> \o p = <<ZERO_LED>> \o q <=> p = q
        BY <1>16
    <3> QED BY <2>7, <3>1, <3>2
  <2>4. j = k <=> s = t
      BY <1>2, <2>3, EncOrder
  <2> QED BY <1>4, <1>6, <1>7, <1>10, <2>1, <2>2, <2>4 DEF j, k, ZERO_LED
<1>11. ASSUME NEW u \in Seq(Nat), NEW w \in Seq(Nat), u = <<>> \/ (u # <<>> /\ u[1] = 0),
              w # <<>>, w[1] # 0
       PROVE  u # w /\ LexLess(u, w)
  <2>1. /\ DOMAIN u = 1 .. Len(u) /\ Len(u) \in Nat
        /\ DOMAIN w = 1 .. Len(w) /\ Len(w) \in Nat /\ 1 \in DOMAIN w /\ w[1] \in Nat
      BY <1>11, LenProperties, EmptySeq, ElementOfSeq
  <2>2. 1 \in DOMAIN u => u[1] < w[1]
    <3>1. u = <<>> => 1 \notin DOMAIN u
        BY <2>1
    <3> QED BY <1>11, <2>1, <3>1
  <2>3. (1 .. 1 - 1) = {}
      OBVIOUS
  <2> QED BY <1>11, <2>1, <2>2, <2>3 DEF LexLess
<1>12. CASE i # 1 /\ ZeroLed(c) /\ ~ZeroLed(d)
  <2>7. j = <<ZERO_LED>> \o Enc(s) /\ k = <<NUMERIC>> \o <<d.value>>
      BY <1>1, <1>12
  <2>1. LexLess(j \o x, k \o y)
           <=> \/ ZERO_LED < NUMERIC
               \/ ZERO_LED = NUMERIC /\ LexLess(Enc(s) \o x, <<d.value>> \o y)
      BY <1>3, <1>15, <2>7, LexPair
  <2>2. s # t /\ LexLess(s, t)
      BY <1>2, <1>11, <1>12
  <2>3. j # k
    <3>1. PICK p \in Seq(Int), q \in Seq(Int) : p = Enc(s) /\ q = <<d.value>>
        BY <1>3
    <3>2. <<ZERO_LED>> \o p # <<NUMERIC>> \o q
        BY <1>16
    <3> QED BY <2>7, <3>1, <3>2
  <2> QED BY <1>4, <1>6, <1>7, <1>12, <2>1, <2>2, <2>3 DEF j, k, ZERO_LED, NUMERIC
<1>13. CASE i # 1 /\ ~ZeroLed(c) /\ ZeroLed(d)
  <2>7. j = <<NUMERIC>> \o <<c.value>> /\ k = <<ZERO_LED>> \o Enc(t)
      BY <1>1, <1>13
  <2>1. LexLess(j \o x, k \o y)
           <=> \/ NUMERIC < ZERO_LED
               \/ NUMERIC = ZERO_LED /\ LexLess(<<c.value>> \o x, Enc(t) \o y)
      BY <1>3, <1>15, <2>7, LexPair
  <2>2. s # t /\ LexLess(t, s)
      BY <1>2, <1>11, <1>13
  <2>3. j # k
    <3>1. PICK p \in Seq(Int), q \in Seq(Int) : p = Enc(t) /\ q = <<c.value>>
        BY <1>3
    <3>2. <<ZERO_LED>> \o p # <<NUMERIC>> \o q
        BY <1>16
    <3> QED BY <2>7, <3>1, <3>2
  <2> QED BY <1>4, <1>6, <1>7, <1>13, <2>1, <2>2, <2>3 DEF j, k, ZERO_LED, NUMERIC
<1> QED BY <1>8, <1>9, <1>10, <1>12, <1>13 DEF j, k

LEMMA SameKey ==
    ASSUME NEW i \in Nat \ {0}, NEW c \in Component, NEW d \in Component
    PROVE  SameComponent(i, c, d) <=> ComponentKey(i, c) = ComponentKey(i, d)
<1>1. <<>> \in Seq(Int)
    OBVIOUS
<1> QED BY <1>1, ComponentOrder

(* The same for suffixes.                                                  *)
SuffixKey(s) == <<s.kind, Number(s)>>

LEMMA SuffixForm ==
    ASSUME NEW s \in Suffix
    PROVE  /\ s.kind \in {1, 2, 3, 4, 6} /\ Number(s) \in Nat
           /\ SuffixKey(s) = <<s.kind>> \o <<Number(s)>> /\ SuffixKey(s) \in Seq(Int)
<1>1. s.kind \in {1, 2, 3, 4, 6}
    BY DEF Suffix, SuffixKinds, Alpha, Rc, P
<1>2. Number(s) \in Nat
    BY DEF Suffix, Number, Unnumbered
<1>3. s.kind \in Int /\ Number(s) \in Int
    BY <1>1, <1>2
<1> QED BY <1>1, <1>2, <1>3 DEF SuffixKey

LEMMA SuffixOrder ==
    ASSUME NEW s \in Suffix, NEW t \in Suffix, NEW x \in Seq(Int), NEW y \in Seq(Int)
    PROVE  /\ SameSuffix(s, t) <=> SuffixKey(s) = SuffixKey(t)
           /\ SameSuffix(s, t) <=> SameSuffix(t, s)
           /\ ~SameSuffix(s, t) =>
                 /\ LexLess(SuffixKey(s) \o x, SuffixKey(t) \o y) <=> LowerSuffix(s, t)
                 /\ LowerSuffix(s, t) <=> ~LowerSuffix(t, s)
<1>1. /\ s.kind \in Int /\ t.kind \in Int /\ Number(s) \in Int /\ Number(t) \in Int
      /\ <<Number(s)>> \in Seq(Int) /\ <<Number(t)>> \in Seq(Int)
      /\ SuffixKey(s) = <<s.kind>> \o <<Number(s)>> /\ SuffixKey(t) = <<t.kind>> \o <<Number(t)>>
  <2>1. s.kind \in Int /\ t.kind \in Int /\ Number(s) \in Int /\ Number(t) \in Int
    <3>1. s.kind \in {1, 2, 3, 4, 6} /\ t.kind \in {1, 2, 3, 4, 6}
        BY SuffixForm
    <3>2. Number(s) \in Nat /\ Number(t) \in Nat
        BY SuffixForm
    <3> QED BY <3>1, <3>2
  <2>2. SuffixKey(s) = <<s.kind>> \o <<Number(s)>> /\ SuffixKey(t) = <<t.kind>> \o <<Number(t)>>
      BY SuffixForm
  <2> QED BY <2>1, <2>2
<1>2. SuffixKey(s) = SuffixKey(t) <=> s.kind = t.kind /\ Number(s) = Number(t)
    BY <1>1 DEF SuffixKey
<1>3. PICK k \in Int, l \in Int, m \in Int, n \in Int :
          k = s.kind /\ l = t.kind /\ m = Number(s) /\ n = Number(t)
    BY <1>1
<1>4. PICK a \in Seq(Int), b \in Seq(Int) : a = <<m>> /\ b = <<n>>
  <2>1. <<m>> \in Seq(Int) /\ <<n>> \in Seq(Int)
      BY <1>3
  <2> QED BY <2>1
<1>5. LexLess((<<k>> \o a) \o x, (<<l>> \o b) \o y)
         <=> k < l \/ (k = l /\ LexLess(a \o x, b \o y))
  <2>1. ASSUME NEW e \in Int, NEW f \in Int, NEW p \in Seq(Int), NEW q \in Seq(Int)
        PROVE  LexLess((<<e>> \o p) \o x, (<<f>> \o q) \o y)
                  <=> e < f \/ (e = f /\ LexLess(p \o x, q \o y))
      BY LexPair
  <2> QED BY <1>3, <1>4, <2>1
<1>6. LexLess(<<m>> \o x, <<n>> \o y) <=> m < n \/ (m = n /\ LexLess(x, y))
    BY <1>3, LexHead
<1>7. LexLess(SuffixKey(s) \o x, SuffixKey(t) \o y)
         <=> k < l \/ (k = l /\ (m < n \/ (m = n /\ LexLess(x, y))))
    BY <1>1, <1>3, <1>4, <1>5, <1>6
<1>8. SameSuffix(s, t) <=> SuffixKey(s) = SuffixKey(t)
    BY <1>2 DEF SameSuffix
<1>9. SameSuffix(s, t) <=> k = l /\ m = n
    BY <1>3 DEF SameSuffix
<1>10. /\ SameSuffix(t, s) <=> k = l /\ m = n
       /\ LowerSuffix(s, t) <=> k < l \/ (k = l /\ m < n)
       /\ LowerSuffix(t, s) <=> l < k \/ (l = k /\ n < m)
    BY <1>3 DEF SameSuffix, LowerSuffix
<1> QED BY <1>3, <1>7, <1>8, <1>9, <1>10

(* Where two sequences part: there is a first place not shared, the same   *)
(* from both sides.                                                        *)
LEMMA PartingAt ==
    ASSUME NEW s, Len(s) \in Nat, NEW shared, shared \subseteq 1 .. Len(s)
    PROVE  /\ Parting(s, shared) \in 1 .. Len(s) + 1
           /\ Parting(s, shared) \notin shared
           /\ \A j \in 1 .. Parting(s, shared) - 1 : j \in shared
<1> DEFINE T == {i \in 1 .. Len(s) + 1 : i \notin shared}
           Q(i) == i \notin shared /\ \A j \in 1 .. i - 1 : j \in shared
<1>1. T \subseteq Nat /\ T # {}
  <2>1. Len(s) + 1 \in T
      OBVIOUS
  <2> QED BY <2>1
<1>2. PICK i \in T : \A j \in T : i <= j
  <2> HIDE DEF T
  <2> QED BY <1>1, LeastExists
<1>3. i \in 1 .. Len(s) + 1 /\ Q(i)
  <2>1. ASSUME NEW j \in 1 .. i - 1, j \notin shared PROVE FALSE
    <3>1. j \in T
        BY <2>1
    <3> QED BY <1>2, <3>1
  <2> QED BY <2>1
<1>4. Parting(s, shared) = CHOOSE j \in 1 .. Len(s) + 1 : Q(j)
    BY DEF Parting
<1>5. Parting(s, shared) \in 1 .. Len(s) + 1 /\ Q(Parting(s, shared))
  <2> HIDE DEF Q
  <2> QED BY <1>3, <1>4
<1> QED BY <1>5

LEMMA PartingSame ==
    ASSUME NEW s, NEW t, Len(s) \in Nat, Len(t) \in Nat,
           NEW shared, shared \subseteq 1 .. Len(s), shared \subseteq 1 .. Len(t)
    PROVE  Parting(s, shared) = Parting(t, shared)
<1>1. /\ Parting(s, shared) \in 1 .. Len(s) + 1 /\ Parting(s, shared) \notin shared
      /\ \A j \in 1 .. Parting(s, shared) - 1 : j \in shared
    BY PartingAt
<1>2. /\ Parting(t, shared) \in 1 .. Len(t) + 1 /\ Parting(t, shared) \notin shared
      /\ \A j \in 1 .. Parting(t, shared) - 1 : j \in shared
    BY PartingAt
<1> QED BY <1>1, <1>2

(* Concatenation and one element as operators that need not be expanded:   *)
(* what follows uses only these facts of them.                             *)
Cat(x, y) == x \o y
One(a) == <<a>>

LEMMA CatFacts ==
    /\ \A x, y \in Seq(Int) : Cat(x, y) \in Seq(Int)
    /\ \A x, y, z \in Seq(Int) : Cat(Cat(x, y), z) = Cat(x, Cat(y, z))
    /\ \A a \in Int : One(a) \in Seq(Int)
<1>1. ASSUME NEW x \in Seq(Int), NEW y \in Seq(Int) PROVE Cat(x, y) \in Seq(Int)
    BY ConcatProperties DEF Cat
<1>2. ASSUME NEW x \in Seq(Int), NEW y \in Seq(Int), NEW z \in Seq(Int)
      PROVE  Cat(Cat(x, y), z) = Cat(x, Cat(y, z))
    BY ConcatAssociative DEF Cat
<1>3. ASSUME NEW a \in Int PROVE One(a) \in Seq(Int)
    BY DEF One
<1> QED BY <1>1, <1>2, <1>3

LEMMA LexFacts ==
    /\ \A p, x, y \in Seq(Int) : LexLess(Cat(p, x), Cat(p, y)) <=> LexLess(x, y)
    /\ \A a, b \in Int : \A x, y \in Seq(Int) :
           LexLess(Cat(One(a), x), Cat(One(b), y)) <=> a < b \/ (a = b /\ LexLess(x, y))
<1>1. ASSUME NEW p \in Seq(Int), NEW x \in Seq(Int), NEW y \in Seq(Int)
      PROVE  LexLess(Cat(p, x), Cat(p, y)) <=> LexLess(x, y)
    BY LexCommon DEF Cat
<1>2. ASSUME NEW a \in Int, NEW b \in Int, NEW x \in Seq(Int), NEW y \in Seq(Int)
      PROVE  LexLess(Cat(One(a), x), Cat(One(b), y)) <=> a < b \/ (a = b /\ LexLess(x, y))
    BY LexHead DEF Cat, One
<1> QED BY <1>1, <1>2

LEMMA ListForm ==
    ASSUME NEW k \in Seq(Seq(Int)), NEW x \in Seq(Int), NEW p \in 1 .. Len(k)
    PROVE  /\ FlattenSeq(SubSeq(k, 1, p - 1)) \in Seq(Int)
           /\ k[p] \in Seq(Int)
           /\ \E r \in Seq(Int) :
                  Cat(FlattenSeq(k), x) = Cat(FlattenSeq(SubSeq(k, 1, p - 1)), Cat(k[p], r))
<1> DEFINE a == FlattenSeq(SubSeq(k, 1, p - 1))
           b == FlattenSeq(SubSeq(k, p + 1, Len(k)))
           h == k[p]
<1>1. FlattenSeq(k) = Cat(a, Cat(h, b)) /\ a \in Seq(Int) /\ b \in Seq(Int) /\ h \in Seq(Int)
    BY FlattenSplit DEF Cat
<1> HIDE DEF a, b, h
<1>2. Cat(h, b) \in Seq(Int) /\ Cat(b, x) \in Seq(Int)
    BY <1>1, CatFacts
<1>3. Cat(Cat(a, Cat(h, b)), x) = Cat(a, Cat(h, Cat(b, x)))
  <2>1. Cat(Cat(a, Cat(h, b)), x) = Cat(a, Cat(Cat(h, b), x))
      BY <1>1, <1>2, CatFacts
  <2>2. Cat(Cat(h, b), x) = Cat(h, Cat(b, x))
      BY <1>1, CatFacts
  <2> QED BY <2>1, <2>2
<1> QED BY <1>1, <1>2, <1>3 DEF a, h

LEMMA OneOrder == \A a, b \in Int : LexLess(One(a), One(b)) <=> a < b
<1> SUFFICES ASSUME NEW a \in Int, NEW b \in Int PROVE LexLess(One(a), One(b)) <=> a < b
    OBVIOUS
<1>1. <<>> \in Seq(Int)
    OBVIOUS
<1>2. ~LexLess(<<>>, <<>>)
    BY <1>1, LexEmpty
<1>3. One(a) = Cat(One(a), <<>>) /\ One(b) = Cat(One(b), <<>>)
    BY DEF One, Cat
<1>4. LexLess(Cat(One(a), <<>>), Cat(One(b), <<>>)) <=> a < b
    BY <1>1, <1>2, LexFacts
<1> QED BY <1>3, <1>4

(* Two lists of parts: the bytes compare as what follows the last part     *)
(* they share, whether both go on, one does or none.                       *)
LEMMA SameFront ==
    ASSUME NEW k \in Seq(Seq(Int)), NEW l \in Seq(Seq(Int)), NEW p \in 1 .. Len(k) + 1,
           p <= Len(l) + 1, \A j \in 1 .. p - 1 : k[j] = l[j]
    PROVE  /\ SubSeq(k, 1, p - 1) = SubSeq(l, 1, p - 1)
           /\ Len(k) = p - 1 => SubSeq(l, 1, p - 1) = k
<1>1. Len(k) \in Nat /\ Len(l) \in Nat
    BY LenProperties
<1>2. /\ \A j \in 1 .. p - 1 : j \in 1 .. Len(k) /\ j \in 1 .. Len(l)
      /\ \A j \in 1 .. p - 1 : k[j] \in Seq(Int) /\ l[j] \in Seq(Int)
  <2>1. \A j \in 1 .. p - 1 : j \in 1 .. Len(k) /\ j \in 1 .. Len(l)
      BY <1>1
  <2> QED BY <2>1, ElementOfSeq
<1>3. /\ SubSeq(k, 1, p - 1) \in Seq(Seq(Int)) /\ Len(SubSeq(k, 1, p - 1)) = p - 1
      /\ \A i \in 1 .. p - 1 : SubSeq(k, 1, p - 1)[i] = k[i]
    BY <1>1, <1>2, SubSeqProperties
<1>4. /\ SubSeq(l, 1, p - 1) \in Seq(Seq(Int)) /\ Len(SubSeq(l, 1, p - 1)) = p - 1
      /\ \A i \in 1 .. p - 1 : SubSeq(l, 1, p - 1)[i] = l[i]
    BY <1>1, <1>2, SubSeqProperties
<1>5. SubSeq(k, 1, p - 1) = SubSeq(l, 1, p - 1)
    BY <1>3, <1>4, SeqEqual
<1>6. Len(k) = p - 1 => SubSeq(k, 1, p - 1) = k
    BY <1>3, SeqEqual
<1> QED BY <1>5, <1>6

LEMMA ListsPart ==
    ASSUME NEW k \in Seq(Seq(Int)), NEW l \in Seq(Seq(Int)),
           NEW p \in 1 .. Len(k), p \in 1 .. Len(l), \A j \in 1 .. p - 1 : k[j] = l[j],
           NEW x \in Seq(Int), NEW y \in Seq(Int)
    PROVE  /\ k[p] \in Seq(Int) /\ l[p] \in Seq(Int)
           /\ \E r, q \in Seq(Int) : LexLess(Cat(FlattenSeq(k), x), Cat(FlattenSeq(l), y))
                                        <=> LexLess(Cat(k[p], r), Cat(l[p], q))
<1>1. SubSeq(k, 1, p - 1) = SubSeq(l, 1, p - 1)
  <2>1. Len(k) \in Nat /\ Len(l) \in Nat
      BY LenProperties
  <2> QED BY <2>1, SameFront
<1> DEFINE a == FlattenSeq(SubSeq(k, 1, p - 1))
<1>2. /\ a \in Seq(Int) /\ k[p] \in Seq(Int)
      /\ \E r \in Seq(Int) : Cat(FlattenSeq(k), x) = Cat(a, Cat(k[p], r))
    BY ListForm
<1>3. /\ l[p] \in Seq(Int)
      /\ \E q \in Seq(Int) : Cat(FlattenSeq(l), y) = Cat(a, Cat(l[p], q))
  <2>1. /\ l[p] \in Seq(Int)
        /\ \E q \in Seq(Int) :
               Cat(FlattenSeq(l), y) = Cat(FlattenSeq(SubSeq(l, 1, p - 1)), Cat(l[p], q))
      BY ListForm
  <2> QED BY <1>1, <2>1
<1> HIDE DEF a
<1>4. PICK r \in Seq(Int) : Cat(FlattenSeq(k), x) = Cat(a, Cat(k[p], r))
    BY <1>2
<1>5. PICK q \in Seq(Int) : Cat(FlattenSeq(l), y) = Cat(a, Cat(l[p], q))
    BY <1>3
<1>6. Cat(k[p], r) \in Seq(Int) /\ Cat(l[p], q) \in Seq(Int)
    BY <1>2, <1>3, <1>4, <1>5, CatFacts
<1>7. LexLess(Cat(a, Cat(k[p], r)), Cat(a, Cat(l[p], q))) <=> LexLess(Cat(k[p], r), Cat(l[p], q))
    BY <1>2, <1>6, LexFacts
<1> QED BY <1>2, <1>3, <1>4, <1>5, <1>7

LEMMA ListLonger ==
    ASSUME NEW k \in Seq(Seq(Int)), NEW l \in Seq(Seq(Int)),
           NEW p \in 1 .. Len(k), Len(l) = p - 1, \A j \in 1 .. p - 1 : k[j] = l[j],
           NEW x \in Seq(Int), NEW y \in Seq(Int)
    PROVE  /\ k[p] \in Seq(Int)
           /\ \E r \in Seq(Int) :
                 /\ LexLess(Cat(FlattenSeq(k), x), Cat(FlattenSeq(l), y)) <=> LexLess(Cat(k[p], r), y)
                 /\ LexLess(Cat(FlattenSeq(l), y), Cat(FlattenSeq(k), x)) <=> LexLess(y, Cat(k[p], r))
<1> DEFINE a == FlattenSeq(SubSeq(k, 1, p - 1))
<1>1. FlattenSeq(l) = a
  <2>1. Len(k) \in Nat /\ Len(l) \in Nat
      BY LenProperties
  <2>2. p \in 1 .. Len(l) + 1 /\ p <= Len(k) + 1 /\ \A j \in 1 .. p - 1 : l[j] = k[j]
      BY <2>1
  <2> QED BY <2>2, SameFront
<1>2. /\ a \in Seq(Int) /\ k[p] \in Seq(Int)
      /\ \E r \in Seq(Int) : Cat(FlattenSeq(k), x) = Cat(a, Cat(k[p], r))
    BY ListForm
<1> HIDE DEF a
<1>4. PICK r \in Seq(Int) : Cat(FlattenSeq(k), x) = Cat(a, Cat(k[p], r))
    BY <1>2
<1>6. Cat(k[p], r) \in Seq(Int)
    BY <1>2, <1>4, CatFacts
<1>7. /\ LexLess(Cat(a, Cat(k[p], r)), Cat(a, y)) <=> LexLess(Cat(k[p], r), y)
      /\ LexLess(Cat(a, y), Cat(a, Cat(k[p], r))) <=> LexLess(y, Cat(k[p], r))
    BY <1>2, <1>6, LexFacts
<1> QED BY <1>1, <1>2, <1>4, <1>7

LEMMA ListsSame ==
    ASSUME NEW k \in Seq(Seq(Int)), NEW l \in Seq(Seq(Int)),
           Len(l) = Len(k), \A j \in 1 .. Len(k) : k[j] = l[j],
           NEW x \in Seq(Int), NEW y \in Seq(Int)
    PROVE  k = l /\ (LexLess(Cat(FlattenSeq(k), x), Cat(FlattenSeq(l), y)) <=> LexLess(x, y))
<1>1. k = l
    BY SeqEqual
<1>2. FlattenSeq(k) \in Seq(Int)
    BY FlattenType
<1> QED BY <1>1, <1>2, LexFacts

(* A version as its parts.                                                 *)
SuffixKeys(v) == [i \in DOMAIN v.suffixes |-> SuffixKey(v.suffixes[i])]
ComponentKeys(v) == [i \in DOMAIN v.nums |-> ComponentKey(i, v.nums[i])]
TailBytes(v) == Cat(FlattenSeq(SuffixKeys(v)), Cat(One(SUFFIX_END), One(v.rev)))

LEMMA KeysTypes ==
    ASSUME NEW v, IsVersion(v)
    PROVE  /\ ComponentKeys(v) \in Seq(Seq(Int)) /\ Len(ComponentKeys(v)) = Len(v.nums)
           /\ SuffixKeys(v) \in Seq(Seq(Int)) /\ Len(SuffixKeys(v)) = Len(v.suffixes)
           /\ Len(v.nums) \in Nat \ {0} /\ Len(v.suffixes) \in Nat
           /\ DOMAIN v.nums = 1 .. Len(v.nums) /\ DOMAIN v.suffixes = 1 .. Len(v.suffixes)
           /\ \A i \in 1 .. Len(v.nums) : /\ v.nums[i] \in Component
                                          /\ ComponentKeys(v)[i] = ComponentKey(i, v.nums[i])
           /\ \A i \in 1 .. Len(v.suffixes) : /\ v.suffixes[i] \in Suffix
                                              /\ SuffixKeys(v)[i] = SuffixKey(v.suffixes[i])
           /\ v.letter \in Int /\ v.rev \in Int
<1>1. /\ v.nums \in Seq(Component) /\ v.nums # <<>> /\ v.suffixes \in Seq(Suffix)
      /\ v.letter \in Int /\ v.rev \in Int
    BY VersionAssumption DEF IsVersion
<1>2. /\ Len(v.nums) \in Nat \ {0} /\ DOMAIN v.nums = 1 .. Len(v.nums)
      /\ \A i \in 1 .. Len(v.nums) : v.nums[i] \in Component
  <2>1. Len(v.nums) \in Nat /\ DOMAIN v.nums = 1 .. Len(v.nums)
      BY <1>1, LenProperties
  <2>2. Len(v.nums) # 0
      BY <1>1, EmptySeq
  <2>3. \A i \in 1 .. Len(v.nums) : v.nums[i] \in Component
      BY <1>1, ElementOfSeq
  <2> QED BY <2>1, <2>2, <2>3
<1>3. /\ Len(v.suffixes) \in Nat /\ DOMAIN v.suffixes = 1 .. Len(v.suffixes)
      /\ \A i \in 1 .. Len(v.suffixes) : v.suffixes[i] \in Suffix
  <2>1. Len(v.suffixes) \in Nat /\ DOMAIN v.suffixes = 1 .. Len(v.suffixes)
      BY <1>1, LenProperties
  <2>2. \A i \in 1 .. Len(v.suffixes) : v.suffixes[i] \in Suffix
      BY <1>1, ElementOfSeq
  <2> QED BY <2>1, <2>2
<1>4. \A i \in 1 .. Len(v.nums) : ComponentKey(i, v.nums[i]) \in Seq(Int)
  <2> SUFFICES ASSUME NEW i \in 1 .. Len(v.nums) PROVE ComponentKey(i, v.nums[i]) \in Seq(Int)
      OBVIOUS
  <2>1. i \in Nat \ {0} /\ v.nums[i] \in Component
      BY <1>2
  <2> QED BY <2>1, ComponentForm
<1>5. \A i \in 1 .. Len(v.suffixes) : SuffixKey(v.suffixes[i]) \in Seq(Int)
    BY <1>3, SuffixForm
<1>6. /\ ComponentKeys(v) \in Seq(Seq(Int)) /\ Len(ComponentKeys(v)) = Len(v.nums)
      /\ \A i \in 1 .. Len(v.nums) : ComponentKeys(v)[i] = ComponentKey(i, v.nums[i])
    BY <1>2, <1>4 DEF ComponentKeys
<1>7. /\ SuffixKeys(v) \in Seq(Seq(Int)) /\ Len(SuffixKeys(v)) = Len(v.suffixes)
      /\ \A i \in 1 .. Len(v.suffixes) : SuffixKeys(v)[i] = SuffixKey(v.suffixes[i])
    BY <1>3, <1>5 DEF SuffixKeys
<1> QED BY <1>1, <1>2, <1>3, <1>6, <1>7

LEMMA BytesForm ==
    ASSUME NEW v, IsVersion(v)
    PROVE  /\ Bytes(Key(v)) = Cat(FlattenSeq(ComponentKeys(v)),
                                  Cat(One(COMPONENT_END), Cat(One(v.letter), TailBytes(v))))
           /\ TailBytes(v) \in Seq(Int)
           /\ Cat(One(v.letter), TailBytes(v)) \in Seq(Int)
           /\ Cat(One(COMPONENT_END), Cat(One(v.letter), TailBytes(v))) \in Seq(Int)
<1> DEFINE f == FlattenSeq(ComponentKeys(v))
           g == FlattenSeq(SuffixKeys(v))
           z == One(COMPONENT_END)
           l == One(v.letter)
           e == One(SUFFIX_END)
           r == One(v.rev)
<1>1. /\ f \in Seq(Int) /\ g \in Seq(Int) /\ z \in Seq(Int) /\ l \in Seq(Int)
      /\ e \in Seq(Int) /\ r \in Seq(Int)
  <2>1. COMPONENT_END \in Int /\ SUFFIX_END \in Int /\ v.letter \in Int /\ v.rev \in Int
      BY KeysTypes DEF COMPONENT_END, SUFFIX_END
  <2>2. ComponentKeys(v) \in Seq(Seq(Int)) /\ SuffixKeys(v) \in Seq(Seq(Int))
      BY KeysTypes
  <2> QED BY <2>1, <2>2, CatFacts, FlattenType
<1>2. /\ Key(v).components = ComponentKeys(v) /\ Key(v).letter = v.letter
      /\ Key(v).suffixes = SuffixKeys(v) /\ Key(v).rev = v.rev
    BY DEF Key, ComponentKeys, SuffixKeys, SuffixKey
<1>3. Bytes(Key(v)) = Cat(Cat(Cat(Cat(f, Cat(z, l)), g), e), r)
  <2>1. <<COMPONENT_END, v.letter>> = Cat(z, l)
      BY DEF Cat, One
  <2>2. Bytes(Key(v)) = (((f \o <<COMPONENT_END, v.letter>>) \o g) \o <<SUFFIX_END>>) \o <<v.rev>>
      BY <1>2 DEF Bytes, BeforeRevision
  <2> QED BY <2>1, <2>2 DEF Cat, One
<1> HIDE DEF f, g, z, l, e, r
<1>4. /\ Cat(z, l) \in Seq(Int) /\ Cat(e, r) \in Seq(Int) /\ Cat(g, Cat(e, r)) \in Seq(Int)
      /\ Cat(l, Cat(g, Cat(e, r))) \in Seq(Int) /\ Cat(f, Cat(z, l)) \in Seq(Int)
      /\ Cat(Cat(f, Cat(z, l)), g) \in Seq(Int)
      /\ Cat(z, Cat(l, Cat(g, Cat(e, r)))) \in Seq(Int)
    BY <1>1, CatFacts
<1>5. Cat(Cat(Cat(Cat(f, Cat(z, l)), g), e), r) = Cat(Cat(Cat(f, Cat(z, l)), g), Cat(e, r))
    BY <1>1, <1>4, CatFacts
<1>6. Cat(Cat(Cat(f, Cat(z, l)), g), Cat(e, r)) = Cat(Cat(f, Cat(z, l)), Cat(g, Cat(e, r)))
    BY <1>1, <1>4, CatFacts
<1>7. Cat(Cat(f, Cat(z, l)), Cat(g, Cat(e, r))) = Cat(f, Cat(Cat(z, l), Cat(g, Cat(e, r))))
    BY <1>1, <1>4, CatFacts
<1>8. Cat(Cat(z, l), Cat(g, Cat(e, r))) = Cat(z, Cat(l, Cat(g, Cat(e, r))))
    BY <1>1, <1>4, CatFacts
<1>9. TailBytes(v) = Cat(g, Cat(e, r))
    BY DEF TailBytes, g, e, r
<1> QED BY <1>3, <1>4, <1>5, <1>6, <1>7, <1>8, <1>9 DEF f, z, l

(* Where two versions part, in the suffixes and in the components.         *)
LEMMA SuffixesPart ==
    ASSUME NEW v, NEW w, IsVersion(v), IsVersion(w), NEW s,
           s = Parting(v.suffixes, SharedSuffixes(v, w))
    PROVE  /\ s = Parting(w.suffixes, SharedSuffixes(w, v))
           /\ s \in 1 .. Len(v.suffixes) + 1 /\ s \in 1 .. Len(w.suffixes) + 1
           /\ \A j \in 1 .. s - 1 : SuffixKeys(v)[j] = SuffixKeys(w)[j]
           /\ (s \in 1 .. Len(v.suffixes) /\ s \in 1 .. Len(w.suffixes))
                 => ~SameSuffix(v.suffixes[s], w.suffixes[s])
<1>1. /\ Len(v.suffixes) \in Nat /\ DOMAIN v.suffixes = 1 .. Len(v.suffixes)
      /\ \A i \in 1 .. Len(v.suffixes) : /\ v.suffixes[i] \in Suffix
                                         /\ SuffixKeys(v)[i] = SuffixKey(v.suffixes[i])
    BY KeysTypes
<1>2. /\ Len(w.suffixes) \in Nat /\ DOMAIN w.suffixes = 1 .. Len(w.suffixes)
      /\ \A i \in 1 .. Len(w.suffixes) : /\ w.suffixes[i] \in Suffix
                                         /\ SuffixKeys(w)[i] = SuffixKey(w.suffixes[i])
    BY KeysTypes
<1>3. SharedSuffixes(v, w) = SharedSuffixes(w, v)
    BY DEF SharedSuffixes, Common, SameSuffix
<1>4. SharedSuffixes(v, w) \subseteq 1 .. Len(v.suffixes)
      /\ SharedSuffixes(v, w) \subseteq 1 .. Len(w.suffixes)
    BY <1>1, <1>2 DEF SharedSuffixes, Common
<1>5. s = Parting(w.suffixes, SharedSuffixes(v, w))
    BY <1>1, <1>2, <1>4, PartingSame
<1>6. s \in 1 .. Len(v.suffixes) + 1 /\ s \notin SharedSuffixes(v, w)
      /\ \A j \in 1 .. s - 1 : j \in SharedSuffixes(v, w)
    BY <1>1, <1>4, PartingAt
<1>7. s \in 1 .. Len(w.suffixes) + 1
    BY <1>2, <1>4, <1>5, PartingAt
<1>8. ASSUME NEW j \in 1 .. s - 1 PROVE SuffixKeys(v)[j] = SuffixKeys(w)[j]
  <2>1. j \in 1 .. Len(v.suffixes) /\ j \in 1 .. Len(w.suffixes)
        /\ SameSuffix(v.suffixes[j], w.suffixes[j])
      BY <1>4, <1>6 DEF SharedSuffixes
  <2> QED BY <1>1, <1>2, <2>1 DEF SameSuffix, SuffixKey
<1>9. (s \in 1 .. Len(v.suffixes) /\ s \in 1 .. Len(w.suffixes))
         => ~SameSuffix(v.suffixes[s], w.suffixes[s])
    BY <1>1, <1>2, <1>6 DEF SharedSuffixes, Common
<1> QED BY <1>3, <1>5, <1>6, <1>7, <1>8, <1>9

LEMMA NumsPart ==
    ASSUME NEW v, NEW w, IsVersion(v), IsVersion(w), NEW c,
           c = Parting(v.nums, SharedNums(v, w))
    PROVE  /\ c = Parting(w.nums, SharedNums(w, v))
           /\ c \in 1 .. Len(v.nums) + 1 /\ c \in 1 .. Len(w.nums) + 1
           /\ \A j \in 1 .. c - 1 : ComponentKeys(v)[j] = ComponentKeys(w)[j]
           /\ (c \in 1 .. Len(v.nums) /\ c \in 1 .. Len(w.nums))
                 => ~SameComponent(c, v.nums[c], w.nums[c])
<1>1. /\ Len(v.nums) \in Nat /\ DOMAIN v.nums = 1 .. Len(v.nums)
      /\ \A i \in 1 .. Len(v.nums) : /\ v.nums[i] \in Component
                                     /\ ComponentKeys(v)[i] = ComponentKey(i, v.nums[i])
    BY KeysTypes
<1>2. /\ Len(w.nums) \in Nat /\ DOMAIN w.nums = 1 .. Len(w.nums)
      /\ \A i \in 1 .. Len(w.nums) : /\ w.nums[i] \in Component
                                     /\ ComponentKeys(w)[i] = ComponentKey(i, w.nums[i])
    BY KeysTypes
<1>3. SharedNums(v, w) = SharedNums(w, v)
  <2>1. \A i : SameComponent(i, v.nums[i], w.nums[i]) <=> SameComponent(i, w.nums[i], v.nums[i])
      BY DEF SameComponent, StringOrder
  <2> QED BY <2>1 DEF SharedNums, Common
<1>4. SharedNums(v, w) \subseteq 1 .. Len(v.nums) /\ SharedNums(v, w) \subseteq 1 .. Len(w.nums)
    BY <1>1, <1>2 DEF SharedNums, Common
<1>5. c = Parting(w.nums, SharedNums(v, w))
    BY <1>1, <1>2, <1>4, PartingSame
<1>6. c \in 1 .. Len(v.nums) + 1 /\ c \notin SharedNums(v, w)
      /\ \A j \in 1 .. c - 1 : j \in SharedNums(v, w)
    BY <1>1, <1>4, PartingAt
<1>7. c \in 1 .. Len(w.nums) + 1
    BY <1>2, <1>4, <1>5, PartingAt
<1>8. ASSUME NEW j \in 1 .. c - 1 PROVE ComponentKeys(v)[j] = ComponentKeys(w)[j]
  <2>1. j \in 1 .. Len(v.nums) /\ j \in 1 .. Len(w.nums)
        /\ SameComponent(j, v.nums[j], w.nums[j])
      BY <1>4, <1>6 DEF SharedNums
  <2>2. j \in Nat \ {0} /\ v.nums[j] \in Component /\ w.nums[j] \in Component
      BY <1>1, <1>2, <2>1
  <2>3. ComponentKey(j, v.nums[j]) = ComponentKey(j, w.nums[j])
      BY <2>1, <2>2, SameKey
  <2> QED BY <1>1, <1>2, <2>1, <2>3
<1>9. (c \in 1 .. Len(v.nums) /\ c \in 1 .. Len(w.nums))
         => ~SameComponent(c, v.nums[c], w.nums[c])
    BY <1>1, <1>2, <1>6 DEF SharedNums, Common
<1> QED BY <1>3, <1>5, <1>6, <1>7, <1>8, <1>9

(* A suffix against another one and against the end, which is above the    *)
(* prereleases and below _p.                                               *)
LEMMA SuffixCat ==
    ASSUME NEW s \in Suffix, NEW t \in Suffix, NEW x \in Seq(Int), NEW y \in Seq(Int),
           ~SameSuffix(s, t)
    PROVE  /\ LexLess(Cat(SuffixKey(s), x), Cat(SuffixKey(t), y)) <=> LowerSuffix(s, t)
           /\ LowerSuffix(s, t) <=> ~LowerSuffix(t, s)
           /\ SuffixKey(s) # SuffixKey(t)
    BY SuffixOrder DEF Cat

LEMMA SuffixFirst ==
    ASSUME NEW s \in Suffix, NEW x \in Seq(Int), NEW y \in Seq(Int)
    PROVE  /\ LexLess(Cat(SuffixKey(s), x), Cat(One(SUFFIX_END), y)) <=> s.kind # P
           /\ LexLess(Cat(One(SUFFIX_END), y), Cat(SuffixKey(s), x)) <=> s.kind = P
<1>1. /\ s.kind \in {1, 2, 3, 4, 6} /\ Number(s) \in Nat
      /\ SuffixKey(s) = <<s.kind>> \o <<Number(s)>>
    BY SuffixForm
<1>2. s.kind \in Int /\ Number(s) \in Int /\ SUFFIX_END \in Int
    BY <1>1 DEF SUFFIX_END
<1>3. SuffixKey(s) = Cat(One(s.kind), One(Number(s)))
    BY <1>1 DEF Cat, One
<1>4. One(s.kind) \in Seq(Int) /\ One(Number(s)) \in Seq(Int)
    BY <1>2, CatFacts
<1>5. Cat(Cat(One(s.kind), One(Number(s))), x) = Cat(One(s.kind), Cat(One(Number(s)), x))
      /\ Cat(One(Number(s)), x) \in Seq(Int)
    BY <1>4, CatFacts
<1>6. /\ LexLess(Cat(One(s.kind), Cat(One(Number(s)), x)), Cat(One(SUFFIX_END), y))
            <=> s.kind < SUFFIX_END \/ (s.kind = SUFFIX_END /\ LexLess(Cat(One(Number(s)), x), y))
      /\ LexLess(Cat(One(SUFFIX_END), y), Cat(One(s.kind), Cat(One(Number(s)), x)))
            <=> SUFFIX_END < s.kind \/ (SUFFIX_END = s.kind /\ LexLess(y, Cat(One(Number(s)), x)))
    BY <1>2, <1>5, LexFacts
<1>7. /\ s.kind < SUFFIX_END <=> s.kind # P
      /\ SUFFIX_END < s.kind <=> s.kind = P
      /\ s.kind # SUFFIX_END
    BY <1>1 DEF SUFFIX_END, P
<1> QED BY <1>3, <1>5, <1>6, <1>7

(* After the letter: suffixes, then revision.                              *)
LEMMA TailOrder ==
    ASSUME NEW v, NEW w, IsVersion(v), IsVersion(w)
    PROVE  /\ LexLess(TailBytes(v), TailBytes(w)) <=> LowerTail(v, w)
           /\ (SuffixKeys(v) = SuffixKeys(w) /\ v.rev = w.rev)
                 <=> (~LowerTail(v, w) /\ ~LowerTail(w, v))
<1> DEFINE s == Parting(v.suffixes, SharedSuffixes(v, w))
           m == Len(v.suffixes)
           n == Len(w.suffixes)
           k == SuffixKeys(v)
           l == SuffixKeys(w)
           x == Cat(One(SUFFIX_END), One(v.rev))
           y == Cat(One(SUFFIX_END), One(w.rev))
<1>1. /\ k \in Seq(Seq(Int)) /\ Len(k) = m /\ m \in Nat /\ DOMAIN v.suffixes = 1 .. m
      /\ \A i \in 1 .. m : v.suffixes[i] \in Suffix /\ k[i] = SuffixKey(v.suffixes[i])
      /\ v.rev \in Int
    BY KeysTypes
<1>2. /\ l \in Seq(Seq(Int)) /\ Len(l) = n /\ n \in Nat /\ DOMAIN w.suffixes = 1 .. n
      /\ \A i \in 1 .. n : w.suffixes[i] \in Suffix /\ l[i] = SuffixKey(w.suffixes[i])
      /\ w.rev \in Int
    BY KeysTypes
<1>3. /\ s = Parting(w.suffixes, SharedSuffixes(w, v))
      /\ s \in 1 .. m + 1 /\ s \in 1 .. n + 1
      /\ \A j \in 1 .. s - 1 : k[j] = l[j]
      /\ (s \in 1 .. m /\ s \in 1 .. n) => ~SameSuffix(v.suffixes[s], w.suffixes[s])
    BY SuffixesPart
<1>4. /\ x \in Seq(Int) /\ y \in Seq(Int)
      /\ One(SUFFIX_END) \in Seq(Int) /\ One(v.rev) \in Seq(Int) /\ One(w.rev) \in Seq(Int)
      /\ SUFFIX_END \in Int
  <2>1. SUFFIX_END \in Int
      BY DEF SUFFIX_END
  <2>2. One(SUFFIX_END) \in Seq(Int) /\ One(v.rev) \in Seq(Int) /\ One(w.rev) \in Seq(Int)
      BY <1>1, <1>2, <2>1, CatFacts
  <2> QED BY <2>1, <2>2, CatFacts
<1>5. TailBytes(v) = Cat(FlattenSeq(k), x) /\ TailBytes(w) = Cat(FlattenSeq(l), y)
    BY DEF TailBytes
<1>6. /\ LowerTail(v, w) <=>
             CASE s \in 1 .. m /\ s \in 1 .. n -> LowerSuffix(v.suffixes[s], w.suffixes[s])
               [] s \in (1 .. n) \ (1 .. m) -> w.suffixes[s].kind = P
               [] s \in (1 .. m) \ (1 .. n) -> v.suffixes[s].kind # P
               [] OTHER -> v.rev < w.rev
      /\ LowerTail(w, v) <=>
             CASE s \in 1 .. m /\ s \in 1 .. n -> LowerSuffix(w.suffixes[s], v.suffixes[s])
               [] s \in (1 .. m) \ (1 .. n) -> v.suffixes[s].kind = P
               [] s \in (1 .. n) \ (1 .. m) -> w.suffixes[s].kind # P
               [] OTHER -> w.rev < v.rev
    BY <1>1, <1>2, <1>3 DEF LowerTail, Common
<1> HIDE DEF s, m, n, k, l, x, y
<1>7. CASE s \in 1 .. m /\ s \in 1 .. n
  <2>1. v.suffixes[s] \in Suffix /\ w.suffixes[s] \in Suffix
        /\ k[s] = SuffixKey(v.suffixes[s]) /\ l[s] = SuffixKey(w.suffixes[s])
      BY <1>1, <1>2, <1>7
  <2>2. PICK r \in Seq(Int), q \in Seq(Int) :
            LexLess(Cat(FlattenSeq(k), x), Cat(FlattenSeq(l), y)) <=> LexLess(Cat(k[s], r), Cat(l[s], q))
    <3>1. s \in 1 .. Len(k) /\ s \in 1 .. Len(l)
        BY <1>1, <1>2, <1>7
    <3>2. k \in Seq(Seq(Int)) /\ l \in Seq(Seq(Int)) /\ x \in Seq(Int) /\ y \in Seq(Int)
        BY <1>1, <1>2, <1>4
    <3>3. \A j \in 1 .. s - 1 : k[j] = l[j]
        BY <1>3
    <3> QED BY <3>1, <3>2, <3>3, ListsPart
  <2>3. /\ LexLess(Cat(k[s], r), Cat(l[s], q)) <=> LowerSuffix(v.suffixes[s], w.suffixes[s])
        /\ LowerSuffix(v.suffixes[s], w.suffixes[s]) <=> ~LowerSuffix(w.suffixes[s], v.suffixes[s])
        /\ k[s] # l[s]
      BY <1>3, <1>7, <2>1, <2>2, SuffixCat
  <2>4. /\ LowerTail(v, w) <=> LowerSuffix(v.suffixes[s], w.suffixes[s])
        /\ LowerTail(w, v) <=> LowerSuffix(w.suffixes[s], v.suffixes[s])
      BY <1>6, <1>7
  <2> QED BY <1>5, <2>2, <2>3, <2>4 DEF k, l
<1>8. CASE s \in 1 .. n /\ s \notin 1 .. m
  <2>1. w.suffixes[s] \in Suffix /\ l[s] = SuffixKey(w.suffixes[s]) /\ Len(k) = s - 1
        /\ s \in 1 .. Len(l) /\ Len(k) # Len(l)
      BY <1>1, <1>2, <1>3, <1>8
  <2>2. PICK r \in Seq(Int) :
            LexLess(Cat(FlattenSeq(k), x), Cat(FlattenSeq(l), y)) <=> LexLess(x, Cat(l[s], r))
    <3>1. \A j \in 1 .. s - 1 : l[j] = k[j]
        BY <1>3
    <3>2. \E r \in Seq(Int) :
             /\ LexLess(Cat(FlattenSeq(l), y), Cat(FlattenSeq(k), x)) <=> LexLess(Cat(l[s], r), x)
             /\ LexLess(Cat(FlattenSeq(k), x), Cat(FlattenSeq(l), y)) <=> LexLess(x, Cat(l[s], r))
        BY <1>1, <1>2, <1>4, <2>1, <3>1, ListLonger
    <3> QED BY <3>2
  <2>3. LexLess(x, Cat(l[s], r)) <=> w.suffixes[s].kind = P
      BY <1>4, <2>1, <2>2, SuffixFirst DEF x
  <2>4. /\ LowerTail(v, w) <=> w.suffixes[s].kind = P
        /\ LowerTail(w, v) <=> w.suffixes[s].kind # P
      BY <1>6, <1>8
  <2> QED BY <1>5, <2>1, <2>2, <2>3, <2>4 DEF k, l
<1>9. CASE s \in 1 .. m /\ s \notin 1 .. n
  <2>1. v.suffixes[s] \in Suffix /\ k[s] = SuffixKey(v.suffixes[s]) /\ Len(l) = s - 1
        /\ s \in 1 .. Len(k) /\ Len(k) # Len(l)
      BY <1>1, <1>2, <1>3, <1>9
  <2>2. PICK r \in Seq(Int) :
            LexLess(Cat(FlattenSeq(k), x), Cat(FlattenSeq(l), y)) <=> LexLess(Cat(k[s], r), y)
    <3>1. k \in Seq(Seq(Int)) /\ l \in Seq(Seq(Int)) /\ x \in Seq(Int) /\ y \in Seq(Int)
        BY <1>1, <1>2, <1>4
    <3>2. \E r \in Seq(Int) :
             /\ LexLess(Cat(FlattenSeq(k), x), Cat(FlattenSeq(l), y)) <=> LexLess(Cat(k[s], r), y)
             /\ LexLess(Cat(FlattenSeq(l), y), Cat(FlattenSeq(k), x)) <=> LexLess(y, Cat(k[s], r))
      <4>1. s \in 1 .. Len(k) /\ Len(l) = s - 1 /\ \A j \in 1 .. s - 1 : k[j] = l[j]
          BY <1>3, <2>1
      <4> QED BY <3>1, <4>1, ListLonger
    <3> QED BY <3>2
  <2>3. LexLess(Cat(k[s], r), y) <=> v.suffixes[s].kind # P
      BY <1>4, <2>1, <2>2, SuffixFirst DEF y
  <2>4. /\ LowerTail(v, w) <=> v.suffixes[s].kind # P
        /\ LowerTail(w, v) <=> v.suffixes[s].kind = P
      BY <1>6, <1>9
  <2> QED BY <1>5, <2>1, <2>2, <2>3, <2>4 DEF k, l
<1>10. CASE s \notin 1 .. m /\ s \notin 1 .. n
  <2>1. m = s - 1 /\ n = s - 1
      BY <1>1, <1>2, <1>3, <1>10
  <2>2. k = l /\ (LexLess(Cat(FlattenSeq(k), x), Cat(FlattenSeq(l), y)) <=> LexLess(x, y))
      BY <1>1, <1>2, <1>3, <1>4, <2>1, ListsSame
  <2>3. LexLess(x, y) <=> v.rev < w.rev
    <3>1. LexLess(x, y) <=> LexLess(One(v.rev), One(w.rev))
        BY <1>4, LexFacts DEF x, y
    <3> QED BY <1>1, <1>2, <3>1, OneOrder
  <2>4. /\ LowerTail(v, w) <=> v.rev < w.rev
        /\ LowerTail(w, v) <=> w.rev < v.rev
      BY <1>6, <1>10
  <2>5. v.rev = w.rev <=> ~(v.rev < w.rev) /\ ~(w.rev < v.rev)
      BY <1>1, <1>2
  <2> QED BY <1>5, <2>2, <2>3, <2>4, <2>5 DEF k, l
<1> QED BY <1>7, <1>8, <1>9, <1>10

(* A component against another one and against the end, below all others.  *)
LEMMA ComponentCat ==
    ASSUME NEW i \in Nat \ {0}, NEW c \in Component, NEW d \in Component,
           NEW x \in Seq(Int), NEW y \in Seq(Int), ~SameComponent(i, c, d)
    PROVE  /\ LexLess(Cat(ComponentKey(i, c), x), Cat(ComponentKey(i, d), y))
                  <=> LowerComponent(i, c, d)
           /\ LowerComponent(i, c, d) <=> ~LowerComponent(i, d, c)
           /\ ComponentKey(i, c) # ComponentKey(i, d)
    BY ComponentOrder DEF Cat

LEMMA ComponentFirst ==
    ASSUME NEW i \in Nat \ {0, 1}, NEW c \in Component, NEW x \in Seq(Int), NEW y \in Seq(Int)
    PROVE  /\ ~LexLess(Cat(ComponentKey(i, c), x), Cat(One(COMPONENT_END), y))
           /\ LexLess(Cat(One(COMPONENT_END), y), Cat(ComponentKey(i, c), x))
<1>1. PICK b \in {ZERO_LED, NUMERIC}, e \in Seq(Int) : ComponentKey(i, c) = Cat(One(b), e)
  <2>1. i \in Nat \ {0} /\ i # 1
      OBVIOUS
  <2>2. /\ c.value \in Nat
        /\ ~ZeroLed(c) => ComponentKey(i, c) = <<NUMERIC>> \o <<c.value>>
        /\ ZeroLed(c) => ComponentKey(i, c) = <<ZERO_LED>> \o Enc(String(c))
      BY <2>1, ComponentForm
  <2>3. Enc(String(c)) \in Seq(Int)
    <3>1. String(c) \in Seq(Nat)
        BY StringShape
    <3> QED BY <3>1, EncShape, EmptySeq
  <2>4. c.value \in Int
      BY <2>2
  <2>5. One(c.value) \in Seq(Int)
      BY <2>4, CatFacts
  <2>6. CASE ZeroLed(c)
    <3>1. ComponentKey(i, c) = Cat(One(ZERO_LED), Enc(String(c)))
        BY <2>2, <2>6 DEF Cat, One
    <3> QED BY <2>3, <3>1
  <2>7. CASE ~ZeroLed(c)
    <3>1. ComponentKey(i, c) = Cat(One(NUMERIC), One(c.value))
        BY <2>2, <2>7 DEF Cat, One
    <3> QED BY <2>5, <3>1
  <2> QED BY <2>6, <2>7
<1>2. b \in Int /\ COMPONENT_END \in Int /\ COMPONENT_END < b
    BY <1>1 DEF ZERO_LED, NUMERIC, COMPONENT_END
<1>3. One(b) \in Seq(Int)
    BY <1>2, CatFacts
<1>4. Cat(Cat(One(b), e), x) = Cat(One(b), Cat(e, x)) /\ Cat(e, x) \in Seq(Int)
    BY <1>1, <1>3, CatFacts
<1>5. /\ LexLess(Cat(One(b), Cat(e, x)), Cat(One(COMPONENT_END), y))
            <=> b < COMPONENT_END \/ (b = COMPONENT_END /\ LexLess(Cat(e, x), y))
      /\ LexLess(Cat(One(COMPONENT_END), y), Cat(One(b), Cat(e, x)))
            <=> COMPONENT_END < b \/ (COMPONENT_END = b /\ LexLess(y, Cat(e, x)))
    BY <1>2, <1>4, LexFacts
<1> QED BY <1>1, <1>2, <1>4, <1>5

(* The whole.                                                              *)
LEMMA VersionOrder ==
    ASSUME NEW v, NEW w, IsVersion(v), IsVersion(w)
    PROVE  /\ Less(v, w) <=> PmsLess(v, w)
           /\ Key(v) = Key(w) <=> (~PmsLess(v, w) /\ ~PmsLess(w, v))
<1> DEFINE c == Parting(v.nums, SharedNums(v, w))
           m == Len(v.nums)
           n == Len(w.nums)
           k == ComponentKeys(v)
           l == ComponentKeys(w)
           g == Cat(One(v.letter), TailBytes(v))
           h == Cat(One(w.letter), TailBytes(w))
           x == Cat(One(COMPONENT_END), g)
           y == Cat(One(COMPONENT_END), h)
<1>1. /\ k \in Seq(Seq(Int)) /\ Len(k) = m /\ m \in Nat \ {0} /\ DOMAIN v.nums = 1 .. m
      /\ \A i \in 1 .. m : v.nums[i] \in Component /\ k[i] = ComponentKey(i, v.nums[i])
      /\ v.letter \in Int
    BY KeysTypes
<1>2. /\ l \in Seq(Seq(Int)) /\ Len(l) = n /\ n \in Nat \ {0} /\ DOMAIN w.nums = 1 .. n
      /\ \A i \in 1 .. n : w.nums[i] \in Component /\ l[i] = ComponentKey(i, w.nums[i])
      /\ w.letter \in Int
    BY KeysTypes
<1>3. /\ c = Parting(w.nums, SharedNums(w, v))
      /\ c \in 1 .. m + 1 /\ c \in 1 .. n + 1
      /\ \A j \in 1 .. c - 1 : k[j] = l[j]
      /\ (c \in 1 .. m /\ c \in 1 .. n) => ~SameComponent(c, v.nums[c], w.nums[c])
    BY NumsPart
<1>4. /\ x \in Seq(Int) /\ y \in Seq(Int) /\ g \in Seq(Int) /\ h \in Seq(Int)
      /\ TailBytes(v) \in Seq(Int) /\ TailBytes(w) \in Seq(Int) /\ COMPONENT_END \in Int
    BY BytesForm DEF COMPONENT_END
<1>5. Less(v, w) <=> LexLess(Cat(FlattenSeq(k), x), Cat(FlattenSeq(l), y))
  <2>1. Bytes(Key(v)) = Cat(FlattenSeq(k), x) /\ Bytes(Key(w)) = Cat(FlattenSeq(l), y)
      BY BytesForm
  <2> QED BY <2>1 DEF Less
<1>6. /\ PmsLess(v, w) <=>
             CASE c \in 1 .. m /\ c \in 1 .. n -> LowerComponent(c, v.nums[c], w.nums[c])
               [] c \in (1 .. n) \ (1 .. m) -> TRUE
               [] c \in (1 .. m) \ (1 .. n) -> FALSE
               [] OTHER -> v.letter < w.letter \/ (v.letter = w.letter /\ LowerTail(v, w))
      /\ PmsLess(w, v) <=>
             CASE c \in 1 .. m /\ c \in 1 .. n -> LowerComponent(c, w.nums[c], v.nums[c])
               [] c \in (1 .. m) \ (1 .. n) -> TRUE
               [] c \in (1 .. n) \ (1 .. m) -> FALSE
               [] OTHER -> w.letter < v.letter \/ (w.letter = v.letter /\ LowerTail(w, v))
    BY <1>1, <1>2, <1>3 DEF PmsLess, Common
<1>7. Key(v) = Key(w) <=> /\ k = l /\ v.letter = w.letter
                          /\ SuffixKeys(v) = SuffixKeys(w) /\ v.rev = w.rev
    BY DEF Key, ComponentKeys, SuffixKeys, SuffixKey
<1> HIDE DEF c, m, n, k, l, x, y, g, h
<1>8. CASE c \in 1 .. m /\ c \in 1 .. n
  <2>1. /\ v.nums[c] \in Component /\ w.nums[c] \in Component /\ c \in Nat \ {0}
        /\ k[c] = ComponentKey(c, v.nums[c]) /\ l[c] = ComponentKey(c, w.nums[c])
      BY <1>1, <1>2, <1>8
  <2>2. PICK r \in Seq(Int), q \in Seq(Int) :
            LexLess(Cat(FlattenSeq(k), x), Cat(FlattenSeq(l), y)) <=> LexLess(Cat(k[c], r), Cat(l[c], q))
    <3>1. c \in 1 .. Len(k) /\ c \in 1 .. Len(l)
        BY <1>1, <1>2, <1>8
    <3>2. k \in Seq(Seq(Int)) /\ l \in Seq(Seq(Int)) /\ x \in Seq(Int) /\ y \in Seq(Int)
        BY <1>1, <1>2, <1>4
    <3>3. \A j \in 1 .. c - 1 : k[j] = l[j]
        BY <1>3
    <3> QED BY <3>1, <3>2, <3>3, ListsPart
  <2>3. /\ LexLess(Cat(k[c], r), Cat(l[c], q)) <=> LowerComponent(c, v.nums[c], w.nums[c])
        /\ LowerComponent(c, v.nums[c], w.nums[c]) <=> ~LowerComponent(c, w.nums[c], v.nums[c])
        /\ k[c] # l[c]
      BY <1>3, <1>8, <2>1, <2>2, ComponentCat
  <2>4. /\ PmsLess(v, w) <=> LowerComponent(c, v.nums[c], w.nums[c])
        /\ PmsLess(w, v) <=> LowerComponent(c, w.nums[c], v.nums[c])
      BY <1>6, <1>8
  <2> QED BY <1>5, <1>7, <2>2, <2>3, <2>4
<1>9. CASE c \in 1 .. n /\ c \notin 1 .. m
  <2>1. w.nums[c] \in Component /\ l[c] = ComponentKey(c, w.nums[c]) /\ Len(k) = c - 1
        /\ c \in 1 .. Len(l) /\ Len(k) # Len(l) /\ c \in Nat \ {0, 1}
      BY <1>1, <1>2, <1>3, <1>9
  <2>2. PICK r \in Seq(Int) :
            LexLess(Cat(FlattenSeq(k), x), Cat(FlattenSeq(l), y)) <=> LexLess(x, Cat(l[c], r))
    <3>1. \A j \in 1 .. c - 1 : l[j] = k[j]
        BY <1>3
    <3>2. \E r \in Seq(Int) :
             /\ LexLess(Cat(FlattenSeq(l), y), Cat(FlattenSeq(k), x)) <=> LexLess(Cat(l[c], r), x)
             /\ LexLess(Cat(FlattenSeq(k), x), Cat(FlattenSeq(l), y)) <=> LexLess(x, Cat(l[c], r))
        BY <1>1, <1>2, <1>4, <2>1, <3>1, ListLonger
    <3> QED BY <3>2
  <2>3. LexLess(x, Cat(l[c], r))
      BY <1>4, <2>1, <2>2, ComponentFirst DEF x
  <2>4. PmsLess(v, w) /\ ~PmsLess(w, v)
      BY <1>6, <1>9
  <2> QED BY <1>5, <1>7, <2>1, <2>2, <2>3, <2>4
<1>10. CASE c \in 1 .. m /\ c \notin 1 .. n
  <2>1. v.nums[c] \in Component /\ k[c] = ComponentKey(c, v.nums[c]) /\ Len(l) = c - 1
        /\ c \in 1 .. Len(k) /\ Len(k) # Len(l) /\ c \in Nat \ {0, 1}
      BY <1>1, <1>2, <1>3, <1>10
  <2>2. PICK r \in Seq(Int) :
            LexLess(Cat(FlattenSeq(k), x), Cat(FlattenSeq(l), y)) <=> LexLess(Cat(k[c], r), y)
    <3>1. k \in Seq(Seq(Int)) /\ l \in Seq(Seq(Int)) /\ x \in Seq(Int) /\ y \in Seq(Int)
        BY <1>1, <1>2, <1>4
    <3>2. \E r \in Seq(Int) :
             /\ LexLess(Cat(FlattenSeq(k), x), Cat(FlattenSeq(l), y)) <=> LexLess(Cat(k[c], r), y)
             /\ LexLess(Cat(FlattenSeq(l), y), Cat(FlattenSeq(k), x)) <=> LexLess(y, Cat(k[c], r))
      <4>1. c \in 1 .. Len(k) /\ Len(l) = c - 1 /\ \A j \in 1 .. c - 1 : k[j] = l[j]
          BY <1>3, <2>1
      <4> QED BY <3>1, <4>1, ListLonger
    <3> QED BY <3>2
  <2>3. ~LexLess(Cat(k[c], r), y)
      BY <1>4, <2>1, <2>2, ComponentFirst DEF y
  <2>4. ~PmsLess(v, w) /\ PmsLess(w, v)
      BY <1>6, <1>10
  <2> QED BY <1>5, <1>7, <2>1, <2>2, <2>3, <2>4
<1>11. CASE c \notin 1 .. m /\ c \notin 1 .. n
  <2>1. m = c - 1 /\ n = c - 1
      BY <1>1, <1>2, <1>3, <1>11
  <2>2. k = l /\ (LexLess(Cat(FlattenSeq(k), x), Cat(FlattenSeq(l), y)) <=> LexLess(x, y))
      BY <1>1, <1>2, <1>3, <1>4, <2>1, ListsSame
  <2>3. LexLess(x, y) <=> LexLess(g, h)
      BY <1>4, LexFacts DEF x, y
  <2>4. LexLess(g, h) <=> \/ v.letter < w.letter
                          \/ v.letter = w.letter /\ LexLess(TailBytes(v), TailBytes(w))
      BY <1>1, <1>2, <1>4, LexFacts DEF g, h
  <2>5. /\ LexLess(TailBytes(v), TailBytes(w)) <=> LowerTail(v, w)
        /\ (SuffixKeys(v) = SuffixKeys(w) /\ v.rev = w.rev)
              <=> (~LowerTail(v, w) /\ ~LowerTail(w, v))
      BY TailOrder
  <2>6. /\ PmsLess(v, w) <=> v.letter < w.letter \/ (v.letter = w.letter /\ LowerTail(v, w))
        /\ PmsLess(w, v) <=> w.letter < v.letter \/ (w.letter = v.letter /\ LowerTail(w, v))
      BY <1>6, <1>11
  <2>7. v.letter = w.letter <=> ~(v.letter < w.letter) /\ ~(w.letter < v.letter)
      BY <1>1, <1>2
  <2> QED BY <1>5, <1>7, <2>2, <2>3, <2>4, <2>5, <2>6, <2>7
<1> QED BY <1>8, <1>9, <1>10, <1>11

(* "Comparing them as bytes is comparing the versions (PMS Algorithms      *)
(* 3.1-3.7)" (encoding.rs), zero-led components, missing numbers and all:  *)
(* whatever the versions, as many components and digits as they have.      *)
THEOREM KeysAreOrdered == VSSpec => []KeyOrder
<1> DEFINE Given == dep.v \in Patterns
<1>1. VSInit => Given
    BY DEF VSInit
<1>2. Given /\ [VSNext]_vsvars => Given'
    BY DEF VSNext, Candidate, vsvars
<1>3. Given => KeyOrder
  <2> SUFFICES ASSUME Given, NEW c \in Universe
               PROVE  /\ Less(c, dep.v) <=> PmsLess(c, dep.v)
                      /\ (Key(c) = Key(dep.v)) <=> (~PmsLess(c, dep.v) /\ ~PmsLess(dep.v, c))
      BY DEF KeyOrder
  <2>1. IsVersion(c) /\ IsVersion(dep.v)
    <3>1. c \in Universe /\ dep.v \in Patterns
        BY DEF Given
    <3> QED BY <3>1, VersionSetAssumption
  <2> QED BY <2>1, VersionOrder
<1> QED BY <1>1, <1>2, <1>3, PTL DEF VSSpec

LEMMA LexTransitive ==
    ASSUME NEW x \in Seq(Int), NEW y \in Seq(Int), NEW z \in Seq(Int),
           LexLess(x, y), LexLess(y, z)
    PROVE  LexLess(x, z)
<1>1. PICK i \in DOMAIN y : /\ \A j \in 1 .. i - 1 : j \in DOMAIN x /\ x[j] = y[j]
                            /\ i \in DOMAIN x => x[i] < y[i]
    BY DEF LexLess
<1>2. PICK k \in DOMAIN z : /\ \A j \in 1 .. k - 1 : j \in DOMAIN y /\ y[j] = z[j]
                            /\ k \in DOMAIN y => y[k] < z[k]
    BY DEF LexLess
<1>3. /\ i \in 1 .. Len(y) /\ k \in 1 .. Len(z)
      /\ DOMAIN x = 1 .. Len(x) /\ DOMAIN y = 1 .. Len(y) /\ DOMAIN z = 1 .. Len(z)
      /\ Len(x) \in Nat /\ Len(y) \in Nat /\ Len(z) \in Nat
      /\ \A j \in DOMAIN x : x[j] \in Int
      /\ \A j \in DOMAIN y : y[j] \in Int
      /\ \A j \in DOMAIN z : z[j] \in Int
    BY LenProperties, ElementOfSeq
<1>4. CASE i < k
  <2>1. i \in DOMAIN z /\ i \in 1 .. k - 1
      BY <1>3, <1>4
  <2>2. \A j \in 1 .. i - 1 : j \in 1 .. k - 1
      BY <1>3, <1>4
  <2>3. \A j \in 1 .. i - 1 : j \in DOMAIN x /\ x[j] = z[j]
      BY <1>1, <1>2, <2>2
  <2>4. i \in DOMAIN x => x[i] < z[i]
      BY <1>1, <1>2, <2>1
  <2> QED BY <2>1, <2>3, <2>4 DEF LexLess
<1>5. CASE k <= i
  <2>1. \A j \in 1 .. k - 1 : j \in 1 .. i - 1
      BY <1>3, <1>5
  <2>2. \A j \in 1 .. k - 1 : j \in DOMAIN x /\ x[j] = z[j]
      BY <1>1, <1>2, <2>1
  <2>3. k \in DOMAIN x => x[k] < z[k]
    <3>1. k \in DOMAIN y /\ y[k] < z[k]
        BY <1>2, <1>3, <1>5
    <3>2. k # i => k \in 1 .. i - 1
        BY <1>3, <1>5
    <3> QED BY <1>1, <1>3, <3>1, <3>2
  <2> QED BY <2>2, <2>3 DEF LexLess
<1> QED BY <1>3, <1>4, <1>5

LEMMA BytesType == ASSUME NEW v, IsVersion(v) PROVE Bytes(Key(v)) \in Seq(Int)
<1>1. ComponentKeys(v) \in Seq(Seq(Int))
    BY KeysTypes
<1>2. FlattenSeq(ComponentKeys(v)) \in Seq(Int)
    BY <1>1, FlattenType
<1>3. /\ Bytes(Key(v)) = Cat(FlattenSeq(ComponentKeys(v)),
                             Cat(One(COMPONENT_END), Cat(One(v.letter), TailBytes(v))))
      /\ Cat(One(COMPONENT_END), Cat(One(v.letter), TailBytes(v))) \in Seq(Int)
    BY BytesForm
<1> QED BY <1>2, <1>3, CatFacts

(* Version::cmp is a total order of the keys, and the bytes lose nothing   *)
(* of the key: versions are equal, and the same entry of a map or a set,   *)
(* just when no field of the key tells them apart.                         *)
THEOREM VersionsTotallyOrdered ==
    ASSUME NEW u, NEW v, NEW w, IsVersion(u), IsVersion(v), IsVersion(w)
    PROVE  /\ ~(Less(v, w) /\ Less(w, v))
           /\ Less(v, w) \/ Less(w, v) \/ Key(v) = Key(w)
           /\ Bytes(Key(v)) = Bytes(Key(w)) <=> Key(v) = Key(w)
           /\ (Less(u, v) /\ Less(v, w)) => Less(u, w)
<1>1. Bytes(Key(u)) \in Seq(Int) /\ Bytes(Key(v)) \in Seq(Int) /\ Bytes(Key(w)) \in Seq(Int)
    BY BytesType
<1>2. ~(Less(v, w) /\ Less(w, v))
    BY <1>1, LexAsymmetric DEF Less
<1>3. /\ Less(v, w) <=> PmsLess(v, w)
      /\ Less(w, v) <=> PmsLess(w, v)
      /\ Key(v) = Key(w) <=> (~PmsLess(v, w) /\ ~PmsLess(w, v))
    BY VersionOrder
<1>4. Bytes(Key(v)) = Bytes(Key(w)) => ~Less(v, w) /\ ~Less(w, v)
    BY <1>1, LexAsymmetric DEF Less
<1>5. (Less(u, v) /\ Less(v, w)) => Less(u, w)
    BY <1>1, LexTransitive DEF Less
<1> QED BY <1>2, <1>3, <1>4, <1>5

-----------------------------------------------------------------------------
(* The ranges of `=V*` and `~V`, for any versions.  First what decides     *)
(* between two versions, as a rule for each place they can part in: a      *)
(* component, the number of components, the letter, a suffix, the number   *)
(* of suffixes, the revision.                                              *)

(* Where two versions part.                                                *)
NumAt(a, b, p) ==
    /\ p \in 1 .. Len(a.nums) /\ p \in 1 .. Len(b.nums)
    /\ \A j \in 1 .. p - 1 : ComponentKeys(a)[j] = ComponentKeys(b)[j]
    /\ ComponentKeys(a)[p] # ComponentKeys(b)[p]
NumsShort(a, b) ==
    /\ Len(a.nums) < Len(b.nums)
    /\ \A j \in 1 .. Len(a.nums) : ComponentKeys(a)[j] = ComponentKeys(b)[j]
SameNums(a, b) == ComponentKeys(a) = ComponentKeys(b)
Alike(a, b) == SameNums(a, b) /\ a.letter = b.letter
SuffixAt(a, b, s) ==
    /\ s \in 1 .. Len(a.suffixes) /\ s \in 1 .. Len(b.suffixes)
    /\ \A j \in 1 .. s - 1 : SuffixKeys(a)[j] = SuffixKeys(b)[j]
    /\ SuffixKeys(a)[s] # SuffixKeys(b)[s]
SuffixesShort(a, b) ==
    /\ Len(a.suffixes) < Len(b.suffixes)
    /\ \A j \in 1 .. Len(a.suffixes) : SuffixKeys(a)[j] = SuffixKeys(b)[j]
SameSuffixes(a, b) == SuffixKeys(a) = SuffixKeys(b)

LEMMA LessIs ==
    ASSUME NEW a, NEW b, IsVersion(a), IsVersion(b)
    PROVE  /\ Less(a, b) <=> PmsLess(a, b)
           /\ Less(b, a) <=> PmsLess(b, a)
    BY VersionOrder

LEMMA NumRule ==
    ASSUME NEW a, NEW b, IsVersion(a), IsVersion(b), NEW p, NumAt(a, b, p)
    PROVE  /\ Less(a, b) <=> LowerComponent(p, a.nums[p], b.nums[p])
           /\ Less(b, a) <=> LowerComponent(p, b.nums[p], a.nums[p])
           /\ Less(a, b) <=> ~Less(b, a)
<1> DEFINE c == Parting(a.nums, SharedNums(a, b))
<1>1. /\ Len(a.nums) \in Nat /\ DOMAIN a.nums = 1 .. Len(a.nums)
      /\ \A i \in 1 .. Len(a.nums) : /\ a.nums[i] \in Component
                                     /\ ComponentKeys(a)[i] = ComponentKey(i, a.nums[i])
    BY KeysTypes
<1>2. /\ Len(b.nums) \in Nat /\ DOMAIN b.nums = 1 .. Len(b.nums)
      /\ \A i \in 1 .. Len(b.nums) : /\ b.nums[i] \in Component
                                     /\ ComponentKeys(b)[i] = ComponentKey(i, b.nums[i])
    BY KeysTypes
<1>3. /\ c = Parting(b.nums, SharedNums(b, a))
      /\ c \in 1 .. Len(a.nums) + 1
      /\ \A j \in 1 .. c - 1 : ComponentKeys(a)[j] = ComponentKeys(b)[j]
      /\ (c \in 1 .. Len(a.nums) /\ c \in 1 .. Len(b.nums)) => ~SameComponent(c, a.nums[c], b.nums[c])
    BY NumsPart
<1> HIDE DEF c
<1>4. /\ p \in 1 .. Len(a.nums) /\ p \in 1 .. Len(b.nums)
      /\ \A j \in 1 .. p - 1 : ComponentKeys(a)[j] = ComponentKeys(b)[j]
      /\ ComponentKeys(a)[p] # ComponentKeys(b)[p]
    BY DEF NumAt
<1>5. ~(p < c)
    BY <1>1, <1>3, <1>4
<1>6. ~(c < p)
  <2> SUFFICES ASSUME c < p PROVE FALSE
      OBVIOUS
  <2>1. c \in 1 .. p - 1 /\ c \in 1 .. Len(a.nums) /\ c \in 1 .. Len(b.nums) /\ c \in Nat \ {0}
      BY <1>1, <1>2, <1>3, <1>4
  <2>2. ComponentKey(c, a.nums[c]) = ComponentKey(c, b.nums[c])
      BY <1>1, <1>2, <1>4, <2>1
  <2>3. SameComponent(c, a.nums[c], b.nums[c])
      BY <1>1, <1>2, <2>1, <2>2, SameKey
  <2> QED BY <1>3, <2>1, <2>3
<1>7. c = p
    BY <1>1, <1>3, <1>4, <1>5, <1>6
<1>8. /\ PmsLess(a, b) <=> LowerComponent(p, a.nums[p], b.nums[p])
      /\ PmsLess(b, a) <=> LowerComponent(p, b.nums[p], a.nums[p])
    BY <1>1, <1>2, <1>3, <1>4, <1>7 DEF PmsLess, Common, c
<1>9. LowerComponent(p, a.nums[p], b.nums[p]) <=> ~LowerComponent(p, b.nums[p], a.nums[p])
  <2>1. <<>> \in Seq(Int) /\ p \in Nat \ {0} /\ a.nums[p] \in Component /\ b.nums[p] \in Component
      BY <1>1, <1>2, <1>4
  <2>2. ~SameComponent(p, a.nums[p], b.nums[p])
      BY <1>1, <1>2, <1>3, <1>4, <1>7
  <2> QED BY <2>1, <2>2, ComponentCat
<1> QED BY <1>8, <1>9, LessIs

LEMMA NumsRule ==
    ASSUME NEW a, NEW b, IsVersion(a), IsVersion(b), NumsShort(a, b)
    PROVE  Less(a, b) /\ ~Less(b, a)
<1> DEFINE c == Parting(a.nums, SharedNums(a, b))
<1>1. Len(a.nums) \in Nat /\ DOMAIN a.nums = 1 .. Len(a.nums)
      /\ \A i \in 1 .. Len(a.nums) : /\ a.nums[i] \in Component
                                     /\ ComponentKeys(a)[i] = ComponentKey(i, a.nums[i])
    BY KeysTypes
<1>2. Len(b.nums) \in Nat /\ DOMAIN b.nums = 1 .. Len(b.nums)
      /\ \A i \in 1 .. Len(b.nums) : /\ b.nums[i] \in Component
                                     /\ ComponentKeys(b)[i] = ComponentKey(i, b.nums[i])
    BY KeysTypes
<1>3. /\ c = Parting(b.nums, SharedNums(b, a))
      /\ c \in 1 .. Len(a.nums) + 1
      /\ (c \in 1 .. Len(a.nums) /\ c \in 1 .. Len(b.nums)) => ~SameComponent(c, a.nums[c], b.nums[c])
    BY NumsPart
<1> HIDE DEF c
<1>4. /\ Len(a.nums) < Len(b.nums)
      /\ \A j \in 1 .. Len(a.nums) : ComponentKeys(a)[j] = ComponentKeys(b)[j]
    BY DEF NumsShort
<1>5. c = Len(a.nums) + 1
  <2> SUFFICES ASSUME c # Len(a.nums) + 1 PROVE FALSE
      OBVIOUS
  <2>1. c \in 1 .. Len(a.nums) /\ c \in 1 .. Len(b.nums) /\ c \in Nat \ {0}
      BY <1>1, <1>2, <1>3, <1>4
  <2>2. ComponentKey(c, a.nums[c]) = ComponentKey(c, b.nums[c])
      BY <1>1, <1>2, <1>4, <2>1
  <2>3. SameComponent(c, a.nums[c], b.nums[c])
      BY <1>1, <1>2, <2>1, <2>2, SameKey
  <2> QED BY <1>3, <2>1, <2>3
<1>6. PmsLess(a, b) /\ ~PmsLess(b, a)
    BY <1>1, <1>2, <1>3, <1>4, <1>5 DEF PmsLess, Common, c
<1> QED BY <1>6, LessIs

LEMMA NumsEqual ==
    ASSUME NEW a, NEW b, IsVersion(a), IsVersion(b), SameNums(a, b)
    PROVE  /\ PmsLess(a, b) <=> a.letter < b.letter \/ (a.letter = b.letter /\ LowerTail(a, b))
           /\ Len(a.nums) = Len(b.nums)
<1> DEFINE c == Parting(a.nums, SharedNums(a, b))
<1>1. Len(a.nums) \in Nat /\ DOMAIN a.nums = 1 .. Len(a.nums) /\ Len(ComponentKeys(a)) = Len(a.nums)
      /\ \A i \in 1 .. Len(a.nums) : /\ a.nums[i] \in Component
                                     /\ ComponentKeys(a)[i] = ComponentKey(i, a.nums[i])
    BY KeysTypes
<1>2. Len(b.nums) \in Nat /\ DOMAIN b.nums = 1 .. Len(b.nums) /\ Len(ComponentKeys(b)) = Len(b.nums)
      /\ \A i \in 1 .. Len(b.nums) : /\ b.nums[i] \in Component
                                     /\ ComponentKeys(b)[i] = ComponentKey(i, b.nums[i])
    BY KeysTypes
<1>3. /\ c \in 1 .. Len(a.nums) + 1
      /\ (c \in 1 .. Len(a.nums) /\ c \in 1 .. Len(b.nums)) => ~SameComponent(c, a.nums[c], b.nums[c])
    BY NumsPart
<1> HIDE DEF c
<1>4. Len(a.nums) = Len(b.nums)
    BY <1>1, <1>2 DEF SameNums
<1>5. c = Len(a.nums) + 1
  <2> SUFFICES ASSUME c # Len(a.nums) + 1 PROVE FALSE
      OBVIOUS
  <2>1. c \in 1 .. Len(a.nums) /\ c \in 1 .. Len(b.nums) /\ c \in Nat \ {0}
      BY <1>1, <1>2, <1>3, <1>4
  <2>2. ComponentKey(c, a.nums[c]) = ComponentKey(c, b.nums[c])
      BY <1>1, <1>2, <2>1 DEF SameNums
  <2>3. SameComponent(c, a.nums[c], b.nums[c])
      BY <1>1, <1>2, <2>1, <2>2, SameKey
  <2> QED BY <1>3, <2>1, <2>3
<1>6. PmsLess(a, b) <=> a.letter < b.letter \/ (a.letter = b.letter /\ LowerTail(a, b))
    BY <1>1, <1>2, <1>4, <1>5 DEF PmsLess, Common, c
<1> QED BY <1>4, <1>6

LEMMA SameNumsSwap == \A a, b : SameNums(a, b) <=> SameNums(b, a)
    BY DEF SameNums

LEMMA LetterRule ==
    ASSUME NEW a, NEW b, IsVersion(a), IsVersion(b), SameNums(a, b), a.letter # b.letter
    PROVE  /\ Less(a, b) <=> a.letter < b.letter
           /\ Less(b, a) <=> b.letter < a.letter
<1>1. PmsLess(a, b) <=> a.letter < b.letter
    BY NumsEqual
<1>2. PmsLess(b, a) <=> b.letter < a.letter
    BY NumsEqual, SameNumsSwap
<1> QED BY <1>1, <1>2, LessIs

LEMMA TailRule ==
    ASSUME NEW a, NEW b, IsVersion(a), IsVersion(b), Alike(a, b)
    PROVE  /\ Less(a, b) <=> LowerTail(a, b)
           /\ Less(b, a) <=> LowerTail(b, a)
<1>1. SameNums(a, b) /\ SameNums(b, a) /\ a.letter = b.letter /\ a.letter \in Int
    BY KeysTypes, SameNumsSwap DEF Alike
<1>2. PmsLess(a, b) <=> LowerTail(a, b)
    BY <1>1, NumsEqual
<1>3. PmsLess(b, a) <=> LowerTail(b, a)
    BY <1>1, NumsEqual
<1> QED BY <1>2, <1>3, LessIs

LEMMA SuffixRule ==
    ASSUME NEW a, NEW b, IsVersion(a), IsVersion(b), Alike(a, b), NEW s, SuffixAt(a, b, s)
    PROVE  /\ Less(a, b) <=> LowerSuffix(a.suffixes[s], b.suffixes[s])
           /\ Less(b, a) <=> LowerSuffix(b.suffixes[s], a.suffixes[s])
           /\ Less(a, b) <=> ~Less(b, a)
<1> DEFINE c == Parting(a.suffixes, SharedSuffixes(a, b))
<1>1. /\ Len(a.suffixes) \in Nat /\ DOMAIN a.suffixes = 1 .. Len(a.suffixes)
      /\ \A i \in 1 .. Len(a.suffixes) : /\ a.suffixes[i] \in Suffix
                                         /\ SuffixKeys(a)[i] = SuffixKey(a.suffixes[i])
    BY KeysTypes
<1>2. /\ Len(b.suffixes) \in Nat /\ DOMAIN b.suffixes = 1 .. Len(b.suffixes)
      /\ \A i \in 1 .. Len(b.suffixes) : /\ b.suffixes[i] \in Suffix
                                         /\ SuffixKeys(b)[i] = SuffixKey(b.suffixes[i])
    BY KeysTypes
<1>3. /\ c = Parting(b.suffixes, SharedSuffixes(b, a))
      /\ c \in 1 .. Len(a.suffixes) + 1
      /\ \A j \in 1 .. c - 1 : SuffixKeys(a)[j] = SuffixKeys(b)[j]
      /\ (c \in 1 .. Len(a.suffixes) /\ c \in 1 .. Len(b.suffixes))
            => ~SameSuffix(a.suffixes[c], b.suffixes[c])
    BY SuffixesPart
<1> HIDE DEF c
<1>4. /\ s \in 1 .. Len(a.suffixes) /\ s \in 1 .. Len(b.suffixes)
      /\ \A j \in 1 .. s - 1 : SuffixKeys(a)[j] = SuffixKeys(b)[j]
      /\ SuffixKeys(a)[s] # SuffixKeys(b)[s]
    BY DEF SuffixAt
<1>5. ~(s < c)
    BY <1>1, <1>3, <1>4
<1>6. ~(c < s)
  <2> SUFFICES ASSUME c < s PROVE FALSE
      OBVIOUS
  <2>1. c \in 1 .. s - 1 /\ c \in 1 .. Len(a.suffixes) /\ c \in 1 .. Len(b.suffixes)
      BY <1>1, <1>2, <1>3, <1>4
  <2>2. SuffixKey(a.suffixes[c]) = SuffixKey(b.suffixes[c])
      BY <1>1, <1>2, <1>4, <2>1
  <2>3. SameSuffix(a.suffixes[c], b.suffixes[c])
      BY <2>2 DEF SuffixKey, SameSuffix
  <2> QED BY <1>3, <2>1, <2>3
<1>7. c = s
    BY <1>1, <1>3, <1>4, <1>5, <1>6
<1>8. /\ LowerTail(a, b) <=> LowerSuffix(a.suffixes[s], b.suffixes[s])
      /\ LowerTail(b, a) <=> LowerSuffix(b.suffixes[s], a.suffixes[s])
    BY <1>1, <1>2, <1>3, <1>4, <1>7 DEF LowerTail, Common, c
<1>9. LowerSuffix(a.suffixes[s], b.suffixes[s]) <=> ~LowerSuffix(b.suffixes[s], a.suffixes[s])
  <2>1. <<>> \in Seq(Int) /\ a.suffixes[s] \in Suffix /\ b.suffixes[s] \in Suffix
      BY <1>1, <1>2, <1>4
  <2>2. ~SameSuffix(a.suffixes[s], b.suffixes[s])
      BY <1>1, <1>2, <1>3, <1>4, <1>7
  <2> QED BY <2>1, <2>2, SuffixCat
<1> QED BY <1>8, <1>9, TailRule

LEMMA SuffixesRule ==
    ASSUME NEW a, NEW b, IsVersion(a), IsVersion(b), Alike(a, b), SuffixesShort(a, b)
    PROVE  /\ Less(a, b) <=> b.suffixes[Len(a.suffixes) + 1].kind = P
           /\ Less(b, a) <=> b.suffixes[Len(a.suffixes) + 1].kind # P
<1> DEFINE c == Parting(a.suffixes, SharedSuffixes(a, b))
<1>1. /\ Len(a.suffixes) \in Nat /\ DOMAIN a.suffixes = 1 .. Len(a.suffixes)
      /\ \A i \in 1 .. Len(a.suffixes) : SuffixKeys(a)[i] = SuffixKey(a.suffixes[i])
    BY KeysTypes
<1>2. /\ Len(b.suffixes) \in Nat /\ DOMAIN b.suffixes = 1 .. Len(b.suffixes)
      /\ \A i \in 1 .. Len(b.suffixes) : SuffixKeys(b)[i] = SuffixKey(b.suffixes[i])
    BY KeysTypes
<1>3. /\ c = Parting(b.suffixes, SharedSuffixes(b, a))
      /\ c \in 1 .. Len(a.suffixes) + 1
      /\ (c \in 1 .. Len(a.suffixes) /\ c \in 1 .. Len(b.suffixes))
            => ~SameSuffix(a.suffixes[c], b.suffixes[c])
    BY SuffixesPart
<1> HIDE DEF c
<1>4. /\ Len(a.suffixes) < Len(b.suffixes)
      /\ \A j \in 1 .. Len(a.suffixes) : SuffixKeys(a)[j] = SuffixKeys(b)[j]
    BY DEF SuffixesShort
<1>5. c = Len(a.suffixes) + 1
  <2> SUFFICES ASSUME c # Len(a.suffixes) + 1 PROVE FALSE
      OBVIOUS
  <2>1. c \in 1 .. Len(a.suffixes) /\ c \in 1 .. Len(b.suffixes)
      BY <1>1, <1>2, <1>3, <1>4
  <2>2. SuffixKey(a.suffixes[c]) = SuffixKey(b.suffixes[c])
      BY <1>1, <1>2, <1>4, <2>1
  <2>3. SameSuffix(a.suffixes[c], b.suffixes[c])
      BY <2>2 DEF SuffixKey, SameSuffix
  <2> QED BY <1>3, <2>1, <2>3
<1>6. /\ LowerTail(a, b) <=> b.suffixes[Len(a.suffixes) + 1].kind = P
      /\ LowerTail(b, a) <=> b.suffixes[Len(a.suffixes) + 1].kind # P
    BY <1>1, <1>2, <1>3, <1>4, <1>5 DEF LowerTail, Common, c
<1> QED BY <1>6, TailRule

LEMMA RevRule ==
    ASSUME NEW a, NEW b, IsVersion(a), IsVersion(b), Alike(a, b), SameSuffixes(a, b)
    PROVE  /\ Less(a, b) <=> a.rev < b.rev
           /\ Less(b, a) <=> b.rev < a.rev
<1> DEFINE c == Parting(a.suffixes, SharedSuffixes(a, b))
<1>1. /\ Len(a.suffixes) \in Nat /\ DOMAIN a.suffixes = 1 .. Len(a.suffixes)
      /\ Len(SuffixKeys(a)) = Len(a.suffixes)
      /\ \A i \in 1 .. Len(a.suffixes) : SuffixKeys(a)[i] = SuffixKey(a.suffixes[i])
    BY KeysTypes
<1>2. /\ Len(b.suffixes) \in Nat /\ DOMAIN b.suffixes = 1 .. Len(b.suffixes)
      /\ Len(SuffixKeys(b)) = Len(b.suffixes)
      /\ \A i \in 1 .. Len(b.suffixes) : SuffixKeys(b)[i] = SuffixKey(b.suffixes[i])
    BY KeysTypes
<1>3. /\ c = Parting(b.suffixes, SharedSuffixes(b, a))
      /\ c \in 1 .. Len(a.suffixes) + 1
      /\ (c \in 1 .. Len(a.suffixes) /\ c \in 1 .. Len(b.suffixes))
            => ~SameSuffix(a.suffixes[c], b.suffixes[c])
    BY SuffixesPart
<1> HIDE DEF c
<1>4. Len(a.suffixes) = Len(b.suffixes)
    BY <1>1, <1>2 DEF SameSuffixes
<1>5. c = Len(a.suffixes) + 1
  <2> SUFFICES ASSUME c # Len(a.suffixes) + 1 PROVE FALSE
      OBVIOUS
  <2>1. c \in 1 .. Len(a.suffixes) /\ c \in 1 .. Len(b.suffixes)
      BY <1>1, <1>2, <1>3, <1>4
  <2>2. SuffixKey(a.suffixes[c]) = SuffixKey(b.suffixes[c])
      BY <1>1, <1>2, <2>1 DEF SameSuffixes
  <2>3. SameSuffix(a.suffixes[c], b.suffixes[c])
      BY <2>2 DEF SuffixKey, SameSuffix
  <2> QED BY <1>3, <2>1, <2>3
<1>6. /\ LowerTail(a, b) <=> a.rev < b.rev
      /\ LowerTail(b, a) <=> b.rev < a.rev
    BY <1>1, <1>2, <1>3, <1>4, <1>5 DEF LowerTail, Common, c
<1> QED BY <1>6, TailRule

(* Two versions part in one of these ways.                                 *)
LEMMA NumsCases ==
    ASSUME NEW a, NEW b, IsVersion(a), IsVersion(b)
    PROVE  \/ \E p \in 1 .. Len(a.nums) : NumAt(a, b, p)
           \/ NumsShort(a, b) \/ NumsShort(b, a) \/ SameNums(a, b)
<1> DEFINE c == Parting(a.nums, SharedNums(a, b))
<1>1. /\ ComponentKeys(a) \in Seq(Seq(Int)) /\ Len(ComponentKeys(a)) = Len(a.nums)
      /\ Len(a.nums) \in Nat
      /\ \A i \in 1 .. Len(a.nums) : /\ a.nums[i] \in Component
                                     /\ ComponentKeys(a)[i] = ComponentKey(i, a.nums[i])
    BY KeysTypes
<1>2. /\ ComponentKeys(b) \in Seq(Seq(Int)) /\ Len(ComponentKeys(b)) = Len(b.nums)
      /\ Len(b.nums) \in Nat
      /\ \A i \in 1 .. Len(b.nums) : /\ b.nums[i] \in Component
                                     /\ ComponentKeys(b)[i] = ComponentKey(i, b.nums[i])
    BY KeysTypes
<1>3. /\ c \in 1 .. Len(a.nums) + 1 /\ c \in 1 .. Len(b.nums) + 1
      /\ \A j \in 1 .. c - 1 : ComponentKeys(a)[j] = ComponentKeys(b)[j]
      /\ (c \in 1 .. Len(a.nums) /\ c \in 1 .. Len(b.nums)) => ~SameComponent(c, a.nums[c], b.nums[c])
    BY NumsPart
<1> HIDE DEF c
<1>4. CASE c \in 1 .. Len(a.nums) /\ c \in 1 .. Len(b.nums)
  <2>1. c \in Nat \ {0} /\ ~SameComponent(c, a.nums[c], b.nums[c])
      BY <1>1, <1>3, <1>4
  <2>2. ComponentKey(c, a.nums[c]) # ComponentKey(c, b.nums[c])
      BY <1>1, <1>2, <1>4, <2>1, SameKey
  <2>3. NumAt(a, b, c)
      BY <1>1, <1>2, <1>3, <1>4, <2>2 DEF NumAt
  <2> QED BY <1>4, <2>3
<1>5. CASE c = Len(a.nums) + 1 /\ c # Len(b.nums) + 1
  <2>1. NumsShort(a, b)
      BY <1>1, <1>2, <1>3, <1>5 DEF NumsShort
  <2> QED BY <2>1
<1>6. CASE c # Len(a.nums) + 1 /\ c = Len(b.nums) + 1
  <2>1. NumsShort(b, a)
      BY <1>1, <1>2, <1>3, <1>6 DEF NumsShort
  <2> QED BY <2>1
<1>7. CASE c = Len(a.nums) + 1 /\ c = Len(b.nums) + 1
  <2>1. Len(a.nums) = Len(b.nums) /\ \A j \in 1 .. Len(a.nums) : ComponentKeys(a)[j] = ComponentKeys(b)[j]
      BY <1>1, <1>2, <1>3, <1>7
  <2>2. ComponentKeys(a) = ComponentKeys(b)
      BY <1>1, <1>2, <2>1, SeqEqual
  <2> QED BY <2>2 DEF SameNums
<1>8. c \in 1 .. Len(a.nums) \/ c = Len(a.nums) + 1
    BY <1>1, <1>3
<1>9. c \in 1 .. Len(b.nums) \/ c = Len(b.nums) + 1
    BY <1>2, <1>3
<1> QED BY <1>4, <1>5, <1>6, <1>7, <1>8, <1>9

LEMMA SuffixesCases ==
    ASSUME NEW a, NEW b, IsVersion(a), IsVersion(b)
    PROVE  \/ \E s \in 1 .. Len(a.suffixes) : SuffixAt(a, b, s)
           \/ SuffixesShort(a, b) \/ SuffixesShort(b, a) \/ SameSuffixes(a, b)
<1> DEFINE c == Parting(a.suffixes, SharedSuffixes(a, b))
<1>1. /\ SuffixKeys(a) \in Seq(Seq(Int)) /\ Len(SuffixKeys(a)) = Len(a.suffixes)
      /\ Len(a.suffixes) \in Nat
      /\ \A i \in 1 .. Len(a.suffixes) : /\ a.suffixes[i] \in Suffix
                                         /\ SuffixKeys(a)[i] = SuffixKey(a.suffixes[i])
    BY KeysTypes
<1>2. /\ SuffixKeys(b) \in Seq(Seq(Int)) /\ Len(SuffixKeys(b)) = Len(b.suffixes)
      /\ Len(b.suffixes) \in Nat
      /\ \A i \in 1 .. Len(b.suffixes) : /\ b.suffixes[i] \in Suffix
                                         /\ SuffixKeys(b)[i] = SuffixKey(b.suffixes[i])
    BY KeysTypes
<1>3. /\ c \in 1 .. Len(a.suffixes) + 1 /\ c \in 1 .. Len(b.suffixes) + 1
      /\ \A j \in 1 .. c - 1 : SuffixKeys(a)[j] = SuffixKeys(b)[j]
      /\ (c \in 1 .. Len(a.suffixes) /\ c \in 1 .. Len(b.suffixes))
            => ~SameSuffix(a.suffixes[c], b.suffixes[c])
    BY SuffixesPart
<1> HIDE DEF c
<1>4. CASE c \in 1 .. Len(a.suffixes) /\ c \in 1 .. Len(b.suffixes)
  <2>1. a.suffixes[c] \in Suffix /\ b.suffixes[c] \in Suffix /\ <<>> \in Seq(Int)
      BY <1>1, <1>2, <1>4
  <2>2. SuffixKey(a.suffixes[c]) # SuffixKey(b.suffixes[c])
      BY <1>3, <1>4, <2>1, SuffixCat
  <2>3. SuffixAt(a, b, c)
      BY <1>1, <1>2, <1>3, <1>4, <2>2 DEF SuffixAt
  <2> QED BY <1>4, <2>3
<1>5. CASE c = Len(a.suffixes) + 1 /\ c # Len(b.suffixes) + 1
  <2>1. SuffixesShort(a, b)
      BY <1>1, <1>2, <1>3, <1>5 DEF SuffixesShort
  <2> QED BY <2>1
<1>6. CASE c # Len(a.suffixes) + 1 /\ c = Len(b.suffixes) + 1
  <2>1. SuffixesShort(b, a)
      BY <1>1, <1>2, <1>3, <1>6 DEF SuffixesShort
  <2> QED BY <2>1
<1>7. CASE c = Len(a.suffixes) + 1 /\ c = Len(b.suffixes) + 1
  <2>1. /\ Len(a.suffixes) = Len(b.suffixes)
        /\ \A j \in 1 .. Len(a.suffixes) : SuffixKeys(a)[j] = SuffixKeys(b)[j]
      BY <1>1, <1>2, <1>3, <1>7
  <2>2. SuffixKeys(a) = SuffixKeys(b)
      BY <1>1, <1>2, <2>1, SeqEqual
  <2> QED BY <2>2 DEF SameSuffixes
<1>8. c \in 1 .. Len(a.suffixes) \/ c = Len(a.suffixes) + 1
    BY <1>1, <1>3
<1>9. c \in 1 .. Len(b.suffixes) \/ c = Len(b.suffixes) + 1
    BY <1>2, <1>3
<1> QED BY <1>4, <1>5, <1>6, <1>7, <1>8, <1>9

(* A bound is a version changed from some place on.  A version that parts  *)
(* from the pattern before that place is on the same side of both (Far),   *)
(* and so only those that reach the place are left to look at.             *)

SameBody(x, y) == x.nums = y.nums /\ x.letter = y.letter
FirstSuffixes(x, y, k) ==
    /\ k \in Nat /\ k <= Len(x.suffixes) /\ k <= Len(y.suffixes)
    /\ \A j \in 1 .. k : x.suffixes[j] = y.suffixes[j]
(* c goes as far as the first k suffixes of x.                             *)
Reaches(c, x, k) ==
    /\ Alike(c, x) /\ k <= Len(c.suffixes)
    /\ \A j \in 1 .. k : SuffixKeys(c)[j] = SuffixKeys(x)[j]
Beneath(c, x) == Reaches(c, x, Len(x.suffixes))

LEMMA SameBodyAlike ==
    ASSUME NEW x, NEW y, SameBody(x, y)
    PROVE  /\ ComponentKeys(x) = ComponentKeys(y) /\ Len(x.nums) = Len(y.nums)
           /\ Alike(x, y) /\ Alike(y, x)
           /\ \A c : /\ SameNums(c, x) <=> SameNums(c, y)
                     /\ Alike(c, x) <=> Alike(c, y)
                     /\ Alike(x, c) <=> Alike(c, x)
    BY DEF SameBody, ComponentKeys, Alike, SameNums

(* Versions with the same components are on the same side of any other     *)
(* that has not.                                                           *)
LEMMA FarNums ==
    ASSUME NEW c, NEW x, NEW y, IsVersion(c), IsVersion(x), IsVersion(y),
           x.nums = y.nums, ~SameNums(c, x)
    PROVE  (Less(c, x) <=> Less(c, y)) /\ (Less(x, c) <=> Less(y, c))
<1>1. ComponentKeys(x) = ComponentKeys(y) /\ Len(x.nums) = Len(y.nums)
    BY DEF ComponentKeys
<1>2. ASSUME NEW p \in 1 .. Len(c.nums), NumAt(c, x, p)
      PROVE  (Less(c, x) <=> Less(c, y)) /\ (Less(x, c) <=> Less(y, c))
  <2>1. NumAt(c, y, p)
      BY <1>1, <1>2 DEF NumAt
  <2> QED BY <1>2, <2>1, NumRule
<1>3. ASSUME NumsShort(c, x)
      PROVE  (Less(c, x) <=> Less(c, y)) /\ (Less(x, c) <=> Less(y, c))
  <2>1. NumsShort(c, y)
      BY <1>1, <1>3 DEF NumsShort
  <2> QED BY <1>3, <2>1, NumsRule
<1>4. ASSUME NumsShort(x, c)
      PROVE  (Less(c, x) <=> Less(c, y)) /\ (Less(x, c) <=> Less(y, c))
  <2>1. NumsShort(y, c)
      BY <1>1, <1>4 DEF NumsShort
  <2> QED BY <1>4, <2>1, NumsRule
<1> QED BY <1>2, <1>3, <1>4, NumsCases

(* And so are versions that begin with the same suffixes, of any other     *)
(* that does not get as far.                                               *)
LEMMA Far ==
    ASSUME NEW c, NEW x, NEW y, IsVersion(c), IsVersion(x), IsVersion(y),
           SameBody(x, y), NEW k, FirstSuffixes(x, y, k), ~Reaches(c, x, k)
    PROVE  (Less(c, x) <=> Less(c, y)) /\ (Less(x, c) <=> Less(y, c)) /\ ~Reaches(c, y, k)
<1>1. /\ k \in Nat /\ k <= Len(x.suffixes) /\ k <= Len(y.suffixes)
      /\ \A j \in 1 .. k : x.suffixes[j] = y.suffixes[j]
    BY DEF FirstSuffixes
<1>2. /\ x.nums = y.nums /\ x.letter = y.letter
      /\ SameNums(c, x) <=> SameNums(c, y)
      /\ Alike(c, x) <=> Alike(c, y)
      /\ Alike(x, c) <=> Alike(c, x)
      /\ Alike(y, c) <=> Alike(c, y)
    BY SameBodyAlike DEF SameBody, Alike, SameNums
<1>3. /\ Len(x.suffixes) \in Nat /\ Len(y.suffixes) \in Nat /\ Len(c.suffixes) \in Nat
      /\ \A j \in 1 .. Len(x.suffixes) : SuffixKeys(x)[j] = SuffixKey(x.suffixes[j])
      /\ \A j \in 1 .. Len(y.suffixes) : SuffixKeys(y)[j] = SuffixKey(y.suffixes[j])
    BY KeysTypes
<1>4. \A j \in 1 .. k : SuffixKeys(x)[j] = SuffixKeys(y)[j]
    BY <1>1, <1>3
<1>5. ~Reaches(c, y, k)
    BY <1>2, <1>4 DEF Reaches
<1>6. CASE ~SameNums(c, x)
    BY <1>2, <1>5, <1>6, FarNums
<1>7. CASE SameNums(c, x) /\ c.letter # x.letter
  <2>1. SameNums(x, c) /\ SameNums(y, c) /\ SameNums(c, y) /\ c.letter # y.letter
      BY <1>2, <1>7, SameNumsSwap
  <2> QED BY <1>2, <1>5, <1>7, <2>1, LetterRule
<1>8. CASE Alike(c, x)
  <2>0. Alike(c, y) /\ Alike(x, c) /\ Alike(y, c)
      BY <1>2, <1>8
  <2>1. ASSUME NEW s \in 1 .. Len(c.suffixes), SuffixAt(c, x, s)
        PROVE  (Less(c, x) <=> Less(c, y)) /\ (Less(x, c) <=> Less(y, c))
    <3>1. /\ s \in 1 .. Len(x.suffixes)
          /\ \A j \in 1 .. s - 1 : SuffixKeys(c)[j] = SuffixKeys(x)[j]
          /\ SuffixKeys(c)[s] # SuffixKeys(x)[s]
        BY <2>1 DEF SuffixAt
    <3>2. s <= k
        BY <1>1, <1>3, <1>8, <2>1, <3>1 DEF Reaches
    <3>3. SuffixAt(c, y, s) /\ x.suffixes[s] = y.suffixes[s]
        BY <1>1, <1>3, <1>4, <2>1, <3>1, <3>2 DEF SuffixAt
    <3> QED BY <1>8, <2>0, <2>1, <3>3, SuffixRule
  <2>2. ASSUME SuffixesShort(c, x)
        PROVE  (Less(c, x) <=> Less(c, y)) /\ (Less(x, c) <=> Less(y, c))
    <3>1. /\ Len(c.suffixes) < Len(x.suffixes)
          /\ \A j \in 1 .. Len(c.suffixes) : SuffixKeys(c)[j] = SuffixKeys(x)[j]
        BY <2>2 DEF SuffixesShort
    <3>2. Len(c.suffixes) < k
        BY <1>1, <1>3, <1>8, <3>1 DEF Reaches
    <3>3. SuffixesShort(c, y)
        BY <1>1, <1>3, <1>4, <3>1, <3>2 DEF SuffixesShort
    <3>4. x.suffixes[Len(c.suffixes) + 1] = y.suffixes[Len(c.suffixes) + 1]
        BY <1>1, <1>3, <3>2
    <3> QED BY <1>8, <2>0, <2>2, <3>3, <3>4, SuffixesRule
  <2>3. ~SuffixesShort(x, c) /\ ~SameSuffixes(c, x)
    <3>1. SuffixesShort(x, c) => Reaches(c, x, k)
        BY <1>1, <1>3, <1>8 DEF SuffixesShort, Reaches
    <3>2. SameSuffixes(c, x) => Reaches(c, x, k)
        BY <1>1, <1>3, <1>8, KeysTypes DEF SameSuffixes, Reaches
    <3> QED BY <3>1, <3>2
  <2> QED BY <1>5, <2>1, <2>2, <2>3, SuffixesCases
<1> QED BY <1>6, <1>7, <1>8 DEF Alike

(* Versions made out of others are versions.                               *)
LEMMA VersionParts ==
    ASSUME NEW v, IsVersion(v)
    PROVE  /\ v.nums \in Seq(Component) /\ v.nums # <<>> /\ v.letter \in 0 .. MaxLetter
           /\ v.suffixes \in Seq(Suffix) /\ v.rev \in 0 .. MaxNum
    BY DEF IsVersion

LEMMA VersionMade ==
    ASSUME NEW n \in Seq(Component), n # <<>>, NEW l \in 0 .. MaxLetter,
           NEW s \in Seq(Suffix), NEW r \in 0 .. MaxNum
    PROVE  IsVersion([nums |-> n, letter |-> l, suffixes |-> s, rev |-> r])
    BY DEF IsVersion

LEMMA Suffixed ==
    ASSUME NEW v, IsVersion(v), NEW kind \in SuffixKinds, NEW u, u = WithSuffix(v, kind)
    PROVE  /\ IsVersion(u) /\ SameBody(u, v) /\ SameBody(v, u) /\ u.rev = v.rev
           /\ FirstSuffixes(u, v, Len(v.suffixes)) /\ FirstSuffixes(v, u, Len(v.suffixes))
           /\ Len(u.suffixes) = Len(v.suffixes) + 1
           /\ u.suffixes[Len(v.suffixes) + 1] = [kind |-> kind, num |-> Unnumbered]
<1> DEFINE e == [kind |-> kind, num |-> Unnumbered]
<1>1. /\ v.nums \in Seq(Component) /\ v.nums # <<>> /\ v.letter \in 0 .. MaxLetter
      /\ v.suffixes \in Seq(Suffix) /\ v.rev \in 0 .. MaxNum
    BY VersionParts
<1>2. e \in Suffix
    BY DEF Suffix
<1>3. u = [v EXCEPT !.suffixes = Append(v.suffixes, e)]
    BY DEF WithSuffix
<1>4. /\ u.nums = v.nums /\ u.letter = v.letter /\ u.rev = v.rev
      /\ u.suffixes = Append(v.suffixes, e)
      /\ u = [nums |-> v.nums, letter |-> v.letter, suffixes |-> Append(v.suffixes, e), rev |-> v.rev]
    BY <1>3 DEF IsVersion
<1> HIDE DEF e
<1>5. /\ Append(v.suffixes, e) \in Seq(Suffix) /\ Len(v.suffixes) \in Nat
      /\ Len(Append(v.suffixes, e)) = Len(v.suffixes) + 1
      /\ Append(v.suffixes, e)[Len(v.suffixes) + 1] = e
      /\ \A j \in 1 .. Len(v.suffixes) : Append(v.suffixes, e)[j] = v.suffixes[j]
    BY <1>1, <1>2, AppendProperties
<1>6. IsVersion(u)
    BY <1>1, <1>4, <1>5, VersionMade
<1> QED BY <1>4, <1>5, <1>6 DEF SameBody, FirstSuffixes, e

LEMMA WithoutRevision ==
    ASSUME NEW v, IsVersion(v), NEW u, u = Released(v)
    PROVE  /\ IsVersion(u) /\ SameBody(u, v) /\ SameBody(v, u) /\ u.rev = 0
           /\ u.suffixes = v.suffixes /\ SuffixKeys(u) = SuffixKeys(v)
           /\ v.rev = 0 => u = v
<1>1. /\ v.nums \in Seq(Component) /\ v.nums # <<>> /\ v.letter \in 0 .. MaxLetter
      /\ v.suffixes \in Seq(Suffix) /\ 0 \in 0 .. MaxNum
    BY VersionParts, VersionAssumption
<1>2. /\ u = [nums |-> v.nums, letter |-> v.letter, suffixes |-> v.suffixes, rev |-> 0]
      /\ v.rev = 0 => u = v
    BY DEF Released, IsVersion
<1>3. IsVersion(u)
    BY <1>1, <1>2, VersionMade
<1> QED BY <1>2, <1>3 DEF SameBody, SuffixKeys

(* The lower bound, and what is below an upper bound but not below the     *)
(* version its `_alpha` is put on.                                         *)

LEMMA PrefixIs ==
    ASSUME NEW s \in Seq(Seq(Int)), NEW t \in Seq(Seq(Int))
    PROVE  /\ IsPrefix(s, t) <=> Len(s) <= Len(t) /\ \A j \in 1 .. Len(s) : s[j] = t[j]
           /\ IsStrictPrefix(s, t) <=> Len(s) < Len(t) /\ \A j \in 1 .. Len(s) : s[j] = t[j]
<1>1. Len(s) \in Nat /\ Len(t) \in Nat
    BY LenProperties
<1>2. IsPrefix(s, t) <=> Len(s) <= Len(t) /\ \A j \in 1 .. Len(s) : s[j] = t[j]
  <2>1. SubSeq(s, 1, Len(s)) = [j \in 1 .. Len(s) |-> s[j]]
      BY <1>1
  <2>2. ASSUME Len(s) <= Len(t) PROVE SubSeq(t, 1, Len(s)) = [j \in 1 .. Len(s) |-> t[j]]
      BY <1>1, <2>2
  <2>3. (\A j \in 1 .. Len(s) : s[j] = t[j])
            <=> [j \in 1 .. Len(s) |-> s[j]] = [j \in 1 .. Len(s) |-> t[j]]
    <3> DEFINE f == [j \in 1 .. Len(s) |-> s[j]]
               g == [j \in 1 .. Len(s) |-> t[j]]
    <3>1. \A j \in 1 .. Len(s) : f[j] = s[j] /\ g[j] = t[j]
        OBVIOUS
    <3>2. (\A j \in 1 .. Len(s) : s[j] = t[j]) => f = g
        OBVIOUS
    <3>3. f = g => \A j \in 1 .. Len(s) : f[j] = g[j]
        OBVIOUS
    <3> QED BY <3>1, <3>2, <3>3
  <2> QED BY <2>1, <2>2, <2>3 DEF IsPrefix
<1>3. s = t <=> Len(s) = Len(t) /\ \A j \in 1 .. Len(s) : s[j] = t[j]
    BY SeqEqual
<1> QED BY <1>1, <1>2, <1>3 DEF IsStrictPrefix

LEMMA KeyIs ==
    ASSUME NEW v
    PROVE  /\ Key(v).components = ComponentKeys(v) /\ Key(v).suffixes = SuffixKeys(v)
           /\ Key(v).letter = v.letter /\ Key(v).rev = v.rev
    BY DEF Key, ComponentKeys, SuffixKeys, SuffixKey

LEMMA UnderIs ==
    ASSUME NEW c, NEW u, IsVersion(c), IsVersion(u)
    PROVE  Under(c, u) <=> Beneath(c, u) /\ Len(u.suffixes) < Len(c.suffixes)
<1>1. /\ SuffixKeys(c) \in Seq(Seq(Int)) /\ Len(SuffixKeys(c)) = Len(c.suffixes)
      /\ SuffixKeys(u) \in Seq(Seq(Int)) /\ Len(SuffixKeys(u)) = Len(u.suffixes)
      /\ Len(c.suffixes) \in Nat /\ Len(u.suffixes) \in Nat
    BY KeysTypes
<1>2. IsStrictPrefix(SuffixKeys(u), SuffixKeys(c)) <=>
          Len(u.suffixes) < Len(c.suffixes)
          /\ \A j \in 1 .. Len(u.suffixes) : SuffixKeys(u)[j] = SuffixKeys(c)[j]
    BY <1>1, PrefixIs
<1>3. Under(c, u) <=> Alike(c, u) /\ IsStrictPrefix(SuffixKeys(u), SuffixKeys(c))
    BY KeyIs DEF Under, Alike, SameNums
<1> QED BY <1>1, <1>2, <1>3 DEF Beneath, Reaches

(* What sorts under an _alpha bound without sorting under the version it   *)
(* is put on.                                                              *)
LEMMA AlphaBelow ==
    ASSUME NEW c, NEW x, IsVersion(c), IsVersion(x), x.rev = 0,
           NEW u, u = WithSuffix(x, Alpha), Beneath(c, x), Less(c, u)
    PROVE  Under(c, u)
<1> DEFINE m == Len(x.suffixes)
<1>1. /\ IsVersion(u) /\ SameBody(u, x) /\ SameBody(x, u) /\ u.rev = 0
      /\ Len(u.suffixes) = m + 1
      /\ \A j \in 1 .. m : u.suffixes[j] = x.suffixes[j]
      /\ u.suffixes[m + 1] = [kind |-> Alpha, num |-> Unnumbered]
    BY Suffixed DEF SuffixKinds, FirstSuffixes
<1>2. /\ m \in Nat /\ Len(c.suffixes) \in Nat
      /\ \A j \in 1 .. m : SuffixKeys(x)[j] = SuffixKey(x.suffixes[j])
      /\ \A j \in 1 .. m + 1 : SuffixKeys(u)[j] = SuffixKey(u.suffixes[j])
    BY <1>1, KeysTypes
<1>3. /\ Alike(c, x) /\ m <= Len(c.suffixes)
      /\ \A j \in 1 .. m : SuffixKeys(c)[j] = SuffixKeys(x)[j]
    BY DEF Beneath, Reaches
<1>4. Alike(c, u)
    BY <1>1, <1>3, SameBodyAlike
<1>5. \A j \in 1 .. m : SuffixKeys(c)[j] = SuffixKeys(u)[j]
    BY <1>1, <1>2, <1>3
<1>6. Len(c.suffixes) # m
  <2> SUFFICES ASSUME Len(c.suffixes) = m PROVE FALSE
      OBVIOUS
  <2>1. SuffixesShort(c, u)
      BY <1>1, <1>2, <1>5 DEF SuffixesShort
  <2> QED BY <1>1, <1>4, <2>1, SuffixesRule DEF Alpha, P
<1>7. /\ c.suffixes[m + 1] \in Suffix
      /\ SuffixKeys(c)[m + 1] = SuffixKey(c.suffixes[m + 1])
      /\ m + 1 \in 1 .. Len(c.suffixes)
    BY <1>2, <1>3, <1>6, KeysTypes
<1>8. SuffixKeys(c)[m + 1] = SuffixKeys(u)[m + 1]
  <2> SUFFICES ASSUME SuffixKeys(c)[m + 1] # SuffixKeys(u)[m + 1] PROVE FALSE
      OBVIOUS
  <2>1. SuffixAt(c, u, m + 1)
      BY <1>1, <1>2, <1>5, <1>7 DEF SuffixAt
  <2>2. LowerSuffix(c.suffixes[m + 1], u.suffixes[m + 1])
      BY <1>1, <1>4, <2>1, SuffixRule
  <2>3. c.suffixes[m + 1].kind \in {1, 2, 3, 4, 6} /\ Number(c.suffixes[m + 1]) \in Nat
      BY <1>7, SuffixForm
  <2>4. Number(u.suffixes[m + 1]) = 0 /\ u.suffixes[m + 1].kind = 1
      BY <1>1 DEF Number, Alpha
  <2> QED BY <2>2, <2>3, <2>4 DEF LowerSuffix
<1>9. Beneath(c, u)
    BY <1>1, <1>2, <1>4, <1>5, <1>7, <1>8 DEF Beneath, Reaches
<1>10. Len(c.suffixes) # m + 1
  <2> SUFFICES ASSUME Len(c.suffixes) = m + 1 PROVE FALSE
      OBVIOUS
  <2>1. SameSuffixes(c, u)
    <3>1. /\ SuffixKeys(c) \in Seq(Seq(Int)) /\ SuffixKeys(u) \in Seq(Seq(Int))
          /\ Len(SuffixKeys(c)) = m + 1 /\ Len(SuffixKeys(u)) = m + 1
        BY <1>1, KeysTypes
    <3>2. \A j \in 1 .. m + 1 : SuffixKeys(c)[j] = SuffixKeys(u)[j]
        BY <1>2, <1>5, <1>8
    <3> QED BY <3>1, <3>2, SeqEqual DEF SameSuffixes
  <2>2. c.rev < 0
      BY <1>1, <1>4, <2>1, RevRule
  <2> QED BY <2>2, VersionParts
<1> QED BY <1>1, <1>2, <1>7, <1>9, <1>10, UnderIs

LEMMA AlphaFar ==
    ASSUME NEW c, NEW x, IsVersion(c), IsVersion(x),
           NEW u, u = WithSuffix(x, Alpha), ~Beneath(c, x)
    PROVE  Less(c, u) <=> Less(c, x)
<1>1. /\ IsVersion(u) /\ SameBody(x, u) /\ FirstSuffixes(x, u, Len(x.suffixes))
    BY Suffixed DEF SuffixKinds
<1> QED BY <1>1, Far DEF Beneath

LEMMA MatchFront ==
    ASSUME NEW c, NEW v, IsVersion(c), IsVersion(v), GlobMatches(Key(c), v)
    PROVE  /\ Len(v.nums) <= Len(c.nums)
           /\ \A j \in 1 .. Len(v.nums) : ComponentKeys(c)[j] = ComponentKeys(v)[j]
<1>1. IsPrefix(ComponentKeys(v), ComponentKeys(c))
    BY KeyIs DEF GlobMatches
<1> QED BY <1>1, PrefixIs, KeysTypes

LEMMA TailAlike ==
    ASSUME NEW c, NEW v, IsVersion(c), IsVersion(v)
    PROVE  Alike(c, v) <=> /\ IsPrefix(ComponentKeys(v), ComponentKeys(c))
                           /\ Len(ComponentKeys(c)) = Len(ComponentKeys(v))
                           /\ c.letter = v.letter
<1>1. /\ ComponentKeys(v) \in Seq(Seq(Int)) /\ ComponentKeys(c) \in Seq(Seq(Int))
      /\ Len(ComponentKeys(v)) \in Nat
    BY KeysTypes
<1>2. IsPrefix(ComponentKeys(v), ComponentKeys(c)) <=>
          Len(ComponentKeys(v)) <= Len(ComponentKeys(c))
          /\ \A j \in 1 .. Len(ComponentKeys(v)) : ComponentKeys(v)[j] = ComponentKeys(c)[j]
    BY <1>1, PrefixIs
<1>3. ComponentKeys(c) = ComponentKeys(v) <=>
          Len(ComponentKeys(v)) = Len(ComponentKeys(c))
          /\ \A j \in 1 .. Len(ComponentKeys(v)) : ComponentKeys(v)[j] = ComponentKeys(c)[j]
    BY <1>1, SeqEqual
<1> QED BY <1>1, <1>2, <1>3 DEF Alike, SameNums

(* What GlobMatches asks, for each shape of pattern.                       *)
LEMMA MatchRevised ==
    ASSUME NEW c, NEW v, IsVersion(c), IsVersion(v), v.rev # 0
    PROVE  GlobMatches(Key(c), v) <=> Alike(c, v) /\ SameSuffixes(c, v) /\ c.rev = v.rev
<1>1. /\ SuffixKeys(v) \in Seq(Seq(Int)) /\ SuffixKeys(c) \in Seq(Seq(Int))
      /\ Len(SuffixKeys(v)) \in Nat /\ Len(SuffixKeys(c)) \in Nat
    BY KeysTypes
<1>2. SuffixKeys(c) = SuffixKeys(v) <=>
          Len(SuffixKeys(v)) = Len(SuffixKeys(c))
          /\ \A j \in 1 .. Len(SuffixKeys(v)) : SuffixKeys(v)[j] = SuffixKeys(c)[j]
    BY <1>1, SeqEqual
<1>3. /\ Key(v).components = ComponentKeys(v) /\ Key(c).components = ComponentKeys(c)
      /\ Key(v).suffixes = SuffixKeys(v) /\ Key(c).suffixes = SuffixKeys(c)
      /\ Key(v).letter = v.letter /\ Key(c).letter = c.letter
      /\ Key(v).rev = v.rev /\ Key(c).rev = c.rev
    BY KeyIs
<1>4. GlobMatches(Key(c), v) <=>
          /\ IsPrefix(ComponentKeys(v), ComponentKeys(c))
          /\ Len(ComponentKeys(c)) = Len(ComponentKeys(v))
          /\ c.letter = v.letter
          /\ Len(SuffixKeys(v)) <= Len(SuffixKeys(c))
          /\ Len(SuffixKeys(v)) = Len(SuffixKeys(c)) /\ c.rev = v.rev
          /\ \A i \in 1 .. Len(SuffixKeys(v)) : SuffixKeys(c)[i] = SuffixKeys(v)[i]
    BY <1>3 DEF GlobMatches
<1> QED BY <1>1, <1>2, <1>4, TailAlike DEF SameSuffixes

LEMMA MatchBeneath ==
    ASSUME NEW c, NEW v, IsVersion(c), IsVersion(v), v.rev = 0, ~LastSuffixUnnumbered(v),
           v.letter # 0 \/ v.suffixes # <<>>
    PROVE  GlobMatches(Key(c), v) <=> Beneath(c, v)
<1>1. /\ Len(SuffixKeys(v)) = Len(v.suffixes) /\ Len(SuffixKeys(c)) = Len(c.suffixes)
      /\ Len(v.suffixes) \in Nat /\ Len(c.suffixes) \in Nat
    BY KeysTypes
<1>2. v.letter # 0 \/ Len(v.suffixes) > 0
    BY <1>1, VersionParts, EmptySeq
<1>3. GlobMatches(Key(c), v) <=>
          /\ IsPrefix(ComponentKeys(v), ComponentKeys(c))
          /\ Len(ComponentKeys(c)) = Len(ComponentKeys(v))
          /\ c.letter = v.letter
          /\ Len(v.suffixes) <= Len(c.suffixes)
          /\ \A i \in 1 .. Len(v.suffixes) : SuffixKeys(c)[i] = SuffixKeys(v)[i]
    BY <1>1, <1>2, KeyIs DEF GlobMatches
<1> QED BY <1>3, TailAlike DEF Beneath, Reaches

LEMMA MatchKind ==
    ASSUME NEW c, NEW v, IsVersion(c), IsVersion(v), v.rev = 0, LastSuffixUnnumbered(v)
    PROVE  /\ Len(v.suffixes) \in Nat \ {0}
           /\ v.suffixes[Len(v.suffixes)].num = Unnumbered
           /\ GlobMatches(Key(c), v) <=>
                /\ Reaches(c, v, Len(v.suffixes) - 1)
                /\ Len(v.suffixes) <= Len(c.suffixes)
                /\ c.suffixes[Len(v.suffixes)].kind = v.suffixes[Len(v.suffixes)].kind
<1> DEFINE m == Len(v.suffixes)
<1>1. /\ Len(SuffixKeys(v)) = m /\ Len(SuffixKeys(c)) = Len(c.suffixes)
      /\ m \in Nat \ {0} /\ Len(c.suffixes) \in Nat
    BY KeysTypes, VersionParts, EmptySeq DEF LastSuffixUnnumbered
<1>2. GlobMatches(Key(c), v) <=>
          /\ IsPrefix(ComponentKeys(v), ComponentKeys(c))
          /\ Len(ComponentKeys(c)) = Len(ComponentKeys(v))
          /\ c.letter = v.letter
          /\ m <= Len(c.suffixes)
          /\ \A i \in 1 .. m : IF i = m THEN SuffixKeys(c)[i][1] = SuffixKeys(v)[i][1]
                               ELSE SuffixKeys(c)[i] = SuffixKeys(v)[i]
    BY <1>1, KeyIs DEF GlobMatches
<1>3. (\A i \in 1 .. m : IF i = m THEN SuffixKeys(c)[i][1] = SuffixKeys(v)[i][1]
                         ELSE SuffixKeys(c)[i] = SuffixKeys(v)[i])
         <=> /\ SuffixKeys(c)[m][1] = SuffixKeys(v)[m][1]
             /\ \A i \in 1 .. m - 1 : SuffixKeys(c)[i] = SuffixKeys(v)[i]
    BY <1>1
<1>4. ASSUME m <= Len(c.suffixes)
      PROVE  /\ SuffixKeys(c)[m][1] = c.suffixes[m].kind
             /\ SuffixKeys(v)[m][1] = v.suffixes[m].kind
  <2>1. m \in 1 .. Len(c.suffixes) /\ m \in 1 .. Len(v.suffixes)
      BY <1>1, <1>4
  <2>2. SuffixKeys(c)[m] = SuffixKey(c.suffixes[m]) /\ SuffixKeys(v)[m] = SuffixKey(v.suffixes[m])
      BY <2>1, KeysTypes
  <2> QED BY <2>2 DEF SuffixKey
<1>5. v.suffixes[m].num = Unnumbered
    BY <1>1 DEF LastSuffixUnnumbered, Last
<1>6. m <= Len(c.suffixes) => m - 1 <= Len(c.suffixes)
    BY <1>1
<1> QED BY <1>1, <1>2, <1>3, <1>4, <1>5, <1>6, TailAlike DEF Reaches

LEMMA MatchOpen ==
    ASSUME NEW c, NEW v, IsVersion(c), IsVersion(v), v.rev = 0, v.suffixes = <<>>, v.letter = 0
    PROVE  GlobMatches(Key(c), v) <=>
              /\ Len(v.nums) <= Len(c.nums)
              /\ \A j \in 1 .. Len(v.nums) : ComponentKeys(c)[j] = ComponentKeys(v)[j]
<1>1. /\ Len(SuffixKeys(v)) = 0 /\ Len(SuffixKeys(c)) \in Nat
    BY KeysTypes
<1>2. GlobMatches(Key(c), v) <=> IsPrefix(ComponentKeys(v), ComponentKeys(c))
    BY <1>1, KeyIs DEF GlobMatches
<1> QED BY <1>2, PrefixIs, KeysTypes

(* Whatever has the pattern in front matches it.                           *)
LEMMA BeneathMatches ==
    ASSUME NEW c, NEW v, IsVersion(c), IsVersion(v), v.rev = 0, Beneath(c, v)
    PROVE  GlobMatches(Key(c), v)
<1>1. CASE LastSuffixUnnumbered(v)
  <2>1. /\ Len(v.suffixes) \in Nat \ {0} /\ Len(v.suffixes) <= Len(c.suffixes)
        /\ Alike(c, v)
        /\ \A j \in 1 .. Len(v.suffixes) : SuffixKeys(c)[j] = SuffixKeys(v)[j]
        /\ Len(c.suffixes) \in Nat
      BY <1>1, MatchKind, KeysTypes DEF Beneath, Reaches
  <2>2. Reaches(c, v, Len(v.suffixes) - 1)
      BY <2>1 DEF Reaches
  <2>0. Len(v.suffixes) \in 1 .. Len(c.suffixes) /\ Len(v.suffixes) \in 1 .. Len(v.suffixes)
      BY <2>1
  <2>3. /\ SuffixKeys(c)[Len(v.suffixes)] = SuffixKey(c.suffixes[Len(v.suffixes)])
        /\ SuffixKeys(v)[Len(v.suffixes)] = SuffixKey(v.suffixes[Len(v.suffixes)])
        /\ SuffixKeys(c)[Len(v.suffixes)] = SuffixKeys(v)[Len(v.suffixes)]
      BY <2>0, <2>1, KeysTypes
  <2>4. c.suffixes[Len(v.suffixes)].kind = v.suffixes[Len(v.suffixes)].kind
      BY <2>3 DEF SuffixKey
  <2> QED BY <1>1, <2>1, <2>2, <2>4, MatchKind
<1>2. CASE ~LastSuffixUnnumbered(v) /\ (v.letter # 0 \/ v.suffixes # <<>>)
    BY <1>2, MatchBeneath
<1>3. CASE v.suffixes = <<>> /\ v.letter = 0
  <2>1. SameNums(c, v)
      BY DEF Beneath, Reaches, Alike
  <2>2. /\ Len(v.nums) \in Nat /\ Len(v.nums) = Len(c.nums)
        /\ \A j \in 1 .. Len(v.nums) : ComponentKeys(c)[j] = ComponentKeys(v)[j]
      BY <2>1, NumsEqual, KeysTypes DEF SameNums
  <2> QED BY <1>3, <2>2, MatchOpen
<1> QED BY <1>1, <1>2, <1>3

(* The upper bounds: each is above whatever matches, and nothing that does *)
(* not match is between the pattern and it.  For a suffix:                 *)

(* y is v up to its first k suffixes, and then e.                          *)
Over(y, v, k, e) ==
    /\ IsVersion(y) /\ SameBody(v, y) /\ y.rev = 0
    /\ FirstSuffixes(v, y, k) /\ k + 1 <= Len(v.suffixes)
    /\ Len(y.suffixes) = k + 1 /\ y.suffixes[k + 1] = e /\ e \in Suffix

LEMMA Fronted ==
    ASSUME NEW v, IsVersion(v), v.suffixes # <<>>,
           NEW u, u = [Released(v) EXCEPT !.suffixes = Front(@)]
    PROVE  /\ IsVersion(u) /\ SameBody(v, u) /\ SameBody(u, v) /\ u.rev = 0
           /\ Len(v.suffixes) \in Nat \ {0}
           /\ Len(u.suffixes) = Len(v.suffixes) - 1
           /\ FirstSuffixes(v, u, Len(v.suffixes) - 1)
<1> DEFINE m == Len(v.suffixes)
<1>1. /\ v.nums \in Seq(Component) /\ v.nums # <<>> /\ v.letter \in 0 .. MaxLetter
      /\ v.suffixes \in Seq(Suffix) /\ 0 \in 0 .. MaxNum
    BY VersionParts, VersionAssumption
<1>2. m \in Nat \ {0}
    BY <1>1, LenProperties, EmptySeq
<1>3. /\ Released(v).suffixes = v.suffixes
      /\ Released(v) = [nums |-> v.nums, letter |-> v.letter, suffixes |-> v.suffixes, rev |-> 0]
    BY DEF Released, IsVersion
<1> DEFINE f == SubSeq(v.suffixes, 1, m - 1)
<1>f. Front(Released(v).suffixes) = f
    BY <1>3 DEF Front
<1> HIDE DEF f
<1>4. u = [nums |-> v.nums, letter |-> v.letter, suffixes |-> f, rev |-> 0]
    BY <1>3, <1>f
<1>5. /\ f \in Seq(Suffix) /\ Len(f) = m - 1 /\ \A j \in 1 .. m - 1 : f[j] = v.suffixes[j]
  <2>1. \A i \in 1 .. m - 1 : v.suffixes[i] \in Suffix
      BY <1>1, <1>2, ElementOfSeq
  <2> QED BY <1>2, <2>1, SubSeqProperties DEF f
<1>6. IsVersion(u)
  <2>1. IsVersion([nums |-> v.nums, letter |-> v.letter, suffixes |-> f, rev |-> 0])
      BY <1>1, <1>5, VersionMade
  <2> QED BY <1>4, <2>1
<1> QED BY <1>2, <1>4, <1>5, <1>6 DEF SameBody, FirstSuffixes

LEMMA BumpedSuffixIs ==
    ASSUME NEW v, IsVersion(v), v.suffixes # <<>>
    PROVE  LET m == Len(v.suffixes)
           IN  /\ m \in Nat \ {0} /\ v.suffixes[m] \in Suffix
               /\ Number(v.suffixes[m]) = MaxNum => BumpedSuffix(v) = {}
               /\ Number(v.suffixes[m]) # MaxNum =>
                    \E y, e : /\ Over(y, v, m - 1, e) /\ e.kind = v.suffixes[m].kind
                              /\ Number(e) = Number(v.suffixes[m]) + 1
                              /\ BumpedSuffix(v) = {WithSuffix(y, Alpha)}
<1> DEFINE m == Len(v.suffixes)
           s == v.suffixes[m]
           e == [s EXCEPT !.num = Number(s) + 1]
           y == [Released(v) EXCEPT !.suffixes = Append(Front(@), e)]
<1>1. /\ v.nums \in Seq(Component) /\ v.nums # <<>> /\ v.letter \in 0 .. MaxLetter
      /\ v.suffixes \in Seq(Suffix) /\ 0 \in 0 .. MaxNum /\ m \in Nat
    BY VersionParts, VersionAssumption, LenProperties
<1>2. m \in Nat \ {0} /\ s \in Suffix
    BY <1>1, LenProperties, EmptySeq, ElementOfSeq
<1>3. Last(v.suffixes) = s
    BY DEF Last
<1>4. Number(s) = MaxNum => BumpedSuffix(v) = {}
    BY <1>3 DEF BumpedSuffix
<1>5. ASSUME Number(s) # MaxNum
      PROVE  /\ Over(y, v, m - 1, e) /\ e.kind = s.kind /\ Number(e) = Number(s) + 1
             /\ BumpedSuffix(v) = {WithSuffix(y, Alpha)}
  <2>1. BumpedSuffix(v) = {WithSuffix(y, Alpha)}
      BY <1>3, <1>5 DEF BumpedSuffix
  <2>2. Number(s) \in 0 .. MaxNum
      BY <1>2, VersionAssumption DEF Suffix, Number
  <2>3. e \in Suffix /\ e.kind = s.kind /\ e.num = Number(s) + 1
      BY <1>2, <1>5, <2>2, VersionAssumption DEF Suffix
  <2>4. Number(e) = Number(s) + 1
      BY <2>2, <2>3 DEF Number, Unnumbered
  <2> HIDE DEF e
  <2>5. /\ SubSeq(v.suffixes, 1, m - 1) \in Seq(Suffix)
        /\ Len(SubSeq(v.suffixes, 1, m - 1)) = m - 1
        /\ \A j \in 1 .. m - 1 : SubSeq(v.suffixes, 1, m - 1)[j] = v.suffixes[j]
    <3>1. \A i \in 1 .. m - 1 : v.suffixes[i] \in Suffix
        BY <1>1, <1>2, ElementOfSeq
    <3> QED BY <1>2, <3>1, SubSeqProperties
  <2> DEFINE f == SubSeq(v.suffixes, 1, m - 1)
  <2>r. /\ Released(v).suffixes = v.suffixes
        /\ Released(v) = [nums |-> v.nums, letter |-> v.letter, suffixes |-> v.suffixes, rev |-> 0]
      BY DEF Released, IsVersion
  <2>f. Front(Released(v).suffixes) = f
      BY <2>r DEF Front
  <2>6. y = [nums |-> v.nums, letter |-> v.letter, suffixes |-> Append(f, e), rev |-> 0]
    <3> HIDE DEF f
    <3> QED BY <2>r, <2>f
  <2> HIDE DEF f, y
  <2>7. /\ Append(f, e) \in Seq(Suffix) /\ Len(Append(f, e)) = m
        /\ Append(f, e)[m] = e
        /\ \A j \in 1 .. m - 1 : Append(f, e)[j] = v.suffixes[j]
    <3>1. f \in Seq(Suffix) /\ Len(f) = m - 1 /\ \A j \in 1 .. m - 1 : f[j] = v.suffixes[j]
        BY <2>5 DEF f
    <3> QED BY <1>2, <2>3, <3>1, AppendProperties
  <2>8. IsVersion(y)
      BY <1>1, <2>6, <2>7, VersionMade
  <2> QED BY <1>2, <2>1, <2>3, <2>4, <2>6, <2>7, <2>8 DEF Over, SameBody, FirstSuffixes
<1> QED BY <1>2, <1>4, <1>5

(* A version between two that differ from the suffix k + 1 on.             *)
LEMMA SuffixGap ==
    ASSUME NEW c, NEW v, NEW y, IsVersion(c), IsVersion(v), NEW k, NEW e, Over(y, v, k, e),
           v.suffixes[k + 1].kind = P <=> e.kind = P,
           ~Less(c, v), Less(c, y), ~Beneath(c, y)
    PROVE  /\ Reaches(c, v, k) /\ k + 1 <= Len(c.suffixes) /\ k \in Nat
           /\ c.suffixes[k + 1] \in Suffix /\ v.suffixes[k + 1] \in Suffix /\ e \in Suffix
           /\ ~LowerSuffix(c.suffixes[k + 1], v.suffixes[k + 1])
           /\ LowerSuffix(c.suffixes[k + 1], e)
<1>1. /\ IsVersion(y) /\ SameBody(v, y) /\ FirstSuffixes(v, y, k)
      /\ k \in Nat /\ k + 1 <= Len(v.suffixes) /\ Len(y.suffixes) = k + 1
      /\ y.suffixes[k + 1] = e /\ e \in Suffix
      /\ \A j \in 1 .. k : v.suffixes[j] = y.suffixes[j]
    BY DEF Over, FirstSuffixes
<1>2. /\ Len(c.suffixes) \in Nat /\ Len(v.suffixes) \in Nat
      /\ \A j \in 1 .. Len(c.suffixes) : /\ c.suffixes[j] \in Suffix
                                         /\ SuffixKeys(c)[j] = SuffixKey(c.suffixes[j])
      /\ \A j \in 1 .. Len(v.suffixes) : /\ v.suffixes[j] \in Suffix
                                         /\ SuffixKeys(v)[j] = SuffixKey(v.suffixes[j])
      /\ \A j \in 1 .. k + 1 : SuffixKeys(y)[j] = SuffixKey(y.suffixes[j])
    BY <1>1, KeysTypes
<1>3. Reaches(c, v, k)
    BY <1>1, Far
<1>4. /\ Alike(c, v) /\ Alike(c, y) /\ k <= Len(c.suffixes)
      /\ \A j \in 1 .. k : SuffixKeys(c)[j] = SuffixKeys(v)[j]
      /\ \A j \in 1 .. k : SuffixKeys(c)[j] = SuffixKeys(y)[j]
  <2>1. /\ Alike(c, v) /\ k <= Len(c.suffixes)
        /\ \A j \in 1 .. k : SuffixKeys(c)[j] = SuffixKeys(v)[j]
      BY <1>3 DEF Reaches
  <2>2. Alike(c, y)
      BY <1>1, <2>1, SameBodyAlike
  <2> QED BY <1>1, <1>2, <2>1, <2>2
<1>5. k + 1 <= Len(c.suffixes)
  <2> SUFFICES ASSUME Len(c.suffixes) = k PROVE FALSE
      BY <1>1, <1>2, <1>4
  <2>1. SuffixesShort(c, v) /\ SuffixesShort(c, y)
      BY <1>1, <1>2, <1>4 DEF SuffixesShort
  <2> QED BY <1>1, <1>4, <2>1, SuffixesRule
<1>6. k + 1 \in 1 .. Len(c.suffixes) /\ k + 1 \in 1 .. Len(v.suffixes) /\ k + 1 \in 1 .. Len(y.suffixes)
    BY <1>1, <1>2, <1>5
<1>7. /\ c.suffixes[k + 1] \in Suffix /\ v.suffixes[k + 1] \in Suffix
      /\ SuffixKeys(c)[k + 1] = SuffixKey(c.suffixes[k + 1])
      /\ SuffixKeys(v)[k + 1] = SuffixKey(v.suffixes[k + 1])
      /\ SuffixKeys(y)[k + 1] = SuffixKey(e)
    BY <1>1, <1>2, <1>6
<1>8. ~LowerSuffix(c.suffixes[k + 1], v.suffixes[k + 1])
  <2>1. CASE SuffixKeys(c)[k + 1] = SuffixKeys(v)[k + 1]
    <3>1. /\ c.suffixes[k + 1].kind = v.suffixes[k + 1].kind
          /\ Number(c.suffixes[k + 1]) = Number(v.suffixes[k + 1])
        BY <1>7, <2>1 DEF SuffixKey
    <3>2. c.suffixes[k + 1].kind \in {1, 2, 3, 4, 6} /\ Number(c.suffixes[k + 1]) \in Nat
        BY <1>7, SuffixForm
    <3> QED BY <3>1, <3>2 DEF LowerSuffix
  <2>2. CASE SuffixKeys(c)[k + 1] # SuffixKeys(v)[k + 1]
    <3>1. SuffixAt(c, v, k + 1)
        BY <1>1, <1>4, <1>6, <2>2 DEF SuffixAt
    <3> QED BY <1>4, <3>1, SuffixRule
  <2> QED BY <2>1, <2>2
<1>9. LowerSuffix(c.suffixes[k + 1], e)
  <2>1. SuffixKeys(c)[k + 1] # SuffixKeys(y)[k + 1]
    <3> SUFFICES ASSUME SuffixKeys(c)[k + 1] = SuffixKeys(y)[k + 1] PROVE FALSE
        OBVIOUS
    <3>1. \A j \in 1 .. k + 1 : SuffixKeys(c)[j] = SuffixKeys(y)[j]
        BY <1>1, <1>4
    <3> QED BY <1>1, <1>4, <1>5, <3>1 DEF Beneath, Reaches
  <2>2. SuffixAt(c, y, k + 1)
      BY <1>1, <1>4, <1>6, <2>1 DEF SuffixAt
  <2> QED BY <1>1, <1>4, <2>2, SuffixRule
<1> QED BY <1>1, <1>3, <1>5, <1>7, <1>8, <1>9

LEMMA SuffixAbove ==
    ASSUME NEW c, NEW v, NEW y, IsVersion(c), IsVersion(v), NEW k, NEW e, Over(y, v, k, e),
           Reaches(c, v, k), k + 1 <= Len(c.suffixes), LowerSuffix(c.suffixes[k + 1], e)
    PROVE  Less(c, WithSuffix(y, Alpha))
<1>1. /\ IsVersion(y) /\ SameBody(v, y) /\ y.rev = 0
      /\ k \in Nat /\ k + 1 <= Len(v.suffixes) /\ Len(y.suffixes) = k + 1
      /\ y.suffixes[k + 1] = e /\ e \in Suffix
      /\ \A j \in 1 .. k : v.suffixes[j] = y.suffixes[j]
    BY DEF Over, FirstSuffixes
<1> DEFINE u == WithSuffix(y, Alpha)
<1>2. /\ IsVersion(u) /\ SameBody(y, u) /\ Len(u.suffixes) = k + 2
      /\ \A j \in 1 .. k + 1 : u.suffixes[j] = y.suffixes[j]
    BY <1>1, Suffixed DEF SuffixKinds, FirstSuffixes
<1> HIDE DEF u
<1>3. /\ Len(c.suffixes) \in Nat /\ Len(v.suffixes) \in Nat
      /\ \A j \in 1 .. Len(c.suffixes) : /\ c.suffixes[j] \in Suffix
                                         /\ SuffixKeys(c)[j] = SuffixKey(c.suffixes[j])
      /\ \A j \in 1 .. Len(v.suffixes) : SuffixKeys(v)[j] = SuffixKey(v.suffixes[j])
      /\ \A j \in 1 .. k + 2 : SuffixKeys(u)[j] = SuffixKey(u.suffixes[j])
    BY <1>2, KeysTypes
<1>4. /\ Alike(c, u)
      /\ \A j \in 1 .. k : SuffixKeys(c)[j] = SuffixKeys(v)[j]
    BY <1>1, <1>2, SameBodyAlike DEF Reaches
<1>5. \A j \in 1 .. k : SuffixKeys(c)[j] = SuffixKeys(u)[j]
  <2> SUFFICES ASSUME NEW j \in 1 .. k PROVE SuffixKeys(c)[j] = SuffixKeys(u)[j]
      OBVIOUS
  <2>1. j \in 1 .. Len(v.suffixes) /\ j \in 1 .. k + 1 /\ j \in 1 .. k + 2
      BY <1>1, <1>3
  <2> QED BY <1>1, <1>2, <1>3, <1>4, <2>1
<1>6. k + 1 \in 1 .. Len(c.suffixes) /\ k + 1 \in 1 .. k + 2 /\ k + 1 \in 1 .. k + 1
    BY <1>1, <1>3
<1>7. /\ c.suffixes[k + 1] \in Suffix /\ SuffixKeys(c)[k + 1] = SuffixKey(c.suffixes[k + 1])
      /\ SuffixKeys(u)[k + 1] = SuffixKey(e) /\ u.suffixes[k + 1] = e
    BY <1>1, <1>2, <1>3, <1>6
<1>8. SuffixKey(c.suffixes[k + 1]) # SuffixKey(e)
  <2> SUFFICES ASSUME SuffixKey(c.suffixes[k + 1]) = SuffixKey(e) PROVE FALSE
      OBVIOUS
  <2>1. c.suffixes[k + 1].kind = e.kind /\ Number(c.suffixes[k + 1]) = Number(e)
      BY DEF SuffixKey
  <2>2. c.suffixes[k + 1].kind \in {1, 2, 3, 4, 6} /\ Number(c.suffixes[k + 1]) \in Nat
      BY <1>7, SuffixForm
  <2> QED BY <2>1, <2>2 DEF LowerSuffix
<1>9. SuffixAt(c, u, k + 1)
    BY <1>1, <1>2, <1>5, <1>6, <1>7, <1>8 DEF SuffixAt
<1> QED BY <1>2, <1>4, <1>7, <1>9, SuffixRule DEF u

LEMMA SuffixInts ==
    ASSUME NEW s \in Suffix
    PROVE  s.kind \in {1, 2, 3, 4, 6} /\ s.kind \in Int /\ Number(s) \in Nat
<1>1. s.kind \in {1, 2, 3, 4, 6} /\ Number(s) \in Nat
    BY SuffixForm
<1> QED BY <1>1

(* A match sorts under the pattern only if it is one of its pre-releases.  *)
LEMMA MatchNotBelow ==
    ASSUME NEW c, NEW v, IsVersion(c), IsVersion(v), v.rev = 0, GlobMatches(Key(c), v),
           ~Beneath(c, v)
    PROVE  ~Less(c, v)
<1>1. CASE LastSuffixUnnumbered(v)
  <2> DEFINE m == Len(v.suffixes)
  <2>1. /\ m \in Nat \ {0} /\ m <= Len(c.suffixes) /\ Len(c.suffixes) \in Nat
        /\ v.suffixes[m].num = Unnumbered
        /\ c.suffixes[m].kind = v.suffixes[m].kind
        /\ Alike(c, v)
        /\ \A j \in 1 .. m - 1 : SuffixKeys(c)[j] = SuffixKeys(v)[j]
      BY <1>1, MatchKind, KeysTypes DEF Reaches
  <2>2. m \in 1 .. Len(c.suffixes) /\ m \in 1 .. Len(v.suffixes)
      BY <2>1
  <2>3. SuffixKeys(c)[m] # SuffixKeys(v)[m]
    <3> SUFFICES ASSUME SuffixKeys(c)[m] = SuffixKeys(v)[m] PROVE FALSE
        OBVIOUS
    <3>1. \A j \in 1 .. m : SuffixKeys(c)[j] = SuffixKeys(v)[j]
        BY <2>1
    <3> QED BY <2>1, <3>1 DEF Beneath, Reaches
  <2>4. SuffixAt(c, v, m)
      BY <2>1, <2>2, <2>3 DEF SuffixAt
  <2>5. c.suffixes[m] \in Suffix /\ v.suffixes[m] \in Suffix
      BY <2>2, KeysTypes
  <2>6. Number(v.suffixes[m]) = 0
      BY <2>1 DEF Number
  <2>7. Number(c.suffixes[m]) \in Nat /\ c.suffixes[m].kind \in Int
      BY <2>5, SuffixInts
  <2>8. ~LowerSuffix(c.suffixes[m], v.suffixes[m])
      BY <2>1, <2>6, <2>7 DEF LowerSuffix
  <2> QED BY <2>1, <2>4, <2>8, SuffixRule
<1>2. CASE ~LastSuffixUnnumbered(v) /\ (v.letter # 0 \/ v.suffixes # <<>>)
    BY <1>2, MatchBeneath
<1>3. CASE v.suffixes = <<>> /\ v.letter = 0
  <2>1. /\ Len(v.nums) <= Len(c.nums)
        /\ \A j \in 1 .. Len(v.nums) : ComponentKeys(c)[j] = ComponentKeys(v)[j]
        /\ Len(v.nums) \in Nat /\ Len(c.nums) \in Nat
      BY <1>3, MatchOpen, KeysTypes
  <2>2. CASE Len(v.nums) < Len(c.nums)
    <3>1. NumsShort(v, c)
        BY <2>1, <2>2 DEF NumsShort
    <3> QED BY <3>1, NumsRule
  <2>3. CASE Len(v.nums) = Len(c.nums)
    <3>1. SameNums(c, v)
        BY <2>1, <2>3, KeysTypes, SeqEqual DEF SameNums
    <3>2. c.letter # v.letter
      <4> SUFFICES ASSUME Alike(c, v) PROVE FALSE
          BY <3>1 DEF Alike
      <4>1. Len(v.suffixes) = 0 /\ Len(c.suffixes) \in Nat
          BY <1>3, KeysTypes
      <4> QED BY <4>1 DEF Beneath, Reaches
    <3>3. c.letter \in Nat
        BY VersionParts, VersionAssumption
    <3> QED BY <1>3, <3>1, <3>2, <3>3, LetterRule
  <2> QED BY <2>1, <2>2, <2>3
<1> QED BY <1>1, <1>2, <1>3

LEMMA LowerSide ==
    ASSUME NEW c, NEW v, IsVersion(c), IsVersion(v)
    PROVE  /\ GlobMatches(Key(c), v) /\ Less(c, GlobLower(v)) => Under(c, GlobLower(v))
           /\ ~GlobMatches(Key(c), v) /\ ~Less(c, GlobLower(v)) /\ v.rev = 0 =>
                ~Less(c, v) /\ ~Beneath(c, v)
<1>1. CASE v.rev # 0
  <2>1. GlobLower(v) = v
      BY <1>1 DEF GlobLower
  <2>2. GlobMatches(Key(c), v) => ~Less(c, v)
    <3> SUFFICES ASSUME GlobMatches(Key(c), v) PROVE ~Less(c, v)
        OBVIOUS
    <3>1. Alike(c, v) /\ SameSuffixes(c, v) /\ c.rev = v.rev /\ v.rev \in Int
        BY <1>1, MatchRevised, KeysTypes
    <3> QED BY <3>1, RevRule
  <2> QED BY <1>1, <2>1, <2>2
<1>2. CASE v.rev = 0
  <2>1. GlobLower(v) = WithSuffix(v, Alpha)
      BY <1>2 DEF GlobLower
  <2> QED BY <1>2, <2>1, MatchNotBelow, AlphaBelow, AlphaFar, BeneathMatches
<1> QED BY <1>1, <1>2

LEMMA UpperSide ==
    ASSUME NEW c, NEW y, IsVersion(c), IsVersion(y), y.rev = 0, Less(c, WithSuffix(y, Alpha))
    PROVE  Under(c, WithSuffix(y, Alpha)) \/ (Less(c, y) /\ ~Beneath(c, y))
    BY AlphaBelow, AlphaFar

(* The successor of the last suffix.                                       *)
LEMMA BumpedSuffixGap ==
    ASSUME NEW c, NEW v, IsVersion(c), IsVersion(v), v.suffixes # <<>>,
           ~Less(c, v), ~Beneath(c, v), NEW u \in BumpedSuffix(v), Less(c, u)
    PROVE  Under(c, u)
<1> DEFINE m == Len(v.suffixes)
<1>1. /\ m \in Nat \ {0} /\ v.suffixes[m] \in Suffix
      /\ Number(v.suffixes[m]) # MaxNum
    BY BumpedSuffixIs
<1>2. PICK y, e : /\ Over(y, v, m - 1, e) /\ e.kind = v.suffixes[m].kind
                  /\ Number(e) = Number(v.suffixes[m]) + 1
                  /\ BumpedSuffix(v) = {WithSuffix(y, Alpha)}
    BY <1>1, BumpedSuffixIs
<1>3. u = WithSuffix(y, Alpha) /\ IsVersion(y) /\ y.rev = 0 /\ m - 1 + 1 = m
    BY <1>1, <1>2 DEF Over
<1> SUFFICES ASSUME ~Under(c, u) PROVE FALSE
    OBVIOUS
<1>4. Less(c, y) /\ ~Beneath(c, y)
    BY <1>3, UpperSide
<1>5. /\ Reaches(c, v, m - 1) /\ m <= Len(c.suffixes)
      /\ c.suffixes[m] \in Suffix
      /\ ~LowerSuffix(c.suffixes[m], v.suffixes[m])
      /\ LowerSuffix(c.suffixes[m], e)
    BY <1>2, <1>3, <1>4, SuffixGap
<1>6. /\ c.suffixes[m].kind \in Int /\ v.suffixes[m].kind \in Int
      /\ Number(c.suffixes[m]) \in Int /\ Number(v.suffixes[m]) \in Int
    BY <1>1, <1>5, SuffixInts
<1>7. c.suffixes[m].kind = v.suffixes[m].kind /\ Number(c.suffixes[m]) = Number(v.suffixes[m])
    BY <1>2, <1>5, <1>6 DEF LowerSuffix
<1>8. m \in 1 .. Len(c.suffixes) /\ m \in 1 .. Len(v.suffixes)
    BY <1>1, <1>5, KeysTypes
<1>9. SuffixKeys(c)[m] = SuffixKeys(v)[m]
  <2>1. SuffixKeys(c)[m] = SuffixKey(c.suffixes[m]) /\ SuffixKeys(v)[m] = SuffixKey(v.suffixes[m])
      BY <1>8, KeysTypes
  <2> QED BY <1>7, <2>1 DEF SuffixKey
<1>10. Beneath(c, v)
    BY <1>1, <1>5, <1>9 DEF Beneath, Reaches
<1> QED BY <1>10

LEMMA BumpedSuffixAbove ==
    ASSUME NEW c, NEW v, IsVersion(c), IsVersion(v), v.suffixes # <<>>, Beneath(c, v),
           NEW u \in BumpedSuffix(v)
    PROVE  Less(c, u)
<1> DEFINE m == Len(v.suffixes)
<1>1. /\ m \in Nat \ {0} /\ v.suffixes[m] \in Suffix
      /\ Number(v.suffixes[m]) # MaxNum
    BY BumpedSuffixIs
<1>2. PICK y, e : /\ Over(y, v, m - 1, e) /\ e.kind = v.suffixes[m].kind
                  /\ Number(e) = Number(v.suffixes[m]) + 1
                  /\ BumpedSuffix(v) = {WithSuffix(y, Alpha)}
    BY <1>1, BumpedSuffixIs
<1>3. u = WithSuffix(y, Alpha) /\ IsVersion(y) /\ y.rev = 0 /\ m - 1 + 1 = m
    BY <1>1, <1>2 DEF Over
<1>4. /\ Alike(c, v) /\ m <= Len(c.suffixes)
      /\ \A j \in 1 .. m : SuffixKeys(c)[j] = SuffixKeys(v)[j]
    BY DEF Beneath, Reaches
<1>5. Reaches(c, v, m - 1)
  <2>1. Len(c.suffixes) \in Nat
      BY KeysTypes
  <2> QED BY <1>1, <1>4, <2>1 DEF Reaches
<1>6. m \in 1 .. Len(c.suffixes) /\ m \in 1 .. Len(v.suffixes)
    BY <1>1, <1>4, KeysTypes
<1>7. /\ c.suffixes[m] \in Suffix /\ SuffixKeys(c)[m] = SuffixKey(c.suffixes[m])
      /\ SuffixKeys(v)[m] = SuffixKey(v.suffixes[m]) /\ SuffixKeys(c)[m] = SuffixKeys(v)[m]
    BY <1>4, <1>6, KeysTypes
<1>8. c.suffixes[m].kind = v.suffixes[m].kind /\ Number(c.suffixes[m]) = Number(v.suffixes[m])
    BY <1>7 DEF SuffixKey
<1>9. Number(v.suffixes[m]) \in Nat
    BY <1>1, SuffixInts
<1>10. LowerSuffix(c.suffixes[m], e)
    BY <1>2, <1>8, <1>9 DEF LowerSuffix
<1> QED BY <1>2, <1>3, <1>4, <1>5, <1>10, SuffixAbove

(* The upper bound of a pattern that ends in a kind of suffix.             *)
LEMMA KindUpper ==
    ASSUME NEW v, IsVersion(v), v.rev = 0, LastSuffixUnnumbered(v),
           v.suffixes[Len(v.suffixes)].kind < Rc
    PROVE  \E y, e : /\ Over(y, v, Len(v.suffixes) - 1, e)
                     /\ e.kind = v.suffixes[Len(v.suffixes)].kind + 1 /\ Number(e) = 0
                     /\ GlobUpper(v) = {WithSuffix(y, Alpha)}
<1> DEFINE m == Len(v.suffixes)
           u == [Released(v) EXCEPT !.suffixes = Front(@)]
           kind == v.suffixes[m].kind
           y == WithSuffix(u, kind + 1)
           e == [kind |-> kind + 1, num |-> Unnumbered]
<1>1. v.suffixes # <<>> /\ Last(v.suffixes).kind = kind
    BY DEF LastSuffixUnnumbered, Last
<1>2. /\ IsVersion(u) /\ SameBody(v, u) /\ u.rev = 0 /\ m \in Nat \ {0}
      /\ Len(u.suffixes) = m - 1 /\ FirstSuffixes(v, u, m - 1)
    BY <1>1, Fronted
<1> HIDE DEF u
<1>3. v.suffixes[m] \in Suffix
  <2>1. m \in 1 .. Len(v.suffixes)
      BY <1>2
  <2> QED BY <2>1, KeysTypes
<1>4. kind \in {1, 2, 3}
    BY <1>3, SuffixInts DEF Rc
<1>5. kind + 1 \in SuffixKinds
    BY <1>4 DEF SuffixKinds, Rc
<1>6. /\ IsVersion(y) /\ SameBody(u, y) /\ y.rev = u.rev
      /\ FirstSuffixes(u, y, m - 1) /\ Len(y.suffixes) = m - 1 + 1
      /\ y.suffixes[m - 1 + 1] = e
  <2>1. /\ IsVersion(y) /\ SameBody(u, y) /\ y.rev = u.rev
        /\ FirstSuffixes(u, y, Len(u.suffixes)) /\ Len(y.suffixes) = Len(u.suffixes) + 1
        /\ y.suffixes[Len(u.suffixes) + 1] = e
    <3> HIDE DEF y, kind
    <3>1. y = WithSuffix(u, kind + 1)
        BY DEF y
    <3> QED BY <1>2, <1>5, <3>1, Suffixed
  <2> QED BY <1>2, <2>1
<1>7. e \in Suffix /\ e.kind = kind + 1 /\ Number(e) = 0
    BY <1>5 DEF Suffix, Number
<1>8. GlobUpper(v) = {WithSuffix(y, Alpha)}
  <2>1. GlobUpper(v) = BumpedPastUnnumberedSuffix(v)
      BY DEF GlobUpper
  <2>2. BumpedPastUnnumberedSuffix(v) = {WithSuffix(y, Alpha)}
      BY <1>1, <1>4 DEF BumpedPastUnnumberedSuffix, u, Rc, P
  <2> QED BY <2>1, <2>2
<1> HIDE DEF y, e
<1>9. Over(y, v, m - 1, e)
    BY <1>2, <1>6, <1>7 DEF Over, SameBody, FirstSuffixes
<1> QED BY <1>7, <1>8, <1>9

LEMMA KindGap ==
    ASSUME NEW c, NEW v, IsVersion(c), IsVersion(v), v.rev = 0, LastSuffixUnnumbered(v),
           v.suffixes[Len(v.suffixes)].kind < Rc,
           ~Less(c, v), ~GlobMatches(Key(c), v), NEW u \in GlobUpper(v), Less(c, u)
    PROVE  Under(c, u)
<1> DEFINE m == Len(v.suffixes)
<1>1. PICK y, e : /\ Over(y, v, m - 1, e)
                  /\ e.kind = v.suffixes[m].kind + 1 /\ Number(e) = 0
                  /\ GlobUpper(v) = {WithSuffix(y, Alpha)}
    BY KindUpper
<1>2. m \in Nat \ {0} /\ m - 1 + 1 = m
    BY MatchKind
<1>3. v.suffixes[m] \in Suffix /\ v.suffixes[m].kind \in {1, 2, 3}
  <2>1. m \in 1 .. Len(v.suffixes)
      BY <1>2
  <2>2. v.suffixes[m] \in Suffix
      BY <2>1, KeysTypes
  <2> QED BY <2>2, SuffixInts DEF Rc
<1>4. u = WithSuffix(y, Alpha) /\ IsVersion(y) /\ y.rev = 0
    BY <1>1 DEF Over
<1> SUFFICES ASSUME ~Under(c, u) PROVE FALSE
    OBVIOUS
<1>5. Less(c, y) /\ ~Beneath(c, y)
    BY <1>4, UpperSide
<1>6. v.suffixes[m].kind = P <=> e.kind = P
    BY <1>1, <1>3 DEF P
<1>7. /\ Reaches(c, v, m - 1) /\ m <= Len(c.suffixes)
      /\ c.suffixes[m] \in Suffix
      /\ ~LowerSuffix(c.suffixes[m], v.suffixes[m])
      /\ LowerSuffix(c.suffixes[m], e)
    BY <1>1, <1>2, <1>5, <1>6, SuffixGap
<1>8. c.suffixes[m].kind \in Int /\ Number(c.suffixes[m]) \in Nat
    BY <1>7, SuffixInts
<1>9. c.suffixes[m].kind = v.suffixes[m].kind
    BY <1>1, <1>3, <1>7, <1>8 DEF LowerSuffix
<1> QED BY <1>7, <1>9, MatchKind

LEMMA KindAbove ==
    ASSUME NEW c, NEW v, IsVersion(c), IsVersion(v), v.rev = 0, LastSuffixUnnumbered(v),
           v.suffixes[Len(v.suffixes)].kind < Rc,
           GlobMatches(Key(c), v), NEW u \in GlobUpper(v)
    PROVE  Less(c, u)
<1> DEFINE m == Len(v.suffixes)
<1>1. PICK y, e : /\ Over(y, v, m - 1, e)
                  /\ e.kind = v.suffixes[m].kind + 1 /\ Number(e) = 0
                  /\ GlobUpper(v) = {WithSuffix(y, Alpha)}
    BY KindUpper
<1>2. /\ m \in Nat \ {0} /\ m - 1 + 1 = m
      /\ Reaches(c, v, m - 1) /\ m <= Len(c.suffixes)
      /\ c.suffixes[m].kind = v.suffixes[m].kind
    BY MatchKind
<1>3. v.suffixes[m].kind \in Int
  <2>1. m \in 1 .. Len(v.suffixes)
      BY <1>2
  <2>2. v.suffixes[m] \in Suffix
      BY <2>1, KeysTypes
  <2> QED BY <2>2, SuffixInts
<1>4. LowerSuffix(c.suffixes[m], e)
    BY <1>1, <1>2, <1>3 DEF LowerSuffix
<1> QED BY <1>1, <1>2, <1>4, SuffixAbove

(* Past _rc comes the version without it.                                  *)
LEMMA RcBounds ==
    ASSUME NEW c, NEW v, IsVersion(c), IsVersion(v), v.rev = 0, LastSuffixUnnumbered(v),
           v.suffixes[Len(v.suffixes)].kind = Rc, NEW u \in GlobUpper(v)
    PROVE  /\ GlobMatches(Key(c), v) => Less(c, u)
           /\ ~Less(c, v) /\ Less(c, u) => GlobMatches(Key(c), v)
<1> DEFINE m == Len(v.suffixes)
<1>1. v.suffixes # <<>> /\ Last(v.suffixes).kind = Rc
    BY DEF LastSuffixUnnumbered, Last
<1>2. u = [Released(v) EXCEPT !.suffixes = Front(@)]
  <2>1. GlobUpper(v) = BumpedPastUnnumberedSuffix(v)
      BY DEF GlobUpper
  <2> QED BY <1>1, <2>1 DEF BumpedPastUnnumberedSuffix, Rc, P
<1>3. /\ IsVersion(u) /\ SameBody(v, u) /\ SameBody(u, v) /\ u.rev = 0 /\ m \in Nat \ {0}
      /\ Len(u.suffixes) = m - 1 /\ FirstSuffixes(v, u, m - 1)
      /\ \A j \in 1 .. m - 1 : v.suffixes[j] = u.suffixes[j]
  <2>1. /\ IsVersion(u) /\ SameBody(v, u) /\ SameBody(u, v) /\ u.rev = 0 /\ m \in Nat \ {0}
        /\ Len(u.suffixes) = m - 1 /\ FirstSuffixes(v, u, m - 1)
      BY <1>1, <1>2, Fronted
  <2> QED BY <2>1 DEF FirstSuffixes
<1>4. /\ Len(c.suffixes) \in Nat /\ m \in 1 .. Len(v.suffixes)
      /\ \A j \in 1 .. Len(v.suffixes) : SuffixKeys(v)[j] = SuffixKey(v.suffixes[j])
      /\ \A j \in 1 .. m - 1 : SuffixKeys(u)[j] = SuffixKey(u.suffixes[j])
  <2>1. m \in 1 .. Len(v.suffixes)
      BY <1>3
  <2>2. Len(c.suffixes) \in Nat
      BY KeysTypes
  <2>3. \A j \in 1 .. Len(v.suffixes) : SuffixKeys(v)[j] = SuffixKey(v.suffixes[j])
      BY KeysTypes
  <2>4. \A j \in 1 .. Len(u.suffixes) : SuffixKeys(u)[j] = SuffixKey(u.suffixes[j])
      BY <1>3, KeysTypes
  <2>5. Len(u.suffixes) = m - 1
      BY <1>3
  <2> QED BY <2>1, <2>2, <2>3, <2>4, <2>5
<1>5. ASSUME NEW j \in 1 .. m - 1 PROVE SuffixKeys(u)[j] = SuffixKeys(v)[j]
  <2>1. j \in 1 .. Len(v.suffixes)
      BY <1>3
  <2>2. SuffixKeys(u)[j] = SuffixKey(u.suffixes[j]) /\ u.suffixes[j] = v.suffixes[j]
      BY <1>3, <1>4
  <2>3. SuffixKeys(v)[j] = SuffixKey(v.suffixes[j])
      BY <1>4, <2>1
  <2> QED BY <2>2, <2>3
<1>6. v.suffixes[m] \in Suffix
  <2>1. m \in 1 .. Len(v.suffixes)
      BY <1>4
  <2>2. \A j \in 1 .. Len(v.suffixes) : v.suffixes[j] \in Suffix
      BY KeysTypes
  <2> QED BY <2>1, <2>2
<1>7. ASSUME Reaches(c, v, m - 1), m <= Len(c.suffixes)
      PROVE  Less(c, u) <=> c.suffixes[m].kind # P
  <2>1. Alike(c, v) /\ \A j \in 1 .. m - 1 : SuffixKeys(c)[j] = SuffixKeys(v)[j]
      BY <1>7 DEF Reaches
  <2>2. Alike(u, c)
      BY <1>3, <2>1, SameBodyAlike
  <2>3. SuffixesShort(u, c)
      BY <1>3, <1>4, <1>5, <1>7, <2>1 DEF SuffixesShort
  <2> QED BY <1>3, <2>2, <2>3, SuffixesRule
<1>8. ASSUME GlobMatches(Key(c), v) PROVE Less(c, u)
    BY <1>7, <1>8, MatchKind DEF Rc, P
<1>9. ASSUME ~Less(c, v), Less(c, u) PROVE GlobMatches(Key(c), v)
  <2>1. Reaches(c, v, m - 1)
      BY <1>3, <1>9, Far
  <2>2. /\ Alike(c, v) /\ m - 1 <= Len(c.suffixes)
        /\ \A j \in 1 .. m - 1 : SuffixKeys(c)[j] = SuffixKeys(v)[j]
      BY <2>1 DEF Reaches
  <2>3. Len(c.suffixes) # m - 1
    <3> SUFFICES ASSUME Len(c.suffixes) = m - 1 PROVE FALSE
        OBVIOUS
    <3>1. SameSuffixes(c, u)
      <4>1. /\ SuffixKeys(c) \in Seq(Seq(Int)) /\ SuffixKeys(u) \in Seq(Seq(Int))
            /\ Len(SuffixKeys(c)) = m - 1 /\ Len(SuffixKeys(u)) = m - 1
          BY <1>3, KeysTypes
      <4>2. \A j \in 1 .. m - 1 : SuffixKeys(c)[j] = SuffixKeys(u)[j]
          BY <1>5, <2>2
      <4> QED BY <4>1, <4>2, SeqEqual DEF SameSuffixes
    <3>2. Alike(c, u)
        BY <1>3, <2>2, SameBodyAlike
    <3>3. c.rev < 0
        BY <1>3, <1>9, <3>1, <3>2, RevRule
    <3> QED BY <3>3, VersionParts
  <2>4. m \in 1 .. Len(c.suffixes) /\ m <= Len(c.suffixes)
      BY <1>3, <1>4, <2>2, <2>3
  <2>5. c.suffixes[m] \in Suffix /\ SuffixKeys(c)[m] = SuffixKey(c.suffixes[m])
      BY <2>4, KeysTypes
  <2>6. c.suffixes[m].kind \in {1, 2, 3, 4}
      BY <1>7, <1>9, <2>1, <2>4, <2>5, SuffixInts DEF P
  <2> SUFFICES ASSUME c.suffixes[m].kind # Rc PROVE FALSE
      BY <2>1, <2>4, MatchKind
  <2>7. SuffixKeys(c)[m] # SuffixKeys(v)[m]
      BY <1>4, <2>5 DEF SuffixKey
  <2>8. SuffixAt(c, v, m)
      BY <1>4, <2>2, <2>4, <2>7 DEF SuffixAt
  <2>9. LowerSuffix(c.suffixes[m], v.suffixes[m])
      BY <2>6 DEF LowerSuffix, Rc
  <2> QED BY <1>9, <2>2, <2>8, <2>9, SuffixRule
<1> QED BY <1>8, <1>9

(* Past _p comes what is past the version without it.                      *)
LEMMA PastP ==
    ASSUME NEW c, NEW v, IsVersion(c), IsVersion(v), v.rev = 0, LastSuffixUnnumbered(v),
           v.suffixes[Len(v.suffixes)].kind = P,
           NEW z, z = [Released(v) EXCEPT !.suffixes = Front(@)]
    PROVE  /\ GlobMatches(Key(c), v) => Beneath(c, z)
           /\ ~GlobMatches(Key(c), v) /\ ~Less(c, v) => ~Less(c, z) /\ ~Beneath(c, z)
<1> DEFINE m == Len(v.suffixes)
<1>1. v.suffixes # <<>>
    BY DEF LastSuffixUnnumbered
<1>2. /\ IsVersion(z) /\ SameBody(v, z) /\ SameBody(z, v) /\ z.rev = 0 /\ m \in Nat \ {0}
      /\ Len(z.suffixes) = m - 1 /\ FirstSuffixes(v, z, m - 1)
      /\ \A j \in 1 .. m - 1 : v.suffixes[j] = z.suffixes[j]
  <2>1. /\ IsVersion(z) /\ SameBody(v, z) /\ SameBody(z, v) /\ z.rev = 0 /\ m \in Nat \ {0}
        /\ Len(z.suffixes) = m - 1 /\ FirstSuffixes(v, z, m - 1)
      BY <1>1, Fronted
  <2> QED BY <2>1 DEF FirstSuffixes
<1>3. /\ Len(c.suffixes) \in Nat /\ m \in 1 .. Len(v.suffixes)
      /\ \A j \in 1 .. Len(v.suffixes) : SuffixKeys(v)[j] = SuffixKey(v.suffixes[j])
      /\ \A j \in 1 .. m - 1 : SuffixKeys(z)[j] = SuffixKey(z.suffixes[j])
  <2>1. /\ Len(c.suffixes) \in Nat
        /\ \A j \in 1 .. Len(v.suffixes) : SuffixKeys(v)[j] = SuffixKey(v.suffixes[j])
      BY KeysTypes
  <2>2. \A j \in 1 .. Len(z.suffixes) : SuffixKeys(z)[j] = SuffixKey(z.suffixes[j])
      BY <1>2, KeysTypes
  <2> QED BY <1>2, <2>1, <2>2
<1>4. \A j \in 1 .. m - 1 : SuffixKeys(z)[j] = SuffixKeys(v)[j]
    BY <1>2, <1>3
<1>5. Beneath(c, z) <=> Reaches(c, v, m - 1)
    BY <1>2, <1>4, SameBodyAlike DEF Beneath, Reaches
<1>6. ASSUME ~GlobMatches(Key(c), v), ~Less(c, v) PROVE ~Reaches(c, v, m - 1)
  <2> SUFFICES ASSUME Reaches(c, v, m - 1) PROVE FALSE
      OBVIOUS
  <2>1. /\ Alike(c, v) /\ m - 1 <= Len(c.suffixes)
        /\ \A j \in 1 .. m - 1 : SuffixKeys(c)[j] = SuffixKeys(v)[j]
      BY DEF Reaches
  <2>2. Len(c.suffixes) # m - 1
    <3> SUFFICES ASSUME Len(c.suffixes) = m - 1 PROVE FALSE
        OBVIOUS
    <3>1. SuffixesShort(c, v)
        BY <1>2, <2>1 DEF SuffixesShort
    <3> QED BY <1>2, <1>6, <2>1, <3>1, SuffixesRule
  <2>3. m \in 1 .. Len(c.suffixes) /\ m <= Len(c.suffixes)
      BY <1>2, <1>3, <2>1, <2>2
  <2>4. c.suffixes[m] \in Suffix /\ SuffixKeys(c)[m] = SuffixKey(c.suffixes[m])
      BY <2>3, KeysTypes
  <2>5. c.suffixes[m].kind # P
      BY <1>6, <2>3, MatchKind
  <2>6. c.suffixes[m].kind \in {1, 2, 3, 4}
      BY <2>4, <2>5, SuffixInts DEF P
  <2>7. SuffixKeys(c)[m] # SuffixKeys(v)[m]
      BY <1>3, <2>4, <2>5 DEF SuffixKey
  <2>8. SuffixAt(c, v, m)
      BY <1>3, <2>1, <2>3, <2>7 DEF SuffixAt
  <2>9. LowerSuffix(c.suffixes[m], v.suffixes[m])
      BY <2>6 DEF LowerSuffix, P
  <2> QED BY <1>6, <2>1, <2>8, <2>9, SuffixRule
<1>7. ASSUME ~GlobMatches(Key(c), v), ~Less(c, v) PROVE ~Less(c, z) /\ ~Beneath(c, z)
    BY <1>2, <1>5, <1>6, <1>7, Far
<1>8. GlobMatches(Key(c), v) => Beneath(c, z)
    BY <1>5, MatchKind
<1> QED BY <1>7, <1>8

(* For the letter:                                                         *)

LEMMA NoSuffix ==
    ASSUME NEW x, IsVersion(x), x.suffixes = <<>>
    PROVE  /\ Len(x.suffixes) = 0
           /\ \A c : IsVersion(c) => (Beneath(c, x) <=> Alike(c, x))
<1>1. Len(x.suffixes) = 0
    OBVIOUS
<1>2. ASSUME NEW c, IsVersion(c) PROVE Beneath(c, x) <=> Alike(c, x)
  <2>1. Len(c.suffixes) \in Nat
      BY <1>2, KeysTypes
  <2> QED BY <1>1, <2>1 DEF Beneath, Reaches
<1> QED BY <1>1, <1>2

(* The next letter.                                                        *)
LEMMA LetterGap ==
    ASSUME NEW c, NEW z, NEW y, IsVersion(c), IsVersion(z), IsVersion(y),
           y.nums = z.nums, y.letter = z.letter + 1, y.suffixes = <<>>, z.suffixes = <<>>,
           ~Less(c, z), ~Beneath(c, z), Less(c, y)
    PROVE  Beneath(c, y)
<1>1. SameNums(c, z)
    BY FarNums
<1>2. SameNums(c, y)
    BY <1>1 DEF SameNums, ComponentKeys
<1>3. c.letter # z.letter
    BY <1>1, NoSuffix DEF Alike
<1>4. c.letter \in Int /\ z.letter \in Int
    BY KeysTypes
<1>5. ~(c.letter < z.letter)
    BY <1>1, <1>3, LetterRule
<1>6. c.letter = y.letter
  <2> SUFFICES ASSUME c.letter # y.letter PROVE FALSE
      OBVIOUS
  <2>1. c.letter < y.letter
      BY <1>2, LetterRule
  <2> QED BY <1>3, <1>4, <1>5, <2>1
<1> QED BY <1>2, <1>6, NoSuffix DEF Alike

LEMMA LetterAbove ==
    ASSUME NEW c, NEW z, NEW u, IsVersion(c), IsVersion(z), IsVersion(u),
           u.nums = z.nums, u.letter = z.letter + 1, Alike(c, z)
    PROVE  Less(c, u)
<1>1. SameNums(c, u)
    BY DEF Alike, SameNums, ComponentKeys
<1>2. c.letter = z.letter /\ z.letter \in Int
    BY KeysTypes DEF Alike
<1>3. c.letter # u.letter /\ c.letter < u.letter
    BY <1>2
<1> QED BY <1>1, <1>3, LetterRule

(* Past the last letter, `.0`.                                             *)
LEMMA DottedKeys ==
    ASSUME NEW z, IsVersion(z), NEW y, IsVersion(y),
           y.nums = Append(z.nums, [zeros |-> 0, value |-> 0])
    PROVE  LET n == Len(z.nums)
           IN  /\ n \in Nat \ {0} /\ Len(y.nums) = n + 1
               /\ y.nums[n + 1] = [zeros |-> 0, value |-> 0]
               /\ [zeros |-> 0, value |-> 0] \in Component
               /\ \A j \in 1 .. n : y.nums[j] = z.nums[j]
               /\ \A j \in 1 .. n : ComponentKeys(y)[j] = ComponentKeys(z)[j]
<1> DEFINE n == Len(z.nums)
           e == [zeros |-> 0, value |-> 0]
<1>1. e \in Component
    BY VersionAssumption DEF Component
<1> HIDE DEF e
<1>2. /\ n \in Nat \ {0} /\ z.nums \in Seq(Component)
    BY KeysTypes, VersionParts
<1>3. y.nums = Append(z.nums, e)
    BY DEF e
<1>4. /\ Len(y.nums) = n + 1 /\ y.nums[n + 1] = e
      /\ \A j \in 1 .. n : y.nums[j] = z.nums[j]
    BY <1>1, <1>2, <1>3, AppendProperties
<1>5. \A j \in 1 .. n : ComponentKeys(y)[j] = ComponentKeys(z)[j]
  <2> SUFFICES ASSUME NEW j \in 1 .. n PROVE ComponentKeys(y)[j] = ComponentKeys(z)[j]
      OBVIOUS
  <2>1. j \in 1 .. Len(y.nums) /\ j \in 1 .. Len(z.nums)
      BY <1>2, <1>4
  <2>2. /\ ComponentKeys(y)[j] = ComponentKey(j, y.nums[j])
        /\ ComponentKeys(z)[j] = ComponentKey(j, z.nums[j])
      BY <2>1, KeysTypes
  <2> QED BY <1>4, <2>2
<1> QED BY <1>1, <1>2, <1>4, <1>5 DEF e

LEMMA NothingUnderZero ==
    ASSUME NEW i \in Nat, i > 1, NEW c \in Component
    PROVE  ~LowerComponent(i, c, [zeros |-> 0, value |-> 0])
<1> DEFINE e == [zeros |-> 0, value |-> 0]
<1>1. e \in Component /\ e.value = 0
    BY VersionAssumption DEF Component
<1> HIDE DEF e
<1>2. TrimEnd(Written(e)) = <<>>
    BY <1>1, StringShape DEF String
<1>3. TrimEnd(Written(c)) \in Seq(Int)
  <2>1. TrimEnd(Written(c)) \in Seq(Nat)
      BY StringShape
  <2> QED BY <2>1
<1>4. ~LexLess(TrimEnd(Written(c)), <<>>)
    BY <1>3, LexEmpty
<1>5. ~LowerComponent(i, c, e)
    BY <1>1, <1>2, <1>4 DEF LowerComponent, StringOrder, ZeroLed
<1> QED BY <1>5 DEF e

LEMMA DotGap ==
    ASSUME NEW c, NEW z, NEW y, IsVersion(c), IsVersion(z), IsVersion(y),
           y.nums = Append(z.nums, [zeros |-> 0, value |-> 0]), y.letter = 0,
           z.letter = MaxLetter, y.suffixes = <<>>, z.suffixes = <<>>,
           ~Less(c, z), ~Beneath(c, z), Less(c, y)
    PROVE  Beneath(c, y)
<1> DEFINE n == Len(z.nums)
           e == [zeros |-> 0, value |-> 0]
<1>1. /\ n \in Nat \ {0} /\ Len(y.nums) = n + 1 /\ y.nums[n + 1] = e
      /\ e \in Component
      /\ \A j \in 1 .. n : y.nums[j] = z.nums[j]
      /\ \A j \in 1 .. n : ComponentKeys(y)[j] = ComponentKeys(z)[j]
    BY DottedKeys
<1> HIDE DEF e
<1>2. /\ Len(c.nums) \in Nat
      /\ \A j \in 1 .. Len(c.nums) : c.nums[j] \in Component
      /\ c.letter \in 0 .. MaxLetter
    BY KeysTypes, VersionParts
<1>3. ASSUME NEW p \in 1 .. Len(c.nums), NumAt(c, z, p) PROVE FALSE
  <2>1. /\ p \in 1 .. n
        /\ \A j \in 1 .. p - 1 : ComponentKeys(c)[j] = ComponentKeys(z)[j]
        /\ ComponentKeys(c)[p] # ComponentKeys(z)[p]
      BY <1>3 DEF NumAt
  <2>2. NumAt(c, y, p)
      BY <1>1, <2>1 DEF NumAt
  <2>3. y.nums[p] = z.nums[p]
      BY <1>1, <2>1
  <2> QED BY <1>3, <2>2, <2>3, NumRule
<1>4. ~NumsShort(c, z)
    BY NumsRule
<1>5. ~SameNums(c, z)
  <2> SUFFICES ASSUME SameNums(c, z) PROVE FALSE
      OBVIOUS
  <2>1. c.letter # z.letter
      BY NoSuffix DEF Alike
  <2>2. c.letter < z.letter
      BY <1>2, <2>1, VersionAssumption
  <2> QED BY <2>1, <2>2, LetterRule
<1>6. NumsShort(z, c)
    BY <1>3, <1>4, <1>5, NumsCases
<1>7. /\ n + 1 \in 1 .. Len(c.nums) /\ n + 1 \in 1 .. Len(y.nums)
      /\ \A j \in 1 .. n : ComponentKeys(c)[j] = ComponentKeys(y)[j]
    BY <1>1, <1>2, <1>6 DEF NumsShort
<1>8. ComponentKeys(c)[n + 1] = ComponentKeys(y)[n + 1]
  <2> SUFFICES ASSUME ComponentKeys(c)[n + 1] # ComponentKeys(y)[n + 1] PROVE FALSE
      OBVIOUS
  <2>1. NumAt(c, y, n + 1)
      BY <1>1, <1>7 DEF NumAt
  <2>2. LowerComponent(n + 1, c.nums[n + 1], e)
      BY <1>1, <1>7, <2>1, NumRule
  <2>3. c.nums[n + 1] \in Component /\ n + 1 \in Nat /\ n + 1 > 1
      BY <1>1, <1>2, <1>7
  <2> QED BY <2>2, <2>3, NothingUnderZero DEF e
<1>9. \A j \in 1 .. n + 1 : ComponentKeys(c)[j] = ComponentKeys(y)[j]
    BY <1>1, <1>7, <1>8
<1>10. Len(c.nums) = n + 1
  <2> SUFFICES ASSUME Len(c.nums) # n + 1 PROVE FALSE
      OBVIOUS
  <2>1. NumsShort(y, c)
      BY <1>1, <1>2, <1>7, <1>9 DEF NumsShort
  <2> QED BY <2>1, NumsRule
<1>11. SameNums(c, y)
  <2>1. /\ ComponentKeys(c) \in Seq(Seq(Int)) /\ ComponentKeys(y) \in Seq(Seq(Int))
        /\ Len(ComponentKeys(c)) = n + 1 /\ Len(ComponentKeys(y)) = n + 1
      BY <1>1, <1>10, KeysTypes
  <2> QED BY <1>9, <2>1, SeqEqual DEF SameNums
<1>12. c.letter = y.letter
  <2> SUFFICES ASSUME c.letter # y.letter PROVE FALSE
      OBVIOUS
  <2>1. c.letter < y.letter
      BY <1>11, LetterRule
  <2> QED BY <1>2, <2>1, VersionAssumption
<1> QED BY <1>11, <1>12, NoSuffix DEF Alike

LEMMA DotAbove ==
    ASSUME NEW c, NEW z, NEW u, IsVersion(c), IsVersion(z), IsVersion(u),
           u.nums = Append(z.nums, [zeros |-> 0, value |-> 0]), Alike(c, z)
    PROVE  Less(c, u)
<1>1. /\ Len(z.nums) \in Nat /\ Len(u.nums) = Len(z.nums) + 1
      /\ \A j \in 1 .. Len(z.nums) : ComponentKeys(u)[j] = ComponentKeys(z)[j]
    BY DottedKeys
<1>2. Len(c.nums) = Len(z.nums) /\ ComponentKeys(c) = ComponentKeys(z)
    BY NumsEqual DEF Alike, SameNums
<1>3. NumsShort(c, u)
    BY <1>1, <1>2 DEF NumsShort
<1> QED BY <1>3, NumsRule

NextLetter(z) ==
    IF z.letter # 0 THEN BumpedLetter(z) ELSE WithSuffix([z EXCEPT !.letter = 1], Alpha)

LEMMA NextLetterIs ==
    ASSUME NEW z, IsVersion(z), z.rev = 0, z.suffixes = <<>>
    PROVE  \E y : /\ IsVersion(y) /\ y.rev = 0 /\ y.suffixes = <<>>
                  /\ NextLetter(z) = WithSuffix(y, Alpha)
                  /\ \/ y.nums = z.nums /\ y.letter = z.letter + 1
                     \/ /\ y.nums = Append(z.nums, [zeros |-> 0, value |-> 0]) /\ y.letter = 0
                        /\ z.letter = MaxLetter
<1>1. /\ z.nums \in Seq(Component) /\ z.nums # <<>> /\ z.letter \in 0 .. MaxLetter
      /\ z.suffixes \in Seq(Suffix) /\ 0 \in 0 .. MaxNum /\ 0 \in 0 .. MaxLetter
    BY VersionParts, VersionAssumption
<1>2. Released(z) = z /\ z = [nums |-> z.nums, letter |-> z.letter, suffixes |-> <<>>, rev |-> 0]
    BY DEF Released, IsVersion
<1>3. CASE z.letter < MaxLetter
  <2> DEFINE y == [z EXCEPT !.letter = z.letter + 1]
  <2>1. y = [nums |-> z.nums, letter |-> z.letter + 1, suffixes |-> z.suffixes, rev |-> 0]
      BY <1>2
  <2>2. z.letter + 1 \in 0 .. MaxLetter
      BY <1>1, <1>3, VersionAssumption
  <2>3. IsVersion([nums |-> z.nums, letter |-> z.letter + 1, suffixes |-> z.suffixes, rev |-> 0])
      BY <1>1, <2>2, VersionMade
  <2>4. NextLetter(z) = WithSuffix(y, Alpha)
    <3>1. CASE z.letter # 0
      <4>1. z.letter \in 1 .. MaxLetter - 1
          BY <1>1, <1>3, <3>1, VersionAssumption
      <4> QED BY <1>2, <3>1, <4>1 DEF NextLetter, BumpedLetter
    <3>2. CASE z.letter = 0
        BY <3>2 DEF NextLetter
    <3> QED BY <3>1, <3>2
  <2> HIDE DEF y
  <2> QED BY <2>1, <2>3, <2>4
<1>4. CASE z.letter = MaxLetter
  <2> DEFINE e == [zeros |-> 0, value |-> 0]
             y == [Released(z) EXCEPT !.letter = 0, !.nums = Append(@, e)]
  <2>1. y = [nums |-> Append(z.nums, e), letter |-> 0, suffixes |-> z.suffixes, rev |-> 0]
    <3> HIDE DEF e
    <3> DEFINE w == [nums |-> z.nums, letter |-> 0, suffixes |-> z.suffixes, rev |-> 0]
               a == Append(z.nums, e)
    <3>1. [z EXCEPT !.letter = 0] = w
        BY <1>2
    <3>2. y = [[z EXCEPT !.letter = 0] EXCEPT !.nums = a]
        BY <1>2
    <3> HIDE DEF y, a
    <3>3. y = [w EXCEPT !.nums = a]
        BY <3>1, <3>2
    <3>4. y = [nums |-> a, letter |-> 0, suffixes |-> z.suffixes, rev |-> 0]
        BY <3>3
    <3> QED BY <3>4 DEF a
  <2>2. NextLetter(z) = WithSuffix(y, Alpha)
    <3>1. z.letter \notin 1 .. MaxLetter - 1 /\ z.letter # 0
        BY <1>4, VersionAssumption
    <3> QED BY <3>1 DEF NextLetter, BumpedLetter
  <2>3. e \in Component
      BY VersionAssumption DEF Component
  <2> HIDE DEF y, e
  <2>4. Append(z.nums, e) \in Seq(Component) /\ Append(z.nums, e) # <<>>
    <3>1. /\ Append(z.nums, e) \in Seq(Component) /\ Len(z.nums) \in Nat
          /\ Len(Append(z.nums, e)) = Len(z.nums) + 1
        BY <1>1, <2>3, AppendProperties, LenProperties
    <3> QED BY <3>1
  <2>5. IsVersion([nums |-> Append(z.nums, e), letter |-> 0, suffixes |-> z.suffixes, rev |-> 0])
      BY <1>1, <2>4, VersionMade
  <2>6. y.nums = Append(z.nums, [zeros |-> 0, value |-> 0])
      BY <2>1 DEF e
  <2> QED BY <1>4, <2>1, <2>2, <2>5, <2>6
<1> QED BY <1>1, <1>3, <1>4, VersionAssumption

LEMMA NextLetterBounds ==
    ASSUME NEW c, NEW z, IsVersion(c), IsVersion(z), z.rev = 0, z.suffixes = <<>>
    PROVE  /\ Beneath(c, z) => Less(c, NextLetter(z))
           /\ ~Less(c, z) /\ ~Beneath(c, z) /\ Less(c, NextLetter(z)) => Under(c, NextLetter(z))
<1>1. PICK y : /\ IsVersion(y) /\ y.rev = 0 /\ y.suffixes = <<>>
               /\ NextLetter(z) = WithSuffix(y, Alpha)
               /\ \/ y.nums = z.nums /\ y.letter = z.letter + 1
                  \/ /\ y.nums = Append(z.nums, [zeros |-> 0, value |-> 0]) /\ y.letter = 0
                     /\ z.letter = MaxLetter
    BY NextLetterIs
<1> DEFINE u == WithSuffix(y, Alpha)
<1>2. /\ IsVersion(u) /\ u.nums = y.nums /\ u.letter = y.letter
    BY <1>1, Suffixed DEF SuffixKinds, SameBody
<1> HIDE DEF u
<1>3. ASSUME Beneath(c, z) PROVE Less(c, u)
  <2>1. Alike(c, z)
      BY <1>3 DEF Beneath, Reaches
  <2> QED BY <1>1, <1>2, <2>1, LetterAbove, DotAbove
<1>4. ASSUME ~Less(c, z), ~Beneath(c, z), Less(c, u) PROVE Under(c, u)
  <2> SUFFICES ASSUME ~Under(c, u) PROVE FALSE
      OBVIOUS
  <2>1. Less(c, y) /\ ~Beneath(c, y)
      BY <1>1, <1>4, UpperSide DEF u
  <2> QED BY <1>1, <1>4, <2>1, LetterGap, DotGap
<1> QED BY <1>1, <1>3, <1>4 DEF u

(* For the components.  The successor of a number in digits, and what      *)
(* TrimEnd leaves of it when it is as wide as it was written.              *)

LEMMA DivIs ==
    ASSUME NEW q \in Nat, NEW r \in 0 .. Base - 1, NEW n \in Nat, n = Base * q + r
    PROVE  n \div Base = q /\ n % Base = r
    BY VersionAssumption

LEMMA DivExists == \A n \in Nat : \E q \in Nat, r \in 0 .. Base - 1 : n = Base * q + r
<1> DEFINE S == {n \in Nat : \E q \in Nat, r \in 0 .. Base - 1 : n = Base * q + r}
<1> USE VersionAssumption
<1>1. 0 \in S
  <2>1. 0 = Base * 0 + 0 /\ 0 \in Nat /\ 0 \in 0 .. Base - 1
      OBVIOUS
  <2> QED BY <2>1
<1>2. ASSUME NEW n \in Nat, n \in S PROVE n + 1 \in S
  <2>1. PICK q \in Nat, r \in 0 .. Base - 1 : n = Base * q + r
      BY <1>2
  <2>2. CASE r + 1 < Base
    <3>1. r + 1 \in 0 .. Base - 1 /\ n + 1 = Base * q + (r + 1)
        BY <2>1, <2>2
    <3> QED BY <2>1, <3>1
  <2>3. CASE r + 1 = Base
    <3> DEFINE p == q + 1
    <3>1. p \in Nat /\ 0 \in 0 .. Base - 1 /\ n + 1 = Base * p + 0
      <4>1. Base * (q + 1) = Base * q + Base /\ Base * q \in Int
          BY <2>1
      <4> QED BY <2>1, <2>3, <4>1
    <3> HIDE DEF p
    <3> QED BY <3>1
  <2> QED BY <2>1, <2>2, <2>3
<1>3. \A n \in Nat : n \in S
  <2> HIDE DEF S
  <2> QED BY <1>1, <1>2, NatSetInduction
<1> QED BY <1>3

LEMMA DivUp ==
    ASSUME NEW n \in Nat
    PROVE  /\ n \div Base \in Nat /\ n % Base \in 0 .. Base - 1
           /\ (n % Base) + 1 < Base =>
                (n + 1) \div Base = n \div Base /\ (n + 1) % Base = (n % Base) + 1
           /\ (n % Base) + 1 = Base =>
                (n + 1) \div Base = n \div Base + 1 /\ (n + 1) % Base = 0
<1> USE VersionAssumption
<1>1. PICK q \in Nat, r \in 0 .. Base - 1 : n = Base * q + r
    BY DivExists
<1>2. n \div Base = q /\ n % Base = r
    BY <1>1, DivIs
<1>3. ASSUME r + 1 < Base PROVE (n + 1) \div Base = q /\ (n + 1) % Base = r + 1
  <2>1. r + 1 \in 0 .. Base - 1 /\ n + 1 = Base * q + (r + 1) /\ n + 1 \in Nat
      BY <1>1, <1>3
  <2> QED BY <2>1, DivIs
<1>4. ASSUME r + 1 = Base PROVE (n + 1) \div Base = q + 1 /\ (n + 1) % Base = 0
  <2> DEFINE p == q + 1
             k == n + 1
  <2>1. p \in Nat /\ 0 \in 0 .. Base - 1 /\ k = Base * p + 0 /\ k \in Nat
    <3>1. Base * (q + 1) = Base * q + Base /\ Base * q \in Int
        BY <1>1
    <3> QED BY <1>1, <1>4, <3>1
  <2>2. k \div Base = p /\ k % Base = 0
    <3> HIDE DEF p, k
    <3> QED BY <2>1, DivIs
  <2> QED BY <2>2
<1> QED BY <1>1, <1>2, <1>3, <1>4

(* s and t are as long, and where they first differ s is the lower.        *)
Steps(s, t) ==
    /\ Len(s) = Len(t)
    /\ \E j \in 1 .. Len(s) : s[j] < t[j] /\ \A i \in 1 .. j - 1 : s[i] = t[i]

LEMMA StepsBefore ==
    ASSUME NEW s \in Seq(Nat), NEW t \in Seq(Nat), NEW a \in Nat, NEW b \in Nat, Steps(s, t)
    PROVE  Steps(Append(s, a), Append(t, b))
<1>1. PICK j \in 1 .. Len(s) : s[j] < t[j] /\ \A i \in 1 .. j - 1 : s[i] = t[i]
    BY DEF Steps
<1>2. Len(s) = Len(t) /\ Len(s) \in Nat
    BY LenProperties DEF Steps
<1>3. /\ Len(Append(s, a)) = Len(s) + 1 /\ Len(Append(t, b)) = Len(s) + 1
      /\ \A i \in 1 .. Len(s) : Append(s, a)[i] = s[i]
      /\ \A i \in 1 .. Len(s) : Append(t, b)[i] = t[i]
  <2>1. Len(Append(s, a)) = Len(s) + 1 /\ \A i \in 1 .. Len(s) : Append(s, a)[i] = s[i]
      BY AppendProperties
  <2>2. Len(Append(t, b)) = Len(t) + 1 /\ \A i \in 1 .. Len(t) : Append(t, b)[i] = t[i]
      BY AppendProperties
  <2> QED BY <1>2, <2>1, <2>2
<1>4. j \in 1 .. Len(s) + 1 /\ \A i \in 1 .. j - 1 : i \in 1 .. Len(s)
    BY <1>1, <1>2
<1>5. Append(s, a)[j] < Append(t, b)[j] /\ \A i \in 1 .. j - 1 : Append(s, a)[i] = Append(t, b)[i]
    BY <1>1, <1>3, <1>4
<1> QED BY <1>3, <1>4, <1>5 DEF Steps

LEMMA StepsLast ==
    ASSUME NEW s \in Seq(Nat), NEW a \in Nat, NEW b \in Nat, a < b
    PROVE  Steps(Append(s, a), Append(s, b))
<1>1. Len(s) \in Nat
    BY LenProperties
<1>2. /\ Len(Append(s, a)) = Len(s) + 1 /\ Len(Append(s, b)) = Len(s) + 1
      /\ Append(s, a)[Len(s) + 1] = a /\ Append(s, b)[Len(s) + 1] = b
      /\ \A i \in 1 .. Len(s) : Append(s, a)[i] = Append(s, b)[i]
    BY <1>1, AppendProperties
<1>3. Len(s) + 1 \in 1 .. Len(s) + 1 /\ (Len(s) + 1) - 1 = Len(s)
    BY <1>1
<1> QED BY <1>2, <1>3 DEF Steps

(* A number and the next: as many digits, or one more.                     *)
LEMMA DigitsUp ==
    \A n \in 0 .. MaxNum - 1 :
        Steps(Digits[n], Digits[n + 1]) \/ Len(Digits[n + 1]) = Len(Digits[n]) + 1
<1> USE VersionAssumption
<1> DEFINE Good(n) == Steps(Digits[n], Digits[n + 1]) \/ Len(Digits[n + 1]) = Len(Digits[n]) + 1
           S == {m \in Nat : \A n \in 0 .. MaxNum - 1 : n <= m => Good(n)}
<1>1. ASSUME NEW n \in 0 .. MaxNum - 1, n < Base PROVE Good(n)
  <2>0. n \in 0 .. MaxNum /\ n + 1 \in 0 .. MaxNum
      OBVIOUS
  <2>1. Digits[n] = <<n>> /\ n + 1 \in 0 .. MaxNum
      BY <1>1, <2>0, DigitsDef
  <2>2. CASE n + 1 < Base
    <3>1. Digits[n + 1] = <<n + 1>>
        BY <2>1, <2>2, DigitsDef
    <3>2. Steps(<<n>>, <<n + 1>>)
        BY DEF Steps
    <3> QED BY <2>1, <3>1, <3>2
  <2>3. CASE n + 1 = Base
    <3>1. (n + 1) \div Base = 1 /\ (n + 1) % Base = 0
      <4>1. 1 \in Nat /\ 0 \in 0 .. Base - 1 /\ n + 1 \in Nat /\ n + 1 = Base * 1 + 0
          BY <2>3
      <4> QED BY <4>1, DivIs
    <3>2. Digits[n + 1] = Append(Digits[1], 0)
      <4>1. ~(n + 1 < Base)
          BY <2>3
      <4> QED BY <2>1, <3>1, <4>1, DigitsDef, Zenon
    <3>3. Digits[1] = <<1>>
      <4>1. 1 \in 0 .. MaxNum /\ 1 < Base
          OBVIOUS
      <4> QED BY <4>1, DigitsDef
    <3>4. Len(Digits[n + 1]) = 2 /\ Len(Digits[n]) = 1
        BY <2>1, <3>2, <3>3
    <3> QED BY <3>4
  <2> QED BY <1>1, <2>2, <2>3
<1>2. 0 \in S
    BY <1>1
<1>3. ASSUME NEW m \in Nat, m \in S PROVE m + 1 \in S
  <2> SUFFICES ASSUME NEW n \in 0 .. MaxNum - 1, n <= m + 1 PROVE Good(n)
      OBVIOUS
  <2>1. CASE n < Base
      BY <1>1, <2>1
  <2>2. CASE n >= Base
    <3> DEFINE q == n \div Base
               r == n % Base
    <3>1. /\ n \in Nat /\ n + 1 \in 0 .. MaxNum /\ n \in 0 .. MaxNum
          /\ ~(n < Base) /\ ~(n + 1 < Base)
        BY <2>2
    <3>2. q \in Nat /\ q < n /\ r \in Nat
        BY <2>2, <3>1, DivBelow
    <3>3. Digits[n] = Append(Digits[q], r)
        BY <3>1, DigitsDef, Zenon
    <3>4. Digits[n + 1] = Append(Digits[(n + 1) \div Base], (n + 1) % Base)
        BY <3>1, DigitsDef, Zenon
    <3>5. /\ r \in 0 .. Base - 1
          /\ r + 1 < Base => (n + 1) \div Base = q /\ (n + 1) % Base = r + 1
          /\ r + 1 = Base => (n + 1) \div Base = q + 1 /\ (n + 1) % Base = 0
        BY <3>1, DivUp
    <3> HIDE DEF q, r
    <3>6. q \in 0 .. MaxNum - 1 /\ q <= m /\ q \in 0 .. MaxNum /\ q + 1 \in 0 .. MaxNum
        BY <3>1, <3>2
    <3>7. Digits[q] \in Seq(Nat) /\ Digits[q + 1] \in Seq(Nat)
        BY <3>6, DigitsShape
    <3>8. Good(q)
        BY <1>3, <3>6
    <3>9. CASE r + 1 < Base
      <4>1. Digits[n + 1] = Append(Digits[q], r + 1) /\ r < r + 1 /\ r + 1 \in Nat
          BY <3>2, <3>4, <3>5, <3>9
      <4>2. Steps(Append(Digits[q], r), Append(Digits[q], r + 1))
          BY <3>2, <3>7, <4>1, StepsLast
      <4> QED BY <3>3, <4>1, <4>2
    <3>10. CASE r + 1 = Base
      <4>1. Digits[n + 1] = Append(Digits[q + 1], 0) /\ 0 \in Nat
          BY <3>4, <3>5, <3>10
      <4>2. CASE Steps(Digits[q], Digits[q + 1])
        <5>1. Steps(Append(Digits[q], r), Append(Digits[q + 1], 0))
            BY <3>2, <3>7, <4>1, <4>2, StepsBefore
        <5> QED BY <3>3, <4>1, <5>1
      <4>3. CASE Len(Digits[q + 1]) = Len(Digits[q]) + 1
        <5>1. /\ Len(Append(Digits[q], r)) = Len(Digits[q]) + 1
              /\ Len(Append(Digits[q + 1], 0)) = Len(Digits[q + 1]) + 1
            BY <3>2, <3>7, <4>1, AppendProperties
        <5>2. Len(Digits[n + 1]) = Len(Digits[n]) + 1
            BY <3>3, <4>1, <4>3, <5>1
        <5> QED BY <5>2
      <4> QED BY <3>8, <4>2, <4>3
    <3> QED BY <3>2, <3>5, <3>9, <3>10
  <2> QED BY <2>1, <2>2
<1>4. \A m \in Nat : m \in S
  <2> HIDE DEF S
  <2> QED BY <1>2, <1>3, NatSetInduction
<1>5. ASSUME NEW n \in 0 .. MaxNum - 1 PROVE Good(n)
  <2>1. n \in S /\ n <= n
    <3>1. n \in Nat
        OBVIOUS
    <3> HIDE DEF S
    <3> QED BY <1>4, <3>1
  <2> QED BY <2>1
<1> QED BY <1>5

(* Of two strings as long, the lower is lower without its last zeros.      *)
LEMMA TrimLess ==
    ASSUME NEW s \in Seq(Nat), NEW t \in Seq(Nat), Steps(s, t)
    PROVE  LexLess(TrimEnd(s), TrimEnd(t))
<1>1. PICK j \in 1 .. Len(s) : s[j] < t[j] /\ \A i \in 1 .. j - 1 : s[i] = t[i]
    BY DEF Steps
<1>2. /\ Len(s) = Len(t) /\ Len(s) \in Nat
      /\ \A i \in 1 .. Len(s) : s[i] \in Nat /\ t[i] \in Nat
    BY LenProperties, ElementOfSeq DEF Steps
<1>3. PICK k \in 0 .. Len(s) : (k = 0 \/ s[k] # 0) /\ \A i \in k + 1 .. Len(s) : s[i] = 0
    BY TrimWhere
<1>4. PICK l \in 0 .. Len(t) : (l = 0 \/ t[l] # 0) /\ \A i \in l + 1 .. Len(t) : t[i] = 0
    BY TrimWhere
<1> DEFINE a == SubSeq(s, 1, k)
           b == SubSeq(t, 1, l)
<1>5. TrimEnd(s) = a /\ TrimEnd(t) = b
    BY <1>3, <1>4, TrimAt
<1>6. DOMAIN a = 1 .. k /\ \A i \in 1 .. k : a[i] = s[i]
    BY <1>2, <1>3
<1>7. DOMAIN b = 1 .. l /\ \A i \in 1 .. l : b[i] = t[i]
    BY <1>2, <1>4
<1> HIDE DEF a, b
<1>8. j <= l
  <2> SUFFICES ASSUME l < j PROVE FALSE
      BY <1>1, <1>2, <1>4
  <2>1. j \in l + 1 .. Len(t) /\ j \in 1 .. Len(s)
      BY <1>1, <1>2, <1>4
  <2>2. t[j] = 0 /\ s[j] \in Nat
      BY <1>2, <1>4, <2>1
  <2> QED BY <1>1, <2>2
<1>9. CASE j <= k
  <2>1. /\ j \in 1 .. l /\ j \in 1 .. k
        /\ \A i \in 1 .. j - 1 : i \in 1 .. k /\ i \in 1 .. l
      BY <1>1, <1>2, <1>3, <1>4, <1>8, <1>9
  <2>2. a[j] < b[j] /\ \A i \in 1 .. j - 1 : i \in DOMAIN a /\ a[i] = b[i]
      BY <1>1, <1>6, <1>7, <2>1
  <2>3. LexLess(a, b)
      BY <1>7, <2>1, <2>2 DEF LexLess
  <2> QED BY <1>5, <2>3
<1>10. CASE k < j
  <2>1. /\ k + 1 \in 1 .. l /\ k + 1 \notin 1 .. k /\ (k + 1) - 1 = k
        /\ \A i \in 1 .. k : i \in 1 .. j - 1 /\ i \in 1 .. l
      BY <1>1, <1>2, <1>3, <1>4, <1>8, <1>10
  <2>2. \A i \in 1 .. k : i \in DOMAIN a /\ a[i] = b[i]
      BY <1>1, <1>6, <1>7, <2>1
  <2>3. LexLess(a, b)
      BY <1>6, <1>7, <2>1, <2>2 DEF LexLess
  <2> QED BY <1>5, <2>3
<1> QED BY <1>1, <1>3, <1>9, <1>10

LEMMA WrittenShape ==
    ASSUME NEW c \in Component
    PROVE  LET d == Digits[c.value]
           IN  /\ c.zeros \in Nat /\ c.value \in 0 .. MaxNum
               /\ d \in Seq(Nat) /\ Len(d) \in Nat \ {0}
               /\ Written(c) \in Seq(Nat) /\ Len(Written(c)) = c.zeros + Len(d)
               /\ \A i \in 1 .. c.zeros + Len(d) :
                      Written(c)[i] = IF i <= c.zeros THEN 0 ELSE d[i - c.zeros]
<1> DEFINE z == c.zeros
           d == Digits[c.value]
<1>1. /\ z \in Nat /\ c.value \in 0 .. MaxNum
      /\ Zeros(z) \in Seq(Nat) /\ Len(Zeros(z)) = z /\ \A i \in 1 .. z : Zeros(z)[i] = 0
    BY ZerosShape DEF Component
<1>2. d \in Seq(Nat) /\ d # <<>>
    BY <1>1, DigitsShape
<1>3. Written(c) = Zeros(z) \o d
    BY DEF Written
<1> HIDE DEF z, d
<1>4. Len(d) \in Nat \ {0}
    BY <1>2, LenProperties, EmptySeq
<1>5. /\ Zeros(z) \o d \in Seq(Nat)
      /\ Len(Zeros(z) \o d) = Len(Zeros(z)) + Len(d)
      /\ \A i \in 1 .. Len(Zeros(z)) + Len(d) :
             (Zeros(z) \o d)[i] = IF i <= Len(Zeros(z)) THEN Zeros(z)[i] ELSE d[i - Len(Zeros(z))]
    BY <1>1, <1>2, ConcatProperties
<1> DEFINE w == Zeros(z) \o d
<1>6. \A i \in 1 .. z + Len(d) : w[i] = IF i <= z THEN 0 ELSE d[i - z]
  <2> SUFFICES ASSUME NEW i \in 1 .. z + Len(d)
               PROVE  w[i] = IF i <= z THEN 0 ELSE d[i - z]
      OBVIOUS
  <2>1. w[i] = IF i <= z THEN Zeros(z)[i] ELSE d[i - z]
    <3> HIDE DEF w
    <3> QED BY <1>1, <1>5 DEF w
  <2> HIDE DEF w
  <2>2. i <= z => i \in 1 .. z
      BY <1>1, <1>4
  <2> QED BY <1>1, <2>1, <2>2
<1>7. w \in Seq(Nat) /\ Len(w) = z + Len(d)
    BY <1>1, <1>5
<1> HIDE DEF w
<1>8. Written(c) = w
    BY <1>3 DEF w
<1> QED BY <1>1, <1>2, <1>4, <1>6, <1>7, <1>8 DEF z, d

(* The component bumped.                                                   *)
LEMMA BumpedShape ==
    ASSUME NEW c \in Component, c.value < MaxNum, NEW b, b = BumpedComponent(c)
    PROVE  LET wide == c.zeros + Len(Digits[c.value])
               next == Len(Digits[c.value + 1])
           IN  /\ b \in Component /\ b.value = c.value + 1
               /\ wide \in Nat /\ next \in Nat
               /\ b.zeros = IF wide > next THEN wide - next ELSE 0
               /\ c.value \in 0 .. MaxNum - 1
<1> DEFINE wide == c.zeros + Len(Digits[c.value])
           next == Len(Digits[c.value + 1])
<1>1. c.zeros \in Nat /\ c.value \in 0 .. MaxNum - 1 /\ c.value + 1 \in 0 .. MaxNum /\ c.value \in 0 .. MaxNum
    BY VersionAssumption DEF Component
<1>2. Len(Digits[c.value]) \in Nat /\ next \in Nat
    BY <1>1, DigitsShape, LenProperties
<1>3. wide \in Nat
    BY <1>1, <1>2
<1>4. b = [zeros |-> IF wide > next THEN wide - next ELSE 0, value |-> c.value + 1]
    BY DEF BumpedComponent
<1> HIDE DEF wide, next
<1>5. (IF wide > next THEN wide - next ELSE 0) \in Nat
    BY <1>2, <1>3
<1>6. b \in Component
    BY <1>1, <1>4, <1>5 DEF Component
<1> QED BY <1>1, <1>2, <1>3, <1>4, <1>6 DEF wide, next

LEMMA BumpSteps ==
    ASSUME NEW c \in Component, c.value < MaxNum, ZeroLed(c)
    PROVE  Steps(Written(c), Written(BumpedComponent(c)))
<1> DEFINE b == BumpedComponent(c)
           d == Digits[c.value]
           e == Digits[c.value + 1]
           z == c.zeros
           y == b.zeros
           s == Written(c)
           t == Written(b)
<1> USE VersionAssumption
<1>1. /\ b \in Component /\ b.value = c.value + 1 /\ c.value \in 0 .. MaxNum - 1
      /\ y = IF z + Len(d) > Len(e) THEN (z + Len(d)) - Len(e) ELSE 0
    BY BumpedShape
<1>2. /\ z \in Nat /\ d \in Seq(Nat) /\ Len(d) \in Nat \ {0}
      /\ Len(s) = z + Len(d)
      /\ \A i \in 1 .. z + Len(d) : s[i] = IF i <= z THEN 0 ELSE d[i - z]
    BY WrittenShape
<1>3. /\ y \in Nat /\ e \in Seq(Nat) /\ Len(e) \in Nat \ {0}
      /\ Len(t) = y + Len(e)
      /\ \A i \in 1 .. y + Len(e) : t[i] = IF i <= y THEN 0 ELSE e[i - y]
  <2> HIDE DEF b
  <2>1. e = Digits[b.value]
      BY <1>1
  <2> QED BY <1>1, <2>1, WrittenShape
<1>4. Steps(d, e) \/ Len(e) = Len(d) + 1
    BY <1>1, DigitsUp
<1>5. CASE Steps(d, e)
  <2> HIDE DEF b, d, e, z, y, s, t
  <2>1. PICK j \in 1 .. Len(d) : d[j] < e[j] /\ \A i \in 1 .. j - 1 : d[i] = e[i]
      BY <1>5 DEF Steps
  <2>2. Len(d) = Len(e)
      BY <1>5 DEF Steps
  <2>3. y = z
      BY <1>1, <1>2, <1>3, <2>2
  <2>4. /\ z + j \in 1 .. z + Len(d) /\ ~(z + j <= z) /\ (z + j) - z = j
        /\ \A i \in 1 .. (z + j) - 1 : i \in 1 .. z + Len(d)
        /\ \A i \in 1 .. (z + j) - 1 : i <= z \/ i - z \in 1 .. j - 1
      BY <1>2, <2>1
  <2>5. s[z + j] < t[z + j]
      BY <1>2, <1>3, <2>1, <2>2, <2>3, <2>4
  <2>6. \A i \in 1 .. (z + j) - 1 : s[i] = t[i]
      BY <1>2, <1>3, <2>1, <2>2, <2>3, <2>4
  <2>7. z + j \in 1 .. Len(s) /\ Len(s) = Len(t)
      BY <1>2, <1>3, <2>2, <2>3, <2>4
  <2>8. Steps(s, t)
      BY <2>5, <2>6, <2>7 DEF Steps
  <2> QED BY <2>8 DEF s, t, b
<1>6. CASE Len(e) = Len(d) + 1
  <2>1. z # 0
    <3> SUFFICES ASSUME c.value = 0 PROVE FALSE
        BY DEF ZeroLed
    <3>1. 0 \in 0 .. MaxNum /\ 1 \in 0 .. MaxNum /\ 0 < Base /\ 1 < Base
        OBVIOUS
    <3>2. Digits[0] = <<0>> /\ Digits[1] = <<1>>
        BY <3>1, DigitsDef
    <3>3. Len(d) = 1 /\ Len(e) = 1
        BY <3>2
    <3> QED BY <1>6, <3>3
  <2>2. e[1] # 0 /\ e[1] \in Nat
    <3>1. c.value + 1 \in 0 .. MaxNum /\ c.value + 1 # 0
        BY <1>1
    <3>2. e[1] # 0
        BY <3>1, DigitsShape
    <3>3. 1 \in 1 .. Len(e)
        BY <1>3
    <3> HIDE DEF e
    <3> QED BY <1>3, <3>2, <3>3, ElementOfSeq
  <2> HIDE DEF b, d, e, z, y, s, t
  <2>3. y = z - 1
      BY <1>1, <1>2, <1>3, <1>6, <2>1
  <2>4. /\ z \in 1 .. z + Len(d) /\ z \in 1 .. y + Len(e) /\ ~(z <= y) /\ z - y = 1
        /\ \A i \in 1 .. z - 1 : /\ i \in 1 .. z + Len(d) /\ i \in 1 .. y + Len(e)
                                 /\ i <= z /\ i <= y
      BY <1>2, <1>3, <2>1, <2>3
  <2>5. s[z] = 0 /\ t[z] = e[1]
      BY <1>2, <1>3, <2>4
  <2>6. \A i \in 1 .. z - 1 : s[i] = t[i]
      BY <1>2, <1>3, <2>4
  <2>7. s[z] < t[z] /\ Len(s) = Len(t) /\ z \in 1 .. Len(s)
      BY <1>2, <1>3, <1>6, <2>2, <2>3, <2>4, <2>5
  <2>8. Steps(s, t)
      BY <2>6, <2>7 DEF Steps
  <2> QED BY <2>8 DEF s, t, b
<1> QED BY <1>4, <1>5, <1>6

(* It is above what it was, whatever way the two are compared.             *)
LEMMA BumpLower ==
    ASSUME NEW c \in Component, c.value < MaxNum, NEW i \in Nat \ {0}
    PROVE  LowerComponent(i, c, BumpedComponent(c))
<1> DEFINE b == BumpedComponent(c)
<1>1. /\ b \in Component /\ b.value = c.value + 1 /\ c.value \in 0 .. MaxNum - 1
      /\ b.zeros = IF c.zeros + Len(Digits[c.value]) > Len(Digits[c.value + 1])
                   THEN (c.zeros + Len(Digits[c.value])) - Len(Digits[c.value + 1]) ELSE 0
    BY BumpedShape
<1> HIDE DEF b
<1>2. c.value < b.value
    BY <1>1, VersionAssumption
<1>3. CASE ~ZeroLed(c)
  <2>1. c.zeros = 0
    <3>1. c.zeros \in Nat
        BY WrittenShape
    <3> QED BY <1>3, <3>1 DEF ZeroLed
  <2>2. b.zeros = 0
    <3>1. Len(Digits[c.value]) \in Nat /\ Len(Digits[c.value + 1]) \in Nat
      <4>1. c.value \in 0 .. MaxNum /\ c.value + 1 \in 0 .. MaxNum
          BY <1>1, VersionAssumption
      <4> QED BY <4>1, DigitsShape, LenProperties
    <3>2. Steps(Digits[c.value], Digits[c.value + 1])
             \/ Len(Digits[c.value + 1]) = Len(Digits[c.value]) + 1
        BY <1>1, DigitsUp
    <3>3. Len(Digits[c.value]) <= Len(Digits[c.value + 1])
        BY <3>1, <3>2 DEF Steps
    <3> QED BY <1>1, <2>1, <3>1, <3>3
  <2>3. ~ZeroLed(b)
      BY <1>1, <2>2, VersionAssumption DEF ZeroLed
  <2> QED BY <1>2, <1>3, <2>3 DEF LowerComponent, StringOrder, b
<1>4. CASE ZeroLed(c)
  <2>1. Steps(Written(c), Written(b))
      BY <1>4, BumpSteps DEF b
  <2>2. Written(c) \in Seq(Nat) /\ Written(b) \in Seq(Nat)
      BY <1>1, WrittenShape
  <2>3. LexLess(TrimEnd(Written(c)), TrimEnd(Written(b)))
      BY <2>1, <2>2, TrimLess
  <2> QED BY <1>2, <2>3 DEF LowerComponent, b
<1> QED BY <1>3, <1>4

(* Nothing is between a component compared by its value and its successor, *)
(* and nothing above the largest: this is where the carry has to be exact. *)

LEMMA LowerDiffers ==
    ASSUME NEW i \in Nat \ {0}, NEW c \in Component, NEW d \in Component,
           LowerComponent(i, c, d)
    PROVE  ComponentKey(i, c) # ComponentKey(i, d)
<1> SUFFICES ASSUME SameComponent(i, c, d) PROVE FALSE
    BY SameKey
<1>1. TrimEnd(Written(c)) \in Seq(Int) /\ c.value \in Int
  <2>1. TrimEnd(Written(c)) \in Seq(Nat) /\ c.value \in 0 .. MaxNum
      BY StringShape, WrittenShape
  <2> QED BY <2>1, VersionAssumption
<1>2. ~LexLess(TrimEnd(Written(c)), TrimEnd(Written(c)))
    BY <1>1, LexAsymmetric
<1> QED BY <1>1, <1>2 DEF SameComponent, LowerComponent

(* Only the key of a component counts.                                     *)
LEMMA LowerByKey ==
    ASSUME NEW i \in Nat \ {0}, NEW c \in Component, NEW d \in Component, NEW e \in Component,
           ComponentKey(i, c) = ComponentKey(i, d), LowerComponent(i, d, e)
    PROVE  LowerComponent(i, c, e)
<1>1. ComponentKey(i, d) # ComponentKey(i, e)
    BY LowerDiffers
<1>2. ~SameComponent(i, d, e) /\ ~SameComponent(i, c, e)
    BY <1>1, SameKey
<1>3. <<>> \in Seq(Int)
    OBVIOUS
<1>4. /\ LexLess(Cat(ComponentKey(i, d), <<>>), Cat(ComponentKey(i, e), <<>>))
             <=> LowerComponent(i, d, e)
      /\ LexLess(Cat(ComponentKey(i, c), <<>>), Cat(ComponentKey(i, e), <<>>))
             <=> LowerComponent(i, c, e)
    BY <1>2, <1>3, ComponentCat
<1> QED BY <1>4

(* What is above a component that is compared by its value.                *)
LEMMA PlainBelow ==
    ASSUME NEW i \in Nat \ {0}, NEW c \in Component, NEW d \in Component,
           i = 1 \/ ~ZeroLed(c), LowerComponent(i, c, d)
    PROVE  c.value < d.value /\ (i = 1 \/ ~ZeroLed(d))
<1>1. CASE i = 1
    BY <1>1 DEF LowerComponent, StringOrder
<1>2. CASE i # 1 /\ ~ZeroLed(d)
    BY <1>2 DEF LowerComponent, StringOrder
<1>3. CASE i # 1 /\ ZeroLed(d)
  <2> DEFINE x == String(c)
             y == String(d)
  <2>1. /\ x \in Seq(Nat) /\ y \in Seq(Nat)
        /\ TrimEnd(Written(c)) = x /\ TrimEnd(Written(d)) = y
        /\ x # <<>> /\ x[1] # 0
        /\ y = <<>> \/ (y # <<>> /\ y[1] = 0)
      BY <1>3, StringShape
  <2>2. LexLess(x, y)
      BY <1>3, <2>1 DEF LowerComponent, StringOrder
  <2> HIDE DEF x, y
  <2>3. PICK j \in DOMAIN y : /\ \A k \in 1 .. j - 1 : k \in DOMAIN x /\ x[k] = y[k]
                              /\ j \in DOMAIN x => x[j] < y[j]
      BY <2>2 DEF LexLess
  <2>4. y # <<>> /\ j \in Nat \ {0} /\ 1 \in 1 .. Len(x) /\ DOMAIN x = 1 .. Len(x) /\ x[1] \in Nat
    <3>1. DOMAIN y = 1 .. Len(y) /\ Len(y) \in Nat /\ DOMAIN x = 1 .. Len(x) /\ Len(x) \in Nat \ {0}
        BY <2>1, LenProperties, EmptySeq
    <3>2. y # <<>>
        BY <2>3, <3>1
    <3>3. 1 \in 1 .. Len(x)
        BY <3>1
    <3> QED BY <2>1, <2>3, <3>1, <3>2, <3>3, ElementOfSeq
  <2>5. CASE j = 1
      BY <2>1, <2>3, <2>4, <2>5
  <2>6. CASE j # 1
    <3>1. 1 \in 1 .. j - 1
        BY <2>4, <2>6
    <3> QED BY <2>1, <2>3, <2>4, <3>1
  <2> QED BY <2>5, <2>6
<1> QED BY <1>1, <1>2, <1>3

LEMMA NothingBetween ==
    ASSUME NEW i \in Nat \ {0}, NEW c \in Component, c.value < MaxNum, NEW d \in Component,
           i = 1 \/ ~ZeroLed(c), LowerComponent(i, c, d)
    PROVE  ~LowerComponent(i, d, BumpedComponent(c))
<1> DEFINE b == BumpedComponent(c)
<1>1. b \in Component /\ b.value = c.value + 1 /\ c.value \in Nat /\ d.value \in Nat
  <2>1. b \in Component /\ b.value = c.value + 1
      BY BumpedShape
  <2>2. c.value \in 0 .. MaxNum /\ d.value \in 0 .. MaxNum
      BY WrittenShape
  <2> QED BY <2>1, <2>2, VersionAssumption
<1> HIDE DEF b
<1>2. c.value < d.value /\ (i = 1 \/ ~ZeroLed(d))
    BY PlainBelow
<1>3. LowerComponent(i, d, b) => d.value < b.value
    BY <1>1, <1>2, PlainBelow
<1>4. ~LowerComponent(i, d, b)
    BY <1>1, <1>2, <1>3
<1> QED BY <1>4 DEF b

LEMMA NothingAboveMax ==
    ASSUME NEW i \in Nat \ {0}, NEW c \in Component, c.value = MaxNum, NEW d \in Component,
           i = 1 \/ ~ZeroLed(c)
    PROVE  ~LowerComponent(i, c, d)
<1>1. d.value \in 0 .. MaxNum
    BY WrittenShape
<1>2. ~(c.value < d.value)
    BY <1>1, VersionAssumption
<1> QED BY <1>2, PlainBelow

(* y is v up to the component i, which is bumped.                          *)
BumpedAt(y, v, i) ==
    /\ IsVersion(y) /\ y.rev = 0 /\ y.letter = 0 /\ y.suffixes = <<>>
    /\ i \in 1 .. Len(v.nums) /\ Len(y.nums) = i
    /\ \A j \in 1 .. i - 1 : y.nums[j] = v.nums[j]
    /\ y.nums[i] = BumpedComponent(v.nums[i])
    /\ v.nums[i].value < MaxNum
    /\ \A j \in 1 .. Len(v.nums) : j > i => v.nums[j].value = MaxNum

LEMMA BumpedNumericIs ==
    ASSUME NEW v, IsVersion(v)
    PROVE  /\ \A u \in BumpedNumeric(v) :
                  \E y : \E i \in 1 .. Len(v.nums) : BumpedAt(y, v, i) /\ u = WithSuffix(y, Alpha)
           /\ BumpedNumeric(v) = {} => \A j \in 1 .. Len(v.nums) : v.nums[j].value = MaxNum
<1>1. /\ v.nums \in Seq(Component) /\ Len(v.nums) \in Nat /\ DOMAIN v.nums = 1 .. Len(v.nums)
      /\ \A j \in 1 .. Len(v.nums) : v.nums[j] \in Component
    BY VersionParts, KeysTypes
<1>2. ASSUME NEW u \in BumpedNumeric(v)
      PROVE  \E y : \E i \in 1 .. Len(v.nums) : BumpedAt(y, v, i) /\ u = WithSuffix(y, Alpha)
  <2> DEFINE Bumped(i) == [nums |-> Append(SubSeq(v.nums, 1, i - 1), BumpedComponent(v.nums[i])),
                           letter |-> 0, suffixes |-> <<>>, rev |-> 0]
  <2>1. PICK i \in 1 .. Len(v.nums) :
            /\ v.nums[i].value < MaxNum
            /\ \A j \in 1 .. Len(v.nums) : j > i => v.nums[j].value = MaxNum
            /\ u = WithSuffix(Bumped(i), Alpha)
      BY <1>1 DEF BumpedNumeric
  <2> DEFINE f == SubSeq(v.nums, 1, i - 1)
             e == BumpedComponent(v.nums[i])
             n == Append(f, e)
  <2>2. e \in Component
      BY <1>1, <2>1, BumpedShape
  <2>3. f \in Seq(Component) /\ Len(f) = i - 1 /\ \A j \in 1 .. i - 1 : f[j] = v.nums[j]
    <3>1. \A j \in 1 .. i - 1 : v.nums[j] \in Component
        BY <1>1
    <3> QED BY <1>1, <3>1, SubSeqProperties
  <2> HIDE DEF f, e
  <2>4. /\ n \in Seq(Component) /\ Len(n) = i /\ n[i] = e
        /\ \A j \in 1 .. i - 1 : n[j] = v.nums[j]
      BY <2>2, <2>3, AppendProperties
  <2> DEFINE y == [nums |-> n, letter |-> 0, suffixes |-> <<>>, rev |-> 0]
  <2>5. IsVersion(y)
    <3>1. n # <<>>
        BY <2>4
    <3>2. 0 \in 0 .. MaxLetter /\ 0 \in 0 .. MaxNum /\ <<>> \in Seq(Suffix)
        BY VersionAssumption
    <3> HIDE DEF n
    <3> QED BY <2>4, <3>1, <3>2, VersionMade
  <2>6. Bumped(i) = y
      BY DEF f, e
  <2>7. BumpedAt(y, v, i)
    <3> HIDE DEF n
    <3>1. /\ y.nums = n /\ y.letter = 0 /\ y.suffixes = <<>> /\ y.rev = 0
        OBVIOUS
    <3> HIDE DEF y
    <3> QED BY <2>1, <2>4, <2>5, <3>1 DEF BumpedAt, e
  <2> HIDE DEF y, Bumped
  <2> QED BY <2>1, <2>6, <2>7
<1>3. ASSUME BumpedNumeric(v) = {}, NEW k \in 1 .. Len(v.nums), v.nums[k].value # MaxNum PROVE FALSE
  <2> DEFINE n == Len(v.nums)
             T == {t \in 0 .. n : v.nums[n - t].value # MaxNum /\ t < n}
  <2>1. n - k \in T
    <3>1. n - k \in 0 .. n /\ n - k < n /\ n - (n - k) = k
        BY <1>1
    <3> QED BY <1>3, <3>1
  <2>2. PICK t \in T : \A s \in T : t <= s
    <3>1. T \subseteq Nat /\ T # {}
        BY <1>1, <2>1
    <3> HIDE DEF T
    <3> QED BY <3>1, LeastExists
  <2> DEFINE i == n - t
  <2>3. t \in 0 .. n /\ t < n /\ i \in 1 .. n /\ v.nums[i].value # MaxNum
      BY <1>1
  <2>4. ASSUME NEW j \in 1 .. n, j > i PROVE v.nums[j].value = MaxNum
    <3>1. n - j \in 0 .. n /\ n - j < n /\ n - (n - j) = j /\ ~(t <= n - j)
        BY <1>1, <2>3, <2>4
    <3> QED BY <2>2, <3>1
  <2>5. v.nums[i].value < MaxNum
    <3>1. v.nums[i].value \in 0 .. MaxNum
        BY <1>1, <2>3, WrittenShape
    <3> QED BY <2>3, <3>1, VersionAssumption
  <2> HIDE DEF i, T
  <2> DEFINE L == {j \in DOMAIN v.nums : /\ v.nums[j].value < MaxNum
                                         /\ \A l \in DOMAIN v.nums : l > j => v.nums[l].value = MaxNum}
             F(j) == WithSuffix([nums |-> Append(SubSeq(v.nums, 1, j - 1), BumpedComponent(v.nums[j])),
                                 letter |-> 0, suffixes |-> <<>>, rev |-> 0], Alpha)
  <2>6. BumpedNumeric(v) = {F(j) : j \in L}
      BY DEF BumpedNumeric
  <2>7. i \in L
      BY <1>1, <2>3, <2>4, <2>5
  <2> HIDE DEF F, L
  <2> QED BY <1>3, <2>6, <2>7
<1> QED BY <1>2, <1>3

LEMMA BumpedAtKeys ==
    ASSUME NEW v, IsVersion(v), NEW y, NEW i, BumpedAt(y, v, i)
    PROVE  /\ IsVersion(y) /\ i \in 1 .. Len(v.nums) /\ i \in Nat \ {0} /\ Len(y.nums) = i
           /\ v.nums[i] \in Component /\ BumpedComponent(v.nums[i]) \in Component
           /\ y.nums[i] = BumpedComponent(v.nums[i]) /\ v.nums[i].value < MaxNum
           /\ ComponentKeys(v)[i] = ComponentKey(i, v.nums[i])
           /\ ComponentKeys(y)[i] = ComponentKey(i, BumpedComponent(v.nums[i]))
           /\ \A j \in 1 .. i - 1 : /\ y.nums[j] = v.nums[j]
                                    /\ ComponentKeys(y)[j] = ComponentKeys(v)[j]
<1>1. /\ IsVersion(y) /\ i \in 1 .. Len(v.nums) /\ Len(y.nums) = i
      /\ \A j \in 1 .. i - 1 : y.nums[j] = v.nums[j]
      /\ y.nums[i] = BumpedComponent(v.nums[i]) /\ v.nums[i].value < MaxNum
    BY DEF BumpedAt
<1>2. /\ Len(v.nums) \in Nat
      /\ \A j \in 1 .. Len(v.nums) : /\ v.nums[j] \in Component
                                     /\ ComponentKeys(v)[j] = ComponentKey(j, v.nums[j])
    BY KeysTypes
<1>3. /\ i \in Nat \ {0} /\ i \in 1 .. i /\ \A j \in 1 .. i - 1 : j \in 1 .. Len(v.nums) /\ j \in 1 .. i
    BY <1>1, <1>2
<1>4. \A j \in 1 .. i : /\ y.nums[j] \in Component
                        /\ ComponentKeys(y)[j] = ComponentKey(j, y.nums[j])
    BY <1>1, KeysTypes
<1>5. \A j \in 1 .. i - 1 : ComponentKeys(y)[j] = ComponentKeys(v)[j]
    BY <1>1, <1>2, <1>3, <1>4
<1>6. v.nums[i] \in Component /\ ComponentKeys(v)[i] = ComponentKey(i, v.nums[i])
    BY <1>1, <1>2
<1>7. /\ BumpedComponent(v.nums[i]) \in Component
      /\ ComponentKeys(y)[i] = ComponentKey(i, BumpedComponent(v.nums[i]))
    BY <1>1, <1>3, <1>4
<1> QED BY <1>1, <1>3, <1>5, <1>6, <1>7

(* Every version with the pattern's components in front is under the       *)
(* bumped one.                                                             *)
LEMMA NumericAbove ==
    ASSUME NEW c, NEW v, IsVersion(c), IsVersion(v), Len(v.nums) <= Len(c.nums),
           \A j \in 1 .. Len(v.nums) : ComponentKeys(c)[j] = ComponentKeys(v)[j],
           NEW u \in BumpedNumeric(v)
    PROVE  Less(c, u)
<1>1. PICK y : \E i \in 1 .. Len(v.nums) : BumpedAt(y, v, i) /\ u = WithSuffix(y, Alpha)
    BY BumpedNumericIs
<1>2. PICK i \in 1 .. Len(v.nums) : BumpedAt(y, v, i) /\ u = WithSuffix(y, Alpha)
    BY <1>1
<1> DEFINE b == BumpedComponent(v.nums[i])
<1>3. /\ IsVersion(y) /\ i \in Nat \ {0} /\ Len(y.nums) = i
      /\ v.nums[i] \in Component /\ b \in Component
      /\ y.nums[i] = b /\ v.nums[i].value < MaxNum
      /\ ComponentKeys(v)[i] = ComponentKey(i, v.nums[i])
      /\ ComponentKeys(y)[i] = ComponentKey(i, b)
      /\ \A j \in 1 .. i - 1 : ComponentKeys(y)[j] = ComponentKeys(v)[j]
    BY <1>2, BumpedAtKeys
<1>4. IsVersion(u) /\ u.nums = y.nums /\ ComponentKeys(u) = ComponentKeys(y)
  <2>1. IsVersion(u) /\ SameBody(u, y)
      BY <1>2, <1>3, Suffixed DEF SuffixKinds
  <2> QED BY <2>1, SameBodyAlike DEF SameBody
<1>5. /\ i \in 1 .. Len(c.nums) /\ i \in 1 .. Len(u.nums)
      /\ \A j \in 1 .. i - 1 : j \in 1 .. Len(v.nums)
  <2>1. Len(v.nums) \in Nat /\ Len(c.nums) \in Nat
      BY KeysTypes
  <2> QED BY <1>2, <1>3, <1>4, <2>1
<1>6. c.nums[i] \in Component /\ ComponentKeys(c)[i] = ComponentKey(i, c.nums[i])
    BY <1>5, KeysTypes
<1>7. LowerComponent(i, v.nums[i], b)
    BY <1>3, BumpLower
<1> HIDE DEF b
<1>8. LowerComponent(i, c.nums[i], b)
  <2>1. ComponentKey(i, c.nums[i]) = ComponentKey(i, v.nums[i])
      BY <1>2, <1>3, <1>6
  <2> QED BY <1>3, <1>6, <1>7, <2>1, LowerByKey
<1>9. ComponentKeys(c)[i] # ComponentKeys(u)[i]
    BY <1>3, <1>4, <1>6, <1>8, LowerDiffers
<1>10. NumAt(c, u, i)
    BY <1>3, <1>4, <1>5, <1>9 DEF NumAt
<1> QED BY <1>3, <1>4, <1>8, <1>10, NumRule

(* Where the carry stops, the components are compared by value.            *)
LEMMA CarryPlain ==
    ASSUME NEW v, IsVersion(v), v.rev = 0, v.suffixes = <<>>, v.letter = 0,
           GlobBoundsExact(v), ~HiddenOverflow(v),
           NEW p \in 1 .. Len(v.nums),
           \A j \in 1 .. Len(v.nums) : j > p => v.nums[j].value = MaxNum
    PROVE  p = 1 \/ ~ZeroLed(v.nums[p])
<1> DEFINE m == Len(v.nums)
<1> SUFFICES ASSUME p # 1, ZeroLed(v.nums[p]) PROVE FALSE
    OBVIOUS
<1>1. /\ m \in Nat \ {0} /\ Len(ComponentKeys(v)) = m /\ Len(v.suffixes) = 0
      /\ \A j \in 1 .. m : /\ v.nums[j] \in Component
                           /\ ComponentKeys(v)[j] = ComponentKey(j, v.nums[j])
    BY KeysTypes
<1>2. CASE p < m
  <2>1. m \in 1 .. m /\ m > p /\ p \in 2 .. m - 1
      BY <1>1, <1>2
  <2>2. v.nums[m].value = MaxNum
      BY <2>1
  <2> QED BY <1>1, <2>1, <2>2 DEF HiddenOverflow
<1>3. CASE p = m
  <2>1. Last(Key(v).components) = ComponentKey(m, v.nums[m]) /\ v.nums[m] \in Component
      BY <1>1, <1>3, KeyIs DEF Last
  <2>2. ComponentKey(m, v.nums[m])[1] # ZERO_LED /\ m # 1
    <3>1. Len(v.nums) < 2 \/ Last(Key(v).components)[1] # ZERO_LED
        BY DEF GlobBoundsExact
    <3>2. m # 1 /\ ~(Len(v.nums) < 2)
      <4>1. m \in Nat \ {0}
          BY <1>1
      <4>2. m # 1
          BY <1>3
      <4> QED BY <4>1, <4>2
    <3> QED BY <2>1, <3>1, <3>2
  <2>3. ComponentKey(m, v.nums[m]) = <<ZERO_LED>> \o Enc(String(v.nums[m]))
      BY <1>1, <1>3, <2>1, <2>2, ComponentForm
  <2>4. Enc(String(v.nums[m])) \in Seq(Int)
    <3>1. String(v.nums[m]) \in Seq(Nat) /\ <<>> \in Seq(Int)
        BY <2>1, StringShape
    <3> QED BY <3>1, EncShape
  <2>5. ComponentKey(m, v.nums[m])[1] = ZERO_LED
    <3> DEFINE e == Enc(String(v.nums[m]))
    <3> HIDE DEF e
    <3>1. e \in Seq(Int)
        BY <2>4 DEF e
    <3>2. (<<ZERO_LED>> \o e)[1] = ZERO_LED
        BY <3>1
    <3> QED BY <2>3, <3>2 DEF e
  <2> QED BY <2>2, <2>5
<1> QED BY <1>1, <1>2, <1>3

LEMMA NumericGap ==
    ASSUME NEW c, NEW v, IsVersion(c), IsVersion(v), v.rev = 0, v.suffixes = <<>>, v.letter = 0,
           GlobBoundsExact(v), ~HiddenOverflow(v), ~Less(c, v), ~GlobMatches(Key(c), v),
           \A u \in BumpedNumeric(v) : Less(c, u)
    PROVE  \E u \in BumpedNumeric(v) : Under(c, u)
<1>1. /\ Len(v.nums) \in Nat /\ Len(c.nums) \in Nat
      /\ Len(ComponentKeys(v)) = Len(v.nums) /\ Len(ComponentKeys(c)) = Len(c.nums)
    BY KeysTypes
<1>2. PICK p \in 1 .. Len(c.nums) : NumAt(c, v, p)
  <2>1. ~NumsShort(c, v)
      BY NumsRule
  <2>2. ~NumsShort(v, c)
    <3> SUFFICES ASSUME NumsShort(v, c) PROVE FALSE
        OBVIOUS
    <3>1. /\ Len(v.nums) <= Len(c.nums)
          /\ \A j \in 1 .. Len(v.nums) : ComponentKeys(c)[j] = ComponentKeys(v)[j]
        BY <1>1 DEF NumsShort
    <3> QED BY <3>1, MatchOpen
  <2>3. ~SameNums(c, v)
    <3> SUFFICES ASSUME ComponentKeys(c) = ComponentKeys(v) PROVE FALSE
        BY DEF SameNums
    <3>1. Len(v.nums) <= Len(c.nums)
        BY <1>1
    <3> QED BY <3>1, MatchOpen
  <2> QED BY <2>1, <2>2, <2>3, NumsCases
<1>3. /\ p \in 1 .. Len(v.nums) /\ p \in Nat \ {0}
      /\ \A j \in 1 .. p - 1 : ComponentKeys(c)[j] = ComponentKeys(v)[j]
      /\ ComponentKeys(c)[p] # ComponentKeys(v)[p]
    BY <1>1, <1>2 DEF NumAt
<1>4. v.nums[p] \in Component /\ c.nums[p] \in Component
    BY <1>2, <1>3, KeysTypes
<1>5. LowerComponent(p, v.nums[p], c.nums[p]) /\ ~LowerComponent(p, c.nums[p], v.nums[p])
    BY <1>2, NumRule
<1>6. ~\A j \in 1 .. Len(v.nums) : j >= p => v.nums[j].value = MaxNum
  <2> SUFFICES ASSUME \A j \in 1 .. Len(v.nums) : j >= p => v.nums[j].value = MaxNum
               PROVE  FALSE
      OBVIOUS
  <2>1. /\ v.nums[p].value = MaxNum
        /\ \A j \in 1 .. Len(v.nums) : j > p => v.nums[j].value = MaxNum
      BY <1>3
  <2>2. p = 1 \/ ~ZeroLed(v.nums[p])
      BY <1>3, <2>1, CarryPlain
  <2> QED BY <1>3, <1>4, <1>5, <2>1, <2>2, NothingAboveMax
<1>7. PICK u : u \in BumpedNumeric(v)
    BY <1>6, BumpedNumericIs
<1>8. PICK y : \E i \in 1 .. Len(v.nums) : BumpedAt(y, v, i) /\ u = WithSuffix(y, Alpha)
    BY <1>7, BumpedNumericIs
<1>9. PICK i \in 1 .. Len(v.nums) : BumpedAt(y, v, i) /\ u = WithSuffix(y, Alpha)
    BY <1>8
<1> SUFFICES ASSUME ~Under(c, u) PROVE FALSE
    BY <1>7
<1> DEFINE b == BumpedComponent(v.nums[i])
<1>10. /\ IsVersion(y) /\ i \in Nat \ {0} /\ Len(y.nums) = i
       /\ v.nums[i] \in Component /\ b \in Component
       /\ y.nums[i] = b /\ v.nums[i].value < MaxNum
       /\ ComponentKeys(y)[i] = ComponentKey(i, b)
       /\ \A j \in 1 .. i - 1 : /\ y.nums[j] = v.nums[j]
                                /\ ComponentKeys(y)[j] = ComponentKeys(v)[j]
    BY <1>9, BumpedAtKeys
<1>11. /\ y.rev = 0 /\ y.letter = 0 /\ y.suffixes = <<>>
       /\ \A j \in 1 .. Len(v.nums) : j > i => v.nums[j].value = MaxNum
    BY <1>9 DEF BumpedAt
<1>12. Less(c, y) /\ ~Beneath(c, y)
    BY <1>7, <1>9, <1>10, <1>11, UpperSide
<1>13. ~(p > i)
    BY <1>1, <1>3, <1>6, <1>10, <1>11
<1>14. ~(p < i)
  <2> SUFFICES ASSUME p < i PROVE FALSE
      OBVIOUS
  <2>1. p \in 1 .. i - 1 /\ p \in 1 .. Len(y.nums) /\ \A j \in 1 .. p - 1 : j \in 1 .. i - 1
      BY <1>3, <1>10
  <2>2. NumAt(c, y, p)
      BY <1>2, <1>3, <1>10, <2>1 DEF NumAt
  <2>3. LowerComponent(p, c.nums[p], v.nums[p])
      BY <1>10, <1>12, <2>1, <2>2, NumRule
  <2> QED BY <1>5, <2>3
<1>15. p = i
    BY <1>3, <1>10, <1>13, <1>14
<1>16. i = 1 \/ ~ZeroLed(v.nums[i])
    BY <1>9, <1>11, CarryPlain
<1>17. ~LowerComponent(i, c.nums[i], b)
    BY <1>4, <1>5, <1>10, <1>15, <1>16, NothingBetween
<1> HIDE DEF b
<1>18. ComponentKeys(c)[i] = ComponentKeys(y)[i]
  <2> SUFFICES ASSUME ComponentKeys(c)[i] # ComponentKeys(y)[i] PROVE FALSE
      OBVIOUS
  <2>1. NumAt(c, y, i)
      BY <1>2, <1>3, <1>10, <1>15 DEF NumAt
  <2> QED BY <1>10, <1>12, <1>17, <2>1, NumRule
<1>19. \A j \in 1 .. i : ComponentKeys(c)[j] = ComponentKeys(y)[j]
    BY <1>3, <1>10, <1>15, <1>18
<1>20. Len(c.nums) = i
  <2> SUFFICES ASSUME Len(c.nums) # i PROVE FALSE
      OBVIOUS
  <2>1. NumsShort(y, c)
      BY <1>1, <1>2, <1>10, <1>15, <1>19 DEF NumsShort
  <2> QED BY <1>10, <1>12, <2>1, NumsRule
<1>21. SameNums(c, y)
  <2>1. /\ ComponentKeys(c) \in Seq(Seq(Int)) /\ ComponentKeys(y) \in Seq(Seq(Int))
        /\ Len(ComponentKeys(c)) = i /\ Len(ComponentKeys(y)) = i
      BY <1>10, <1>20, KeysTypes
  <2> QED BY <1>19, <2>1, SeqEqual DEF SameNums
<1>22. c.letter # 0
    BY <1>10, <1>11, <1>12, <1>21, NoSuffix DEF Alike
<1>23. c.letter < 0
    BY <1>10, <1>11, <1>12, <1>21, <1>22, LetterRule
<1> QED BY <1>23, VersionParts, VersionAssumption

(* For the revision, and for a pattern that ends in a suffix without a     *)
(* number.                                                                 *)

LEMMA NextRevision ==
    ASSUME NEW v, IsVersion(v), v.rev < MaxNum, NEW u, u = [v EXCEPT !.rev = @ + 1]
    PROVE  /\ IsVersion(u) /\ SameBody(u, v) /\ SameBody(v, u) /\ u.rev = v.rev + 1
           /\ u.suffixes = v.suffixes /\ SuffixKeys(u) = SuffixKeys(v)
<1>1. /\ v.nums \in Seq(Component) /\ v.nums # <<>> /\ v.letter \in 0 .. MaxLetter
      /\ v.suffixes \in Seq(Suffix) /\ v.rev + 1 \in 0 .. MaxNum
    BY VersionParts, VersionAssumption
<1>2. u = [nums |-> v.nums, letter |-> v.letter, suffixes |-> v.suffixes, rev |-> v.rev + 1]
    BY DEF IsVersion
<1>3. IsVersion(u)
  <2>1. IsVersion([nums |-> v.nums, letter |-> v.letter, suffixes |-> v.suffixes, rev |-> v.rev + 1])
      BY <1>1, VersionMade
  <2> QED BY <1>2, <2>1
<1> QED BY <1>2, <1>3 DEF SameBody, SuffixKeys

(* Versions the same but for the revision are on the same side of any      *)
(* other that differs elsewhere.                                           *)
LEMMA FarRevision ==
    ASSUME NEW c, NEW x, NEW y, IsVersion(c), IsVersion(x), IsVersion(y),
           SameBody(x, y), x.suffixes = y.suffixes, ~(Alike(c, x) /\ SameSuffixes(c, x))
    PROVE  Less(c, x) <=> Less(c, y)
<1> DEFINE k == Len(x.suffixes)
<1>1. k \in Nat /\ FirstSuffixes(x, y, k)
    BY KeysTypes DEF FirstSuffixes
<1>2. CASE ~Reaches(c, x, k)
    BY <1>1, <1>2, Far
<1>3. CASE Reaches(c, x, k)
  <2>1. /\ Alike(c, x) /\ k <= Len(c.suffixes)
        /\ \A j \in 1 .. k : SuffixKeys(c)[j] = SuffixKeys(x)[j]
      BY <1>3 DEF Reaches
  <2>2. Alike(c, y) /\ Alike(x, c) /\ Alike(y, c)
    <3>1. Alike(c, y)
        BY <2>1, SameBodyAlike
    <3> QED BY <2>1, <3>1 DEF Alike, SameNums
  <2>3. /\ Len(SuffixKeys(c)) = Len(c.suffixes) /\ Len(SuffixKeys(x)) = k
        /\ SuffixKeys(c) \in Seq(Seq(Int)) /\ SuffixKeys(x) \in Seq(Seq(Int))
        /\ Len(c.suffixes) \in Nat
      BY KeysTypes
  <2>4. Len(c.suffixes) # k
    <3> SUFFICES ASSUME Len(c.suffixes) = k PROVE FALSE
        OBVIOUS
    <3>1. SameSuffixes(c, x)
        BY <2>1, <2>3, SeqEqual DEF SameSuffixes
    <3> QED BY <2>1, <3>1
  <2>5. SuffixesShort(x, c)
      BY <1>1, <2>1, <2>3, <2>4 DEF SuffixesShort
  <2>6. SuffixesShort(y, c)
      BY <2>5 DEF SuffixesShort, SuffixKeys
  <2> QED BY <2>1, <2>2, <2>5, <2>6, SuffixesRule
<1> QED BY <1>2, <1>3

(* The pattern with a revision.                                            *)
LEMMA RevisionBounds ==
    ASSUME NEW c, NEW v, IsVersion(c), IsVersion(v), v.rev # 0, v.rev < MaxNum,
           NEW u \in GlobUpper(v)
    PROVE  /\ GlobMatches(Key(c), v) => Less(c, u)
           /\ ~Less(c, v) /\ Less(c, u) => GlobMatches(Key(c), v)
<1>1. u = [v EXCEPT !.rev = @ + 1]
    BY DEF GlobUpper
<1>2. /\ IsVersion(u) /\ SameBody(u, v) /\ SameBody(v, u) /\ u.rev = v.rev + 1
      /\ u.suffixes = v.suffixes /\ SuffixKeys(u) = SuffixKeys(v)
    BY <1>1, NextRevision
<1>3. /\ GlobMatches(Key(c), v) <=> Alike(c, v) /\ SameSuffixes(c, v) /\ c.rev = v.rev
      /\ c.rev \in Int /\ v.rev \in Int
    BY MatchRevised, KeysTypes
<1>4. CASE Alike(c, v) /\ SameSuffixes(c, v)
  <2>1. Alike(c, u) /\ SameSuffixes(c, u)
      BY <1>2, <1>4, SameBodyAlike DEF SameSuffixes
  <2>2. (Less(c, u) <=> c.rev < u.rev) /\ (Less(c, v) <=> c.rev < v.rev)
      BY <1>2, <1>4, <2>1, RevRule
  <2> QED BY <1>2, <1>3, <1>4, <2>2
<1>5. CASE ~(Alike(c, v) /\ SameSuffixes(c, v))
    BY <1>2, <1>3, <1>5, FarRevision
<1> QED BY <1>4, <1>5

LEMMA OpenKinds ==
    ASSUME NEW v, IsVersion(v), v.rev = 0, LastSuffixUnnumbered(v)
    PROVE  \/ v.suffixes[Len(v.suffixes)].kind < Rc
           \/ v.suffixes[Len(v.suffixes)].kind = Rc
           \/ v.suffixes[Len(v.suffixes)].kind = P
<1>1. Len(v.suffixes) \in 1 .. Len(v.suffixes)
    BY MatchKind
<1>2. v.suffixes[Len(v.suffixes)] \in Suffix
    BY <1>1, KeysTypes
<1> QED BY <1>2, SuffixInts DEF Rc, P

(* The bound of a pattern that ends in _p is that of what is before it.    *)
LEMMA PastPUpper ==
    ASSUME NEW v, IsVersion(v), v.rev = 0, LastSuffixUnnumbered(v),
           v.suffixes[Len(v.suffixes)].kind = P,
           NEW z, z = [Released(v) EXCEPT !.suffixes = Front(@)]
    PROVE  /\ IsVersion(z) /\ z.rev = 0 /\ z.nums = v.nums
           /\ z.suffixes # <<>> => GlobUpper(v) = OrElse(BumpedSuffix(z), BumpedNumeric(z))
           /\ z.suffixes = <<>> => GlobUpper(v) = {NextLetter(z)}
           /\ z.suffixes # <<>> /\ ~HiddenOverflow(v) => BumpedSuffix(z) # {}
<1> DEFINE m == Len(v.suffixes)
<1>1. v.suffixes # <<>> /\ Last(v.suffixes).kind = P
    BY DEF LastSuffixUnnumbered, Last
<1>2. /\ IsVersion(z) /\ SameBody(v, z) /\ z.rev = 0 /\ m \in Nat \ {0}
      /\ Len(z.suffixes) = m - 1 /\ FirstSuffixes(v, z, m - 1)
    BY <1>1, Fronted
<1>3. GlobUpper(v) = BumpedPastUnnumberedSuffix(v)
    BY DEF GlobUpper
<1>4. ~(P < Rc) /\ P # Rc
    BY DEF P, Rc
<1>5. z.suffixes # <<>> => GlobUpper(v) = OrElse(BumpedSuffix(z), BumpedNumeric(z))
    BY <1>1, <1>3, <1>4 DEF BumpedPastUnnumberedSuffix
<1>6. z.suffixes = <<>> => GlobUpper(v) = {NextLetter(z)}
    BY <1>1, <1>3, <1>4 DEF BumpedPastUnnumberedSuffix, NextLetter
<1>7. ASSUME z.suffixes # <<>>, ~HiddenOverflow(v) PROVE BumpedSuffix(z) # {}
  <2>0. m > 1 /\ m - 1 \in 1 .. m - 1
    <3>1. m \in Nat /\ m - 1 \in Nat \ {0}
        BY <1>2, <1>7, BumpedSuffixIs
    <3>2. \A n \in Nat : n - 1 \in Nat \ {0} => n > 1 /\ n - 1 \in 1 .. n - 1
        OBVIOUS
    <3> QED BY <3>1, <3>2
  <2>1. m - 1 \in Nat \ {0} /\ z.suffixes[m - 1] \in Suffix
      BY <1>2, <1>7, BumpedSuffixIs
  <2>2. z.suffixes[m - 1] = v.suffixes[m - 1]
    <3>1. m - 1 \in 1 .. m - 1
        BY <2>0
    <3> QED BY <3>1, <1>2 DEF FirstSuffixes
  <2>3. v.suffixes[m] = [kind |-> P, num |-> Unnumbered]
    <3>1. m \in 1 .. Len(v.suffixes)
        BY <1>2
    <3>2. v.suffixes[m] \in Suffix /\ v.suffixes[m].num = Unnumbered
        BY <3>1, KeysTypes, MatchKind
    <3> QED BY <3>2 DEF Suffix
  <2>4. v.suffixes[m - 1].num # MaxNum
    <3>1. m > 1
        BY <2>0
    <3>2. HiddenOverflow(v) \/ v.suffixes[m - 1].num # MaxNum
        BY <2>3, <3>1 DEF HiddenOverflow
    <3> QED BY <1>7, <3>2
  <2>5. Number(z.suffixes[m - 1]) # MaxNum
      BY <2>2, <2>4, VersionAssumption DEF Number
  <2>6. BumpedSuffix(z) # {}
      BY <1>2, <1>7, <2>5, BumpedSuffixIs
  <2> QED BY <2>6
<1> QED BY <1>2, <1>5, <1>6, <1>7 DEF SameBody

-----------------------------------------------------------------------------
(* The bounds put together.                                                *)

(* A pattern's last suffix, when it has one that is numbered.              *)
LEMMA NumberedLast ==
    ASSUME NEW v, IsVersion(v), v.suffixes # <<>>, ~LastSuffixUnnumbered(v)
    PROVE  /\ Number(v.suffixes[Len(v.suffixes)]) = Last(v.suffixes).num
           /\ Last(v.suffixes).num # MaxNum => BumpedSuffix(v) # {}
<1>1. Last(v.suffixes).num # Unnumbered
    BY DEF LastSuffixUnnumbered
<1>2. Number(v.suffixes[Len(v.suffixes)]) = Last(v.suffixes).num
    BY <1>1 DEF Last, Number
<1>3. Number(v.suffixes[Len(v.suffixes)]) # MaxNum => BumpedSuffix(v) # {}
    BY BumpedSuffixIs
<1> QED BY <1>2, <1>3

(* The two ways a suffix and what is before it are bumped.                 *)
LEMMA BumpedAbove ==
    ASSUME NEW c, NEW v, IsVersion(c), IsVersion(v), v.suffixes # <<>>, Beneath(c, v),
           v.rev = 0, NEW u \in OrElse(BumpedSuffix(v), BumpedNumeric(v))
    PROVE  Less(c, u)
<1>1. GlobMatches(Key(c), v)
    BY BeneathMatches
<1>2. CASE u \in BumpedSuffix(v)
    BY <1>2, BumpedSuffixAbove
<1>3. CASE u \in BumpedNumeric(v)
    BY <1>1, <1>3, MatchFront, NumericAbove
<1> QED BY <1>2, <1>3 DEF OrElse

(* A match is below the upper bound.                                       *)
LEMMA GlobAbove ==
    ASSUME NEW c, NEW v, IsVersion(c), IsVersion(v), GlobMatches(Key(c), v),
           NEW u \in GlobUpper(v)
    PROVE  Less(c, u)
<1> DEFINE m == Len(v.suffixes)
           kind == v.suffixes[m].kind
           z == [Released(v) EXCEPT !.suffixes = Front(@)]
<1>1. /\ Len(v.nums) <= Len(c.nums)
      /\ \A j \in 1 .. Len(v.nums) : ComponentKeys(c)[j] = ComponentKeys(v)[j]
    BY MatchFront
<1>2. \A w \in BumpedNumeric(v) : Less(c, w)
    BY <1>1, NumericAbove
<1>3. CASE v.rev # 0 /\ v.rev < MaxNum
    BY <1>3, RevisionBounds
<1>4. CASE v.rev # 0 /\ ~(v.rev < MaxNum)
    BY <1>2, <1>4 DEF GlobUpper
<1>5. CASE v.rev = 0 /\ LastSuffixUnnumbered(v)
  <2>1. kind < Rc \/ kind = Rc \/ kind = P
      BY <1>5, OpenKinds
  <2>2. CASE kind < Rc
      BY <1>5, <2>2, KindAbove
  <2>3. CASE kind = Rc
      BY <1>5, <2>3, RcBounds
  <2>4. CASE kind = P
    <3> HIDE DEF z
    <3>0. z = [Released(v) EXCEPT !.suffixes = Front(@)]
        BY DEF z
    <3>1. Beneath(c, z)
        BY <1>5, <2>4, <3>0, PastP
    <3>2. /\ IsVersion(z) /\ z.rev = 0
          /\ z.suffixes # <<>> => GlobUpper(v) = OrElse(BumpedSuffix(z), BumpedNumeric(z))
          /\ z.suffixes = <<>> => GlobUpper(v) = {NextLetter(z)}
        BY <1>5, <2>4, <3>0, PastPUpper
    <3>3. CASE z.suffixes # <<>>
        BY <3>1, <3>2, <3>3, BumpedAbove
    <3>4. CASE z.suffixes = <<>>
        BY <3>1, <3>2, <3>4, NextLetterBounds
    <3> QED BY <3>3, <3>4
  <2> QED BY <2>1, <2>2, <2>3, <2>4
<1>6. CASE v.rev = 0 /\ ~LastSuffixUnnumbered(v) /\ v.suffixes # <<>>
  <2>1. Beneath(c, v)
      BY <1>6, MatchBeneath
  <2>2. u \in OrElse(BumpedSuffix(v), BumpedNumeric(v))
      BY <1>6 DEF GlobUpper
  <2> QED BY <1>6, <2>1, <2>2, BumpedAbove
<1>7. CASE v.rev = 0 /\ v.suffixes = <<>> /\ v.letter # 0
  <2>0. ~LastSuffixUnnumbered(v)
      BY <1>7 DEF LastSuffixUnnumbered
  <2>1. Beneath(c, v)
      BY <1>7, <2>0, MatchBeneath
  <2>2. u = NextLetter(v)
      BY <1>7, <2>0 DEF GlobUpper, NextLetter
  <2> QED BY <1>7, <2>1, <2>2, NextLetterBounds
<1>8. CASE v.rev = 0 /\ v.suffixes = <<>> /\ v.letter = 0
  <2>0. ~LastSuffixUnnumbered(v)
      BY <1>8 DEF LastSuffixUnnumbered
  <2>1. u \in BumpedNumeric(v)
      BY <1>8, <2>0 DEF GlobUpper
  <2> QED BY <1>2, <2>1
<1> QED BY <1>3, <1>4, <1>5, <1>6, <1>7, <1>8

(* What is between exact bounds without matching is under the upper one.   *)
LEMMA GlobGap ==
    ASSUME NEW c, NEW v, IsVersion(c), IsVersion(v), ~GlobMatches(Key(c), v),
           ~Less(c, GlobLower(v)), \A u \in GlobUpper(v) : Less(c, u),
           GlobBoundsExact(v), ~HiddenOverflow(v)
    PROVE  \E u \in GlobUpper(v) : Under(c, u)
<1> DEFINE m == Len(v.suffixes)
           kind == v.suffixes[m].kind
           z == [Released(v) EXCEPT !.suffixes = Front(@)]
<1>1. CASE v.rev # 0
  <2>1. v.rev < MaxNum
    <3>1. v.rev # MaxNum
        BY <1>1 DEF GlobBoundsExact
    <3> QED BY <3>1, VersionParts, VersionAssumption
  <2>2. \E u : u \in GlobUpper(v)
      BY <1>1, <2>1 DEF GlobUpper
  <2>3. GlobLower(v) = v
      BY <1>1 DEF GlobLower
  <2> QED BY <1>1, <2>1, <2>2, <2>3, RevisionBounds
<1>2. ASSUME v.rev = 0 PROVE ~Less(c, v) /\ ~Beneath(c, v)
    BY <1>2, LowerSide
<1>3. CASE v.rev = 0 /\ LastSuffixUnnumbered(v)
  <2>1. kind < Rc \/ kind = Rc \/ kind = P
      BY <1>3, OpenKinds
  <2>2. CASE kind < Rc
    <3>1. \E u : u \in GlobUpper(v)
        BY <1>3, <2>2, KindUpper
    <3> QED BY <1>2, <1>3, <2>2, <3>1, KindGap
  <2>3. CASE kind = Rc
    <3>1. GlobUpper(v) = {z}
      <4>1. GlobUpper(v) = BumpedPastUnnumberedSuffix(v)
          BY <1>3 DEF GlobUpper
      <4>2. Last(v.suffixes).kind = Rc
          BY <2>3 DEF Last
      <4>3. ~(Rc < Rc) /\ Rc # P
          BY DEF Rc, P
      <4> QED BY <4>1, <4>2, <4>3 DEF BumpedPastUnnumberedSuffix
    <3>2. Less(c, z) /\ z \in GlobUpper(v)
        BY <3>1
    <3> QED BY <1>2, <1>3, <2>3, <3>2, RcBounds
  <2>4. CASE kind = P
    <3> HIDE DEF z
    <3>0. z = [Released(v) EXCEPT !.suffixes = Front(@)]
        BY DEF z
    <3>1. ~Less(c, z) /\ ~Beneath(c, z)
        BY <1>2, <1>3, <2>4, <3>0, PastP
    <3>2. /\ IsVersion(z) /\ z.rev = 0
          /\ z.suffixes # <<>> => GlobUpper(v) = OrElse(BumpedSuffix(z), BumpedNumeric(z))
          /\ z.suffixes = <<>> => GlobUpper(v) = {NextLetter(z)}
          /\ z.suffixes # <<>> => BumpedSuffix(z) # {}
        BY <1>3, <2>4, <3>0, PastPUpper
    <3>3. CASE z.suffixes # <<>>
      <4>1. GlobUpper(v) = BumpedSuffix(z) /\ \E u : u \in BumpedSuffix(z)
          BY <3>2, <3>3 DEF OrElse
      <4> QED BY <3>1, <3>2, <3>3, <4>1, BumpedSuffixGap
    <3>4. CASE z.suffixes = <<>>
        BY <3>1, <3>2, <3>4, NextLetterBounds
    <3> QED BY <3>3, <3>4
  <2> QED BY <2>1, <2>2, <2>3, <2>4
<1>4. CASE v.rev = 0 /\ ~LastSuffixUnnumbered(v) /\ v.suffixes # <<>>
  <2>1. Last(v.suffixes).num # MaxNum
      BY <1>4 DEF GlobBoundsExact
  <2>2. BumpedSuffix(v) # {}
      BY <1>4, <2>1, NumberedLast
  <2>3. GlobUpper(v) = BumpedSuffix(v)
      BY <1>4, <2>2 DEF GlobUpper, OrElse
  <2> QED BY <1>2, <1>4, <2>2, <2>3, BumpedSuffixGap
<1>5. CASE v.rev = 0 /\ v.suffixes = <<>> /\ v.letter # 0
  <2>1. GlobUpper(v) = {NextLetter(v)}
      BY <1>5 DEF GlobUpper, NextLetter, LastSuffixUnnumbered
  <2> QED BY <1>2, <1>5, <2>1, NextLetterBounds
<1>6. CASE v.rev = 0 /\ v.suffixes = <<>> /\ v.letter = 0
  <2>1. GlobUpper(v) = BumpedNumeric(v)
      BY <1>6 DEF GlobUpper, LastSuffixUnnumbered
  <2> QED BY <1>2, <1>6, <2>1, NumericGap
<1> QED BY <1>1, <1>3, <1>4, <1>5, <1>6

(* Two versions differ in their revision alone when all before it in the   *)
(* keys is the same.                                                       *)
LEMMA TildeIs ==
    ASSUME NEW c, NEW v, IsVersion(c), IsVersion(v)
    PROVE  MatchesOperator(c, "~", v) <=> Alike(c, v) /\ SameSuffixes(c, v)
<1> DEFINE x == Released(c)
           y == Released(v)
<1>1. /\ IsVersion(x) /\ SameBody(x, c) /\ x.rev = 0 /\ SuffixKeys(x) = SuffixKeys(c)
      /\ IsVersion(y) /\ SameBody(y, v) /\ y.rev = 0 /\ SuffixKeys(y) = SuffixKeys(v)
    BY WithoutRevision
<1>2. ComponentKeys(x) = ComponentKeys(c) /\ ComponentKeys(y) = ComponentKeys(v)
    BY <1>1, SameBodyAlike
<1>3. /\ BeforeRevision(Key(x)) = BeforeRevision(Key(c))
      /\ BeforeRevision(Key(y)) = BeforeRevision(Key(v))
  <2>1. /\ Key(x).components = Key(c).components /\ Key(x).letter = Key(c).letter
        /\ Key(x).suffixes = Key(c).suffixes
        /\ Key(y).components = Key(v).components /\ Key(y).letter = Key(v).letter
        /\ Key(y).suffixes = Key(v).suffixes
      BY <1>1, <1>2, KeyIs DEF SameBody
  <2> QED BY <2>1 DEF BeforeRevision
<1>4. MatchesOperator(c, "~", v) <=> BeforeRevision(Key(x)) = BeforeRevision(Key(y))
    BY <1>3 DEF MatchesOperator
<1>5. ASSUME Alike(c, v), SameSuffixes(c, v)
      PROVE  BeforeRevision(Key(x)) = BeforeRevision(Key(y))
  <2>1. /\ Key(x).components = Key(y).components /\ Key(x).letter = Key(y).letter
        /\ Key(x).suffixes = Key(y).suffixes
      BY <1>1, <1>2, <1>5, KeyIs DEF SameBody, Alike, SameNums, SameSuffixes
  <2> QED BY <2>1 DEF BeforeRevision
<1>6. ASSUME BeforeRevision(Key(x)) = BeforeRevision(Key(y))
      PROVE  Alike(c, v) /\ SameSuffixes(c, v)
  <2>1. Bytes(Key(x)) = Bytes(Key(y))
      BY <1>1, <1>6, KeyIs DEF Bytes
  <2>2. Key(x) = Key(y)
      BY <1>1, <2>1, VersionsTotallyOrdered
  <2> QED BY <1>1, <1>2, <2>2, KeyIs DEF SameBody, Alike, SameNums, SameSuffixes
<1> QED BY <1>4, <1>5, <1>6

(* Past ~V comes only what has more after V_p.                             *)
LEMMA TildeRange ==
    ASSUME NEW c, NEW v, IsVersion(c), IsVersion(v)
    PROVE  /\ MatchesOperator(c, "~", v) => FromOperator("~", v, c)
           /\ FromOperator("~", v, c) /\ ~MatchesOperator(c, "~", v) =>
                Under(c, ApproximateUpper(v))
<1> DEFINE x == Released(v)
           u == ApproximateUpper(v)
           k == Len(x.suffixes)
<1>1. /\ IsVersion(x) /\ SameBody(x, v) /\ x.rev = 0 /\ SuffixKeys(x) = SuffixKeys(v)
      /\ SameBody(v, x)
    BY WithoutRevision
<1>2. P \in SuffixKinds /\ u = WithSuffix(x, P)
    BY DEF SuffixKinds, ApproximateUpper
<1> HIDE DEF x, u
<1>3. /\ IsVersion(u) /\ SameBody(x, u) /\ SameBody(u, x)
      /\ FirstSuffixes(x, u, k) /\ FirstSuffixes(u, x, k) /\ Len(u.suffixes) = k + 1
      /\ u.suffixes[k + 1] = [kind |-> P, num |-> Unnumbered] /\ u.rev = 0
    BY <1>1, <1>2, Suffixed
<1>4. k \in Nat /\ Len(c.suffixes) \in Nat /\ c.rev \in Nat
    BY <1>1, KeysTypes, VersionParts, VersionAssumption
<1>5. FromOperator("~", v, c) <=> ~Less(c, x) /\ Less(c, u)
    BY DEF FromOperator, x, u
<1>6. MatchesOperator(c, "~", v) <=> Alike(c, x) /\ SameSuffixes(c, x)
    BY <1>1, TildeIs, SameBodyAlike DEF SameSuffixes
<1>7. /\ Len(SuffixKeys(c)) = Len(c.suffixes) /\ Len(SuffixKeys(x)) = k
      /\ Len(SuffixKeys(u)) = k + 1
      /\ SuffixKeys(c) \in Seq(Seq(Int)) /\ SuffixKeys(x) \in Seq(Seq(Int))
      /\ SuffixKeys(u) \in Seq(Seq(Int))
    BY <1>1, <1>3, KeysTypes
<1>8. \A j \in 1 .. k : SuffixKeys(x)[j] = SuffixKeys(u)[j]
    BY <1>3, <1>4 DEF FirstSuffixes, SuffixKeys
<1>9. Alike(c, x) <=> Alike(c, u)
    BY <1>3, SameBodyAlike
<1>10. ASSUME Alike(c, x), SameSuffixes(c, x) PROVE ~Less(c, x) /\ Less(c, u)
  <2>1. ~Less(c, x)
      BY <1>1, <1>4, <1>10, RevRule
  <2>2. SuffixesShort(c, u)
      BY <1>3, <1>4, <1>7, <1>8, <1>10 DEF SuffixesShort, SameSuffixes
  <2>3. Len(c.suffixes) = k
      BY <1>7, <1>10 DEF SameSuffixes
  <2>4. Less(c, u)
      BY <1>3, <1>9, <1>10, <2>2, <2>3, SuffixesRule
  <2> QED BY <2>1, <2>4
<1>11. ASSUME ~Less(c, x), Less(c, u), ~(Alike(c, x) /\ SameSuffixes(c, x))
       PROVE  Under(c, u)
  <2>1. Reaches(c, x, k)
      BY <1>1, <1>3, <1>11, Far
  <2>2. /\ Alike(c, x) /\ Alike(c, u) /\ k <= Len(c.suffixes)
        /\ \A j \in 1 .. k : SuffixKeys(c)[j] = SuffixKeys(x)[j]
      BY <1>9, <2>1 DEF Reaches
  <2>3. Len(c.suffixes) # k
    <3> SUFFICES ASSUME Len(c.suffixes) = k PROVE FALSE
        OBVIOUS
    <3>1. SameSuffixes(c, x)
        BY <1>7, <2>2, SeqEqual DEF SameSuffixes
    <3> QED BY <1>11, <2>2, <3>1
  <2>4. k + 1 <= Len(c.suffixes) /\ k + 1 \in 1 .. Len(c.suffixes)
      BY <1>4, <2>2, <2>3
  <2>5. c.suffixes[k + 1].kind = P
    <3>1. SuffixesShort(x, c)
        BY <1>4, <2>2, <2>4 DEF SuffixesShort
    <3>2. Alike(x, c)
        BY <2>2 DEF Alike, SameNums
    <3> QED BY <1>1, <1>11, <3>1, <3>2, SuffixesRule
  <2>6. \A j \in 1 .. k : SuffixKeys(c)[j] = SuffixKeys(u)[j]
      BY <1>8, <2>2
  <2>7. c.suffixes[k + 1] \in Suffix
      BY <2>4, KeysTypes
  <2>8. Number(u.suffixes[k + 1]) = 0 /\ u.suffixes[k + 1].kind = P
      BY <1>3 DEF Number
  <2>9. SuffixKeys(c)[k + 1] = SuffixKeys(u)[k + 1]
    <3> SUFFICES ASSUME SuffixKeys(c)[k + 1] # SuffixKeys(u)[k + 1] PROVE FALSE
        OBVIOUS
    <3>1. k + 1 \in 1 .. Len(u.suffixes) /\ \A j \in 1 .. (k + 1) - 1 : j \in 1 .. k
        BY <1>3, <1>4
    <3>2. SuffixAt(c, u, k + 1)
        BY <2>4, <2>6, <3>1 DEF SuffixAt
    <3>3. LowerSuffix(c.suffixes[k + 1], u.suffixes[k + 1])
        BY <1>3, <1>11, <2>2, <3>2, SuffixRule
    <3> QED BY <2>5, <2>7, <2>8, <3>3, SuffixInts DEF LowerSuffix, P
  <2>10. \A j \in 1 .. k + 1 : SuffixKeys(c)[j] = SuffixKeys(u)[j]
    <3>1. \A j \in 1 .. k + 1 : j \in 1 .. k \/ j = k + 1
        BY <1>4
    <3> QED BY <2>6, <2>9, <3>1
  <2>11. Beneath(c, u)
      BY <1>3, <2>2, <2>4, <2>10 DEF Beneath, Reaches
  <2>12. Len(c.suffixes) # k + 1
    <3> SUFFICES ASSUME Len(c.suffixes) = k + 1 PROVE FALSE
        OBVIOUS
    <3>1. SameSuffixes(c, u)
        BY <1>7, <2>10, SeqEqual DEF SameSuffixes
    <3>2. c.rev < u.rev
        BY <1>3, <1>11, <2>2, <3>1, RevRule
    <3> QED BY <1>3, <1>4, <3>2
  <2>13. Len(u.suffixes) < Len(c.suffixes)
      BY <1>3, <1>4, <2>4, <2>12
  <2> QED BY <1>3, <2>11, <2>13, UnderIs
<1> QED BY <1>5, <1>6, <1>10, <1>11 DEF u

LEMMA OtherRange ==
    ASSUME NEW op, NEW c, NEW v, op \notin {"=*", "~"}
    PROVE  FromOperator(op, v, c) = MatchesOperator(c, op, v)
BY DEF FromOperator

(* Both sides of a glob.                                                   *)
LEMMA GlobRange ==
    ASSUME NEW c, NEW v, IsVersion(c), IsVersion(v)
    PROVE  LET inside == FromOperator("=*", v, c)
               match == MatchesOperator(c, "=*", v)
           IN  /\ match /\ ~inside => Under(c, GlobLower(v))
               /\ inside /\ ~match =>
                    \/ \E u \in GlobUpper(v) : Under(c, u)
                    \/ ~GlobBoundsExact(v) \/ HiddenOverflow(v)
<1>1. MatchesOperator(c, "=*", v) <=> GlobMatches(Key(c), v)
    BY DEF MatchesOperator
<1>2. FromOperator("=*", v, c) <=> ~Less(c, GlobLower(v)) /\ \A u \in GlobUpper(v) : Less(c, u)
    BY DEF FromOperator
<1>3. ASSUME GlobMatches(Key(c), v), ~FromOperator("=*", v, c) PROVE Under(c, GlobLower(v))
    BY <1>2, <1>3, GlobAbove, LowerSide
<1>4. ASSUME FromOperator("=*", v, c), ~GlobMatches(Key(c), v), GlobBoundsExact(v),
             ~HiddenOverflow(v)
      PROVE  \E u \in GlobUpper(v) : Under(c, u)
    BY <1>2, <1>4, GlobGap
<1> QED BY <1>1, <1>3, <1>4

(* The ranges of `=V*` and `~V` (glob_bounds, glob_bounds_exact and        *)
(* approximate_bounds in portage-atom/src/version.rs) miss only matches    *)
(* that sort under the `_alpha` of a glob's lower bound and, where a glob  *)
(* says it is exact, hold nothing else but what sorts under the suffix of  *)
(* the upper bound: whatever the versions, u64 and the base, but for the   *)
(* two overflows glob_bounds_exact does not see (HiddenOverflow).          *)
THEOREM RangesAreRight == VSSpec => []RangesHold
<1> DEFINE Given == dep.v \in Patterns
<1>1. VSInit => Given
    BY DEF VSInit
<1>2. Given /\ [VSNext]_vsvars => Given'
    BY DEF VSNext, Candidate, vsvars
<1>3. Given => RangesHold
  <2> DEFINE inside(c) == FromOperator(dep.op, dep.v, c)
             match(c) == MatchesOperator(c, dep.op, dep.v)
  <2> SUFFICES ASSUME Given, NEW c \in Universe
               PROVE  /\ (match(c) /\ ~inside(c)) => (dep.op = "=*" /\ Under(c, GlobLower(dep.v)))
                      /\ (inside(c) /\ ~match(c)) =>
                           \/ \E u \in Upper : Under(c, u)
                           \/ dep.op = "=*" /\ ~GlobBoundsExact(dep.v)
                           \/ dep.op = "=*" /\ HiddenOverflow(dep.v)
      BY DEF RangesHold
  <2>1. IsVersion(c) /\ IsVersion(dep.v)
    <3>1. c \in Universe /\ dep.v \in Patterns
        BY DEF Given
    <3> QED BY <3>1, VersionSetAssumption
  <2>2. CASE dep.op = "=*"
    <3>1. Upper = GlobUpper(dep.v)
        BY <2>2 DEF Upper
    <3>2. /\ FromOperator("=*", dep.v, c) = inside(c)
          /\ MatchesOperator(c, "=*", dep.v) = match(c)
        BY <2>2
    <3> HIDE DEF inside, match
    <3> QED BY <2>1, <2>2, <3>1, <3>2, GlobRange
  <2>3. CASE dep.op = "~"
    <3>1. Upper = {ApproximateUpper(dep.v)}
        BY <2>3 DEF Upper
    <3>2. /\ FromOperator("~", dep.v, c) = inside(c)
          /\ MatchesOperator(c, "~", dep.v) = match(c)
        BY <2>3
    <3> HIDE DEF inside, match
    <3> QED BY <2>1, <3>1, <3>2, TildeRange
  <2>4. CASE dep.op \notin {"=*", "~"}
    <3>1. inside(c) = match(c)
        BY <2>4, OtherRange
    <3> HIDE DEF inside, match
    <3> QED BY <3>1
  <2> QED BY <2>2, <2>3, <2>4
<1> QED BY <1>1, <1>2, <1>3, PTL DEF VSSpec
=============================================================================
