------------------------------ MODULE Cosolve ------------------------------
(***************************************************************************)
(* The USE co-solve (cosolve_use_deps, portage-resolve/src/package_use.rs):*)
(* solve, read which USE dependencies the plan violates, force the flags   *)
(* they demand, settle those demanded both ways, and solve again until     *)
(* nothing changes.                                                        *)
(*                                                                         *)
(* One USE flag and packages that are all new, numbered in the order the   *)
(* code sorts them by; package 0 is the synthetic root, whose dependencies *)
(* are the requested atoms.  The solver is what it gives for a given       *)
(* package.use: the packages reached from the root.                        *)
(***************************************************************************)
EXTENDS Naturals, FiniteSets, Functions

CONSTANTS
    Packages,          \* positive numbers
    Graphs,            \* sets of dependencies [from, to, kind, gate]
    IUses,             \* sets of packages with the flag in IUSE
    Holds,             \* records: the values package.use (config) and the
                       \* profile (fixed) hold, as functions of some packages
    MaxSolves          \* the bound on the loop (8 in the code)

Root == 0
Kinds == {"pull", "Enabled", "Disabled", "Equal", "EqualInverse",
          "Conditional", "ConditionalInverse"}

IsMap(f, D) == DOMAIN f \subseteq D /\ f \in [DOMAIN f -> BOOLEAN]

(* gate marks a dependency of `flag? ( )`.  The request has no flag.       *)
ASSUME CosolveAssumption ==
    /\ MaxSolves \in Nat /\ Packages \subseteq Nat \ {Root}
    /\ \A g \in Graphs : \A d \in g :
         /\ d.from \in Packages \cup {Root} /\ d.to \in Packages
         /\ d.kind \in Kinds /\ d.gate \in BOOLEAN
         /\ d.from = Root => d.kind \in {"pull", "Enabled", "Disabled"} /\ ~d.gate
    /\ IUses \subseteq SUBSET Packages
    /\ \A h \in Holds : IsMap(h.config, Packages) /\ IsMap(h.fixed, Packages)

VARIABLES
    world,             \* the graph and the configuration of this run: [deps,
                       \* iuse, default, config, fixed]
    pc,                \* solve, settle or done
    solves,            \* how many iterations of the loop have begun
    applied,           \* the forced flags: package -> value
    reqs,              \* the demands the last solve found, per package
    seen,              \* the demands of all solves, per package
    decisions,         \* contested package -> how it was settled
    todo,              \* contested packages still to settle in this iteration
    changed,           \* a decision of this iteration differs from the last
    solved             \* the loop ended on a solution of its package.use

vars == <<world, pc, solves, applied, reqs, seen, decisions, todo, changed, solved>>

Without(f, S) == Restrict(f, DOMAIN f \ S)
With(f, g) == [x \in DOMAIN f \cup DOMAIN g |-> IF x \in DOMAIN g THEN g[x] ELSE f[x]]
Only(t, value) == [x \in {t} |-> value]

-----------------------------------------------------------------------------
(* The solve.                                                              *)

(* The flag of a planned package, under package.use and the profile.       *)
Effective(p) ==
    IF p \notin world.iuse              THEN FALSE
    ELSE IF p \in DOMAIN world.fixed    THEN world.fixed[p]
    ELSE IF p \in DOMAIN applied        THEN applied[p]
    ELSE IF p \in DOMAIN world.config   THEN world.config[p]
    ELSE world.default[p]

InForce(d) == ~d.gate \/ Effective(d.from)

(* What the dependencies of D lead to from the root.                       *)
Reached(D) ==
    LET Within[n \in 0..Cardinality(Packages)] ==
            IF n = 0 THEN {Root}
            ELSE Within[n - 1] \cup {d.to : d \in {e \in D : e.from \in Within[n - 1]}}
    IN Within[Cardinality(Packages)]

Plan == Reached({d \in world.deps : InForce(d)})

(* The value each USE dependency of the plan asks of its target now.       *)
Asks(d, v) ==
    \/ d.kind = "Enabled" /\ v
    \/ d.kind = "Disabled" /\ ~v
    \/ d.kind = "Equal" /\ v = Effective(d.from)
    \/ d.kind = "EqualInverse" /\ v # Effective(d.from)
    \/ d.kind = "Conditional" /\ v /\ Effective(d.from)
    \/ d.kind = "ConditionalInverse" /\ ~v /\ ~Effective(d.from)
Demands(plan, t, v) ==
    {[parent |-> d.from, kind |-> d.kind, enable |-> v] :
        d \in {e \in world.deps : e.to = t /\ e.from \in plan /\ InForce(e) /\ Asks(e, v)}}

(* The demands one solve records for a target: a demand is recorded when   *)
(* it differs from the value so far, which an earlier demand overrides, to *)
(* `enabled` for good.  So all that ask for the flag off are, once one     *)
(* asks for it on, and one of the others, whichever is met first.  (What   *)
(* the plan asks something of is in the plan.)                             *)
Recorded(plan, t) ==
    LET on == Demands(plan, t, TRUE)
        off == Demands(plan, t, FALSE)
    IN IF on # {} /\ (off # {} \/ ~Effective(t)) THEN {{d} \cup off : d \in on}
       ELSE IF off # {} /\ Effective(t) THEN {{d} : d \in off}
       ELSE {{}}

(* req_targets: a target without the flag in IUSE is left to the advisory. *)
Targeted == {t \in world.iuse : reqs[t] # {}}
-----------------------------------------------------------------------------
(* The settlement of a flag demanded both ways.                            *)

Follows(d) == d.kind \notin {"Enabled", "Disabled"}
(* The value of the parent's flag under which d would ask for the opposite.*)
ParentValueToAgree(d) ==
    IF d.kind = "Equal" THEN ~d.enable
    ELSE IF d.kind = "EqualInverse" THEN d.enable
    ELSE d.kind = "ConditionalInverse"

PinOf(d) ==
    IF d.parent \in DOMAIN world.config THEN "config"
    ELSE IF d.parent \in DOMAIN applied /\ applied[d.parent] = ~ParentValueToAgree(d)
    THEN "decided"
    ELSE IF d.parent \in DOMAIN world.fixed THEN "fixed" ELSE "none"

(* settle: one side plainly demanded and every parent on the other free    *)
(* to give way.                                                            *)
Settle(t) ==
    LET plain == {d.enable : d \in {e \in seen[t] : ~Follows(e)}}
        loses(d) == Follows(d) /\ plain = {~d.enable}
        pins == {<<d, IF loses(d) THEN PinOf(d) ELSE "none">> : d \in seen[t]}
    IN IF plain \in {{TRUE}, {FALSE}} /\ \A x \in pins : x[2] = "none"
       THEN [matched |-> TRUE, enable |-> CHOOSE v \in plain : TRUE,
             flipped |-> {d \in seen[t] : d.enable \notin plain}, pins |-> {}]
       ELSE [matched |-> FALSE, enable |-> FALSE, flipped |-> {}, pins |-> pins]

Parents(decision) == {d.parent : d \in decision.flipped}

(* What the parents may be set to: of two demands of one parent that       *)
(* disagree, the one met last counts.                                      *)
Flips(decision) ==
    {f \in [Parents(decision) -> BOOLEAN] :
        \A p \in Parents(decision) : \E d \in decision.flipped :
            d.parent = p /\ f[p] = ParentValueToAgree(d)}

(* Slips: a conflict not released; the parents of the old decision kept.   *)
EnforcedKeepsConflictSlip(t, decision, flips) ==
    IF decision.matched THEN With(applied, Only(t, decision.enable)) ELSE applied

EnforcedKeepsFlipsSlip(t, decision, flips) ==
    IF decision.matched THEN With(With(applied, Only(t, decision.enable)), flips)
    ELSE Without(applied, {t})

(* What set_override and clear_override leave for a new decision on t: the *)
(* parents the old one flipped are released, then t and the new parents    *)
(* are set, or t released too.                                             *)
Enforced(t, decision, flips) ==
    LET old == IF t \in DOMAIN decisions THEN Parents(decisions[t]) ELSE {}
        kept == Without(applied, old)
    IN IF decision.matched THEN With(With(kept, Only(t, decision.enable)), flips)
       ELSE Without(kept, {t})

Contested(sn) ==
    {t \in Packages \ DOMAIN world.config :
        {d.enable : d \in sn[t]} = BOOLEAN}
-----------------------------------------------------------------------------
Init ==
    /\ \E deps \in Graphs, iuse \in IUses, default \in [Packages -> BOOLEAN], h \in Holds :
          world = [deps |-> deps, iuse |-> iuse, default |-> default,
                   config |-> h.config, fixed |-> h.fixed]
    /\ pc = "solve" /\ solves = 0
    /\ applied = <<>> /\ decisions = <<>>
    /\ reqs = [p \in Packages |-> {}]
    /\ seen = [p \in Packages |-> {}]
    /\ todo = {} /\ changed = FALSE /\ solved = FALSE

Findings(options) ==
    {f \in [Packages -> UNION Range(options)] : \A t \in Packages : f[t] \in options[t]}

(* Only the demands of the last solve contested.                           *)
SolveForgetsSlip ==
    /\ pc = "solve" /\ solves < MaxSolves
    /\ \E found \in Findings(LET plan == Plan IN [t \in Packages |-> Recorded(plan, t)]) :
         reqs' = found /\ seen' = found /\ todo' = Contested(found)
    /\ solves' = solves + 1
    /\ changed' = FALSE
    /\ pc' = "settle"
    /\ UNCHANGED <<world, applied, decisions, solved>>

(* One solve and its requirements, added to those seen before.             *)
Solve ==
    /\ pc = "solve" /\ solves < MaxSolves
    /\ \E found \in Findings(LET plan == Plan IN [t \in Packages |-> Recorded(plan, t)]) :
         /\ reqs' = found
         /\ LET sn == [t \in Packages |->
                         IF t \in world.iuse THEN seen[t] \cup found[t] ELSE seen[t]]
            IN seen' = sn /\ todo' = Contested(sn)
    /\ solves' = solves + 1
    /\ changed' = FALSE
    /\ pc' = "settle"
    /\ UNCHANGED <<world, applied, decisions, solved>>

(* The solver finds no plan for this package.use, or the bound is reached. *)
SolveFails ==
    /\ pc = "solve"
    /\ pc' = "done"
    /\ UNCHANGED <<world, solves, applied, reqs, seen, decisions, todo, changed, solved>>

(* The next contested flag, in name order.                                 *)
SettleNext ==
    /\ pc = "settle"
    /\ \E t \in todo :
         /\ \A u \in todo : t <= u
         /\ todo' = todo \ {t}
         /\ LET decision == Settle(t)
            IN IF t \in DOMAIN decisions /\ decisions[t] = decision
               THEN UNCHANGED <<decisions, applied, changed>>
               ELSE /\ decisions' = With(decisions, Only(t, decision))
                    /\ \E flips \in Flips(decision) :
                         applied' = Enforced(t, decision, flips)
                    /\ changed' = TRUE
    /\ UNCHANGED <<world, pc, solves, reqs, seen, solved>>

(* The demands on flags not held, settled or forced are forced; if there   *)
(* is none and no decision changed, the fixpoint is reached.               *)
Apply ==
    /\ pc = "settle" /\ todo = {}
    /\ LET new == Targeted \ (DOMAIN world.config \cup DOMAIN decisions \cup DOMAIN applied)
       IN /\ applied' = [t \in DOMAIN applied \cup new |->
                           IF t \in new THEN \E d \in reqs[t] : d.enable ELSE applied[t]]
          /\ solved' = (new = {} /\ ~changed)
          /\ pc' = IF solved' THEN "done" ELSE "solve"
    /\ UNCHANGED <<world, solves, reqs, seen, decisions, todo, changed>>

Next == Solve \/ SolveFails \/ SettleNext \/ Apply

Spec == Init /\ [][Next]_vars
-----------------------------------------------------------------------------
Demand == {d \in [parent : Packages \cup {Root}, kind : Kinds \ {"pull"},
                  enable : BOOLEAN] : Follows(d) => d.parent # Root}
Decision == [matched : BOOLEAN, enable : BOOLEAN, flipped : SUBSET Demand,
             pins : SUBSET (Demand \X {"config", "decided", "fixed", "none"})]

TypeOK ==
    /\ world.deps \in Graphs /\ world.iuse \in IUses
    /\ world.default \in [Packages -> BOOLEAN]
    /\ \E h \in Holds : world.config = h.config /\ world.fixed = h.fixed
    /\ pc \in {"solve", "settle", "done"} /\ solves \in 0..MaxSolves
    /\ IsMap(applied, Packages)
    /\ reqs \in [Packages -> SUBSET Demand] /\ seen \in [Packages -> SUBSET Demand]
    /\ DOMAIN decisions \subseteq Packages
    /\ \A t \in DOMAIN decisions : decisions[t] \in Decision
    /\ todo \subseteq Packages
    /\ changed \in BOOLEAN /\ solved \in BOOLEAN

Matched == {t \in DOMAIN decisions : decisions[t].matched}
Conflicts == DOMAIN decisions \ Matched

(* The parents whose flags were flipped to settle another one, and those   *)
(* that may have been: a contested flag has followed theirs.               *)
Flipped == UNION {Parents(decisions[t]) : t \in Matched}
Followed(t) == {d.parent : d \in {e \in seen[t] : Follows(e)}}
Yielding == UNION {Followed(t) : t \in DOMAIN decisions}

(* A flip that need not last: the parent's own flag is contested, another  *)
(* contested flag follows it, two demands want it both ways, or it has     *)
(* none.                                                                   *)
Unsure(t, d) ==
    \/ d.parent \in DOMAIN decisions \/ d.parent \notin world.iuse
    \/ \E u \in DOMAIN decisions \ {t} : d.parent \in Followed(u)
    \/ \E e \in decisions[t].flipped :
         e.parent = d.parent /\ ParentValueToAgree(e) # ParentValueToAgree(d)

(* The flags whose settlement is entangled with another's.                 *)
Entangled == Flipped \cup
    {t \in Matched : t \in Yielding \/ \E d \in decisions[t].flipped : Unsure(t, d)}

Violated(d) == d.from \in Plan /\ InForce(d) /\ Asks(d, ~Effective(d.to))

(* A fixpoint explains every USE dependency its plan still violates: the   *)
(* flag is not in IUSE, is held by package.use or the profile, or is       *)
(* reported as a conflict; or its settlement is entangled with another.    *)
Explained ==
    solved => \A d \in world.deps : Violated(d) =>
        \/ d.to \notin world.iuse
        \/ d.to \in DOMAIN world.config \cup DOMAIN world.fixed
        \/ d.to \in Conflicts \cup Entangled

(* "Flags demanded both ways and settled by flipping parents" have the     *)
(* value they were settled to, and of "flags demanded both ways that no    *)
(* change settles; none of them is forced" (CosolveOutcome), at any time:  *)
(* but for those that another contested flag follows, whose settlement may *)
(* flip and release them too.                                              *)
SettlementHolds ==
    \A t \in DOMAIN decisions \ Yielding :
        IF t \in Matched THEN t \in DOMAIN applied /\ applied[t] = decisions[t].enable
        ELSE t \notin DOMAIN applied

(* No flag stays forced that nobody asked for: each is demanded that way   *)
(* by a dependency of some solve, or flipped for a settled flag.           *)
ForcedForAReason ==
    \A t \in DOMAIN applied :
        \/ \E d \in seen[t] : d.enable = applied[t]
        \/ \E u \in Matched : \E d \in decisions[u].flipped :
              d.parent = t /\ applied[t] = ParentValueToAgree(d)
=============================================================================
