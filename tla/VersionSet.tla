----------------------------- MODULE VersionSet -----------------------------
(***************************************************************************)
(* The set of versions a dependency stands for in the solver               *)
(* (portage-atom-pubgrub/src/version_set.rs, from_operator_among): the     *)
(* range of its operator, corrected, for `=V*`, at each version known of   *)
(* the target.                                                             *)
(*                                                                         *)
(* The range is what FromOperator says, the corrections are sets of keys,  *)
(* for a range is made of points of the order.                             *)
(***************************************************************************)
EXTENDS Versions, FiniteSets

CONSTANTS
    Patterns,          \* versions a dependency is written with
    Ops,               \* its operators
    Repositories,      \* the sets of versions known of a target
    Universe           \* the versions the ranges are tried on

ASSUME VersionSetAssumption ==
    /\ \A v \in Patterns \cup Universe \cup UNION Repositories : IsVersion(v)
    /\ Ops \subseteq {"<", "<=", "=", "=*", "~", ">=", ">"}

VARIABLES
    dep,               \* the dependency: [op, v]
    known,             \* the versions known of its target
    unjudged,          \* those still to be looked at
    added,             \* keys added to the range
    cut                \* keys cut out of it

vsvars == <<dep, known, unjudged, added, cut>>

InRange(c) ==
    Key(c) \in added \/ (FromOperator(dep.op, dep.v, c) /\ Key(c) \notin cut)

(* known is read only for `=V*`.                                           *)
VSInit ==
    /\ dep \in [op : Ops, v : Patterns]
    /\ known \in Repositories
    /\ unjudged = IF dep.op = "=*" THEN known ELSE {}
    /\ added = {} /\ cut = {}

(* Nothing corrected once the bounds are exact, not even a match below.    *)
CandidateSlip(c) ==
    /\ unjudged' = unjudged \ {c}
    /\ LET inside == InRange(c)
           match == GlobMatches(Key(c), dep.v)
       IN  IF GlobBoundsExact(dep.v) THEN UNCHANGED <<added, cut>>
           ELSE /\ cut' = IF inside /\ ~match THEN cut \cup {Key(c)} ELSE cut
                /\ added' = IF ~inside /\ match THEN added \cup {Key(c)} ELSE added
    /\ UNCHANGED <<dep, known>>

(* One known version looked at.                                            *)
Candidate(c) ==
    /\ unjudged' = unjudged \ {c}
    /\ LET inside == InRange(c)
           match == GlobMatches(Key(c), dep.v)
       IN  IF inside /\ GlobBoundsExact(dep.v) THEN UNCHANGED <<added, cut>>
           ELSE /\ cut' = IF inside /\ ~match THEN cut \cup {Key(c)} ELSE cut
                /\ added' = IF ~inside /\ match THEN added \cup {Key(c)} ELSE added
    /\ UNCHANGED <<dep, known>>

VSNext == \E c \in unjudged : Candidate(c)

VSSpec == VSInit /\ [][VSNext]_vsvars

-----------------------------------------------------------------------------
(* "Each known version lands on its glob_matches side" (version_set.rs),   *)
(* in whatever order they come and however they are spelt: later           *)
(* corrections undo none.  But what a range said to be exact holds is left *)
(* there, a non-match too: `1.3_alpha_pre1` in `=1.2*`.                    *)
KnownSettled ==
    dep.op = "=*" => \A c \in known \ unjudged :
        InRange(c) <=> \/ GlobMatches(Key(c), dep.v)
                       \/ (GlobBoundsExact(dep.v) /\ FromOperator("=*", dep.v, c))

(* The pure operators need not be tried again for every repository.        *)
Fresh == known = {}

(* PMS algorithms 3.1-3.7 on the written version.                          *)
Written(c) == Zeros(c.zeros) \o Digits[c.value]
ZeroLed(c) == c.zeros > 0 \/ c.value = 0
StringOrder(i, c, d) == i > 1 /\ (ZeroLed(c) \/ ZeroLed(d))
SameComponent(i, c, d) ==
    IF StringOrder(i, c, d) THEN TrimEnd(Written(c)) = TrimEnd(Written(d))
    ELSE c.value = d.value
LowerComponent(i, c, d) ==
    IF StringOrder(i, c, d) THEN LexLess(TrimEnd(Written(c)), TrimEnd(Written(d)))
    ELSE c.value < d.value

SameSuffix(s, t) == s.kind = t.kind /\ Number(s) = Number(t)
LowerSuffix(s, t) == s.kind < t.kind \/ (s.kind = t.kind /\ Number(s) < Number(t))

(* Where two versions have the same component, the same suffix.            *)
Common(s, t) == {i \in DOMAIN s : i \in DOMAIN t}
SharedNums(v, w) ==
    {i \in Common(v.nums, w.nums) : SameComponent(i, v.nums[i], w.nums[i])}
SharedSuffixes(v, w) ==
    {i \in Common(v.suffixes, w.suffixes) : SameSuffix(v.suffixes[i], w.suffixes[i])}

(* The first place of s, or the one after its last, that is not shared.    *)
Parting(s, shared) ==
    CHOOSE i \in 1 .. Len(s) + 1 : i \notin shared /\ \A j \in 1 .. i - 1 : j \in shared

LowerTail(v, w) ==
    LET s == Parting(v.suffixes, SharedSuffixes(v, w))
    IN  CASE s \in Common(v.suffixes, w.suffixes) ->
                 LowerSuffix(v.suffixes[s], w.suffixes[s])
          [] s \in DOMAIN w.suffixes \ DOMAIN v.suffixes -> w.suffixes[s].kind = P
          [] s \in DOMAIN v.suffixes \ DOMAIN w.suffixes -> v.suffixes[s].kind # P
          [] OTHER -> v.rev < w.rev

PmsLess(v, w) ==
    LET c == Parting(v.nums, SharedNums(v, w))
    IN  CASE c \in Common(v.nums, w.nums) -> LowerComponent(c, v.nums[c], w.nums[c])
          [] c \in DOMAIN w.nums \ DOMAIN v.nums -> TRUE
          [] c \in DOMAIN v.nums \ DOMAIN w.nums -> FALSE
          [] OTHER -> v.letter < w.letter \/ (v.letter = w.letter /\ LowerTail(v, w))

(* "Comparing them as bytes is comparing the versions (PMS Algorithms      *)
(* 3.1-3.7)" (encoding.rs), zero-led components, missing numbers and all;  *)
(* and what a glob reads off the key is the same when the bytes are.       *)
KeyOrder ==
    Fresh => \A c \in Universe :
        /\ Less(c, dep.v) <=> PmsLess(c, dep.v)
        /\ (Key(c) = Key(dep.v)) <=> (~PmsLess(c, dep.v) /\ ~PmsLess(dep.v, c))

(* c is u with more suffixes.                                              *)
Under(c, u) ==
    LET k == Key(c)
        q == Key(u)
    IN  /\ k.components = q.components /\ k.letter = q.letter
        /\ IsStrictPrefix(q.suffixes, k.suffixes)

(* Two overflows glob_bounds_exact does not see: in `V_pMAX_p*` the suffix *)
(* bumped is the one before the last; in `1.0.MAX*` the carry ends in a    *)
(* zero-led component.                                                     *)
HiddenOverflow(v) ==
    LET n == Len(v.suffixes)
        m == Len(v.nums)
    IN  /\ v.rev = 0
        /\ \/ /\ n > 1 /\ v.suffixes[n] = [kind |-> P, num |-> Unnumbered]
              /\ v.suffixes[n - 1].num = MaxNum
           \/ /\ n = 0 /\ v.letter = 0 /\ v.nums[m].value = MaxNum
              /\ \E i \in 2 .. m - 1 : ZeroLed(v.nums[i])

Upper == IF dep.op = "~" THEN {ApproximateUpper(dep.v)} ELSE GlobUpper(dep.v)

(* The ranges of `=V*` and `~V` miss only matches that sort under the      *)
(* `_alpha` of a glob's lower bound; and, where a glob says it is exact,   *)
(* they hold nothing else but what sorts under the suffix that makes the   *)
(* upper bound (glob_bounds, glob_bounds_exact, approximate_bounds).       *)
RangesHold ==
    Fresh => \A c \in Universe :
        LET inside == FromOperator(dep.op, dep.v, c)
            match == MatchesOperator(c, dep.op, dep.v)
        IN  /\ (match /\ ~inside) => (dep.op = "=*" /\ Under(c, GlobLower(dep.v)))
            /\ (inside /\ ~match) =>
                 \/ \E u \in Upper : Under(c, u)
                 \/ dep.op = "=*" /\ ~GlobBoundsExact(dep.v)
                 \/ dep.op = "=*" /\ HiddenOverflow(dep.v)
=============================================================================
