------------------------------ MODULE Versions ------------------------------
(***************************************************************************)
(* Package versions (portage-atom/src/version.rs, version/encoding.rs):    *)
(* the byte key versions are compared by, what `=V*` matches, and the      *)
(* bounds `=V*` and `~V` are turned into.                                  *)
(*                                                                         *)
(* A version is kept as written: numeric components with the zeros before  *)
(* their value, a letter (0 for none), suffixes (a kind by its byte in the *)
(* key, and a number or Unnumbered) and a revision.  u64 is 0 .. MaxNum,   *)
(* decimal is base Base.                                                   *)
(***************************************************************************)
EXTENDS Integers, Sequences, SequencesExt

CONSTANTS
    MaxNum,            \* u64::MAX
    Base,              \* 10
    MaxLetter          \* 'z'

ASSUME VersionAssumption ==
    MaxNum \in Nat \ {0} /\ Base \in Nat \ {0, 1} /\ MaxLetter \in Nat \ {0}

Unnumbered == -1

(* The bytes of the key.                                                   *)
COMPONENT_END == 0
ZERO_LED == 1
NUMERIC == 2
SUFFIX_END == 5
Alpha == 1
Rc == 4
P == 6
SuffixKinds == {Alpha, 2, 3, Rc, P}

Suffix == [kind : SuffixKinds, num : {Unnumbered} \cup 0 .. MaxNum]
Component == [zeros : Nat, value : 0 .. MaxNum]

IsVersion(v) ==
    /\ v \in [nums : Seq(Component), letter : 0 .. MaxLetter,
              suffixes : Seq(Suffix), rev : 0 .. MaxNum]
    /\ v.nums # <<>>

Zeros(n) == [i \in 1 .. n |-> 0]

(* The digits of a number, without zeros in front.                         *)
Digits[n \in 0 .. MaxNum] ==
    IF n < Base THEN <<n>> ELSE Append(Digits[n \div Base], n % Base)

TrimEnd(s) ==
    SubSeq(s, 1, IF \E i \in DOMAIN s : s[i] # 0
                 THEN CHOOSE i \in DOMAIN s : s[i] # 0 /\ \A j \in DOMAIN s : s[j] # 0 => j <= i
                 ELSE 0)

-----------------------------------------------------------------------------
(* The order key (order_key).  A number is one element of it, a digit is   *)
(* one more than its value, as '0' is above the byte that ends a string.   *)

(* A zero-led component with the zeros at its end left on.                 *)
ComponentKeySlip(i, c) ==
    IF i = 1 THEN <<c.value>>
    ELSE IF c.zeros = 0 /\ c.value # 0 THEN <<NUMERIC, c.value>>
    ELSE <<ZERO_LED>>
         \o [j \in 1 .. c.zeros |-> 1]
         \o [j \in DOMAIN Digits[c.value] |-> Digits[c.value][j] + 1] \o <<0>>

ComponentKey(i, c) ==
    IF i = 1 THEN <<c.value>>
    ELSE IF c.zeros = 0 /\ c.value # 0 THEN <<NUMERIC, c.value>>
    ELSE LET string == IF c.value = 0 THEN <<>>
                       ELSE Zeros(c.zeros) \o TrimEnd(Digits[c.value])
         IN  <<ZERO_LED>> \o [j \in DOMAIN string |-> string[j] + 1] \o <<0>>

Number(s) == IF s.num = Unnumbered THEN 0 ELSE s.num

(* What the key tells of a version, field by field (Layout).               *)
Key(v) ==
    [components |-> [i \in DOMAIN v.nums |-> ComponentKey(i, v.nums[i])],
     letter |-> v.letter,
     suffixes |-> [i \in DOMAIN v.suffixes |-> <<v.suffixes[i].kind, Number(v.suffixes[i])>>],
     rev |-> v.rev]

BeforeRevision(k) ==
    FlattenSeq(k.components) \o <<COMPONENT_END, k.letter>> \o FlattenSeq(k.suffixes)
        \o <<SUFFIX_END>>

Bytes(k) == BeforeRevision(k) \o <<k.rev>>

LexLess(a, b) ==
    \E i \in DOMAIN b :
        /\ \A j \in 1 .. i - 1 : j \in DOMAIN a /\ a[j] = b[j]
        /\ i \in DOMAIN a => a[i] < b[i]

(* Version::cmp.                                                           *)
Less(v, w) == LexLess(Bytes(Key(v)), Bytes(Key(w)))

-----------------------------------------------------------------------------
(* What an operator asks of a version.                                     *)

LastSuffixUnnumbered(v) == v.suffixes # <<>> /\ Last(v.suffixes).num = Unnumbered

(* Whether the version of key k is a `=V*` match, V as written.            *)
GlobMatches(k, v) ==
    LET q == Key(v)
        n == Len(q.components)
        m == Len(q.suffixes)
        has_tail == q.letter # 0 \/ m > 0 \/ q.rev # 0
        open == q.rev = 0 /\ LastSuffixUnnumbered(v)
    IN  /\ IsPrefix(q.components, k.components)
        /\ has_tail => Len(k.components) = n /\ k.letter = q.letter
        /\ m <= Len(k.suffixes)
        /\ q.rev # 0 => m = Len(k.suffixes) /\ k.rev = q.rev
        /\ \A i \in 1 .. m : IF open /\ i = m THEN k.suffixes[i][1] = q.suffixes[i][1]
                             ELSE k.suffixes[i] = q.suffixes[i]

(* matches_operator, with "=*" for `=` with a glob.                        *)
MatchesOperator(c, op, v) ==
    CASE op = "<"  -> Less(c, v)
      [] op = "<=" -> ~Less(v, c)
      [] op = "=*" -> GlobMatches(Key(c), v)
      [] op = "="  -> Bytes(Key(c)) = Bytes(Key(v))
      [] op = ">=" -> ~Less(c, v)
      [] op = ">"  -> Less(v, c)
      [] op = "~"  -> BeforeRevision(Key(c)) = BeforeRevision(Key(v))

-----------------------------------------------------------------------------
(* The bounds of `=V*` and `~V`.  An upper bound that may be missing is a  *)
(* set of at most one version.                                             *)

WithSuffix(v, kind) ==
    [v EXCEPT !.suffixes = Append(@, [kind |-> kind, num |-> Unnumbered])]

Released(v) == [v EXCEPT !.rev = 0]

(* The zeros kept whatever the successor's width.                          *)
BumpedComponentSlip(c) == [c EXCEPT !.value = @ + 1]

(* The successor, as wide as it was written.                               *)
BumpedComponent(c) ==
    LET wide == c.zeros + Len(Digits[c.value])
        next == Len(Digits[c.value + 1])
    IN  [zeros |-> IF wide > next THEN wide - next ELSE 0, value |-> c.value + 1]

(* A component that cannot grow is dropped and the one before it bumped.   *)
BumpedNumeric(v) ==
    LET last == {i \in DOMAIN v.nums : /\ v.nums[i].value < MaxNum
                                       /\ \A j \in DOMAIN v.nums : j > i => v.nums[j].value = MaxNum}
    IN  {WithSuffix([nums |-> Append(SubSeq(v.nums, 1, i - 1), BumpedComponent(v.nums[i])),
                     letter |-> 0, suffixes |-> <<>>, rev |-> 0], Alpha) : i \in last}

BumpedSuffix(v) ==
    LET s == Last(v.suffixes)
    IN  IF Number(s) = MaxNum THEN {}
        ELSE {WithSuffix([Released(v) EXCEPT
                  !.suffixes = Append(Front(@), [s EXCEPT !.num = Number(s) + 1])], Alpha)}

(* After the last letter comes the same version with `.0`.                 *)
BumpedLetter(v) ==
    IF v.letter \in 1 .. MaxLetter - 1
    THEN WithSuffix([Released(v) EXCEPT !.letter = @ + 1], Alpha)
    ELSE WithSuffix([Released(v) EXCEPT !.letter = 0,
                         !.nums = Append(@, [zeros |-> 0, value |-> 0])], Alpha)

OrElse(S, T) == IF S # {} THEN S ELSE T

BumpedPastUnnumberedSuffix(v) ==
    LET kind == Last(v.suffixes).kind
        u == [Released(v) EXCEPT !.suffixes = Front(@)]
    IN  CASE kind < Rc -> {WithSuffix(WithSuffix(u, kind + 1), Alpha)}
          [] kind = Rc -> {u}
          [] kind = P /\ u.suffixes # <<>> -> OrElse(BumpedSuffix(u), BumpedNumeric(u))
          [] kind = P /\ u.suffixes = <<>> ->
                 {IF u.letter # 0 THEN BumpedLetter(u)
                  ELSE WithSuffix([u EXCEPT !.letter = 1], Alpha)}

(* glob_bounds: the lower bound and, if it fits, the upper one.            *)
GlobLower(v) == IF v.rev # 0 THEN v ELSE WithSuffix(v, Alpha)
GlobUpper(v) ==
    IF v.rev # 0
    THEN IF v.rev < MaxNum THEN {[v EXCEPT !.rev = @ + 1]} ELSE BumpedNumeric(v)
    ELSE IF LastSuffixUnnumbered(v) THEN BumpedPastUnnumberedSuffix(v)
    ELSE IF v.suffixes # <<>> THEN OrElse(BumpedSuffix(v), BumpedNumeric(v))
    ELSE IF v.letter # 0 THEN {BumpedLetter(v)}
    ELSE BumpedNumeric(v)

GlobBoundsExact(v) ==
    LET last == Last(Key(v).components)
    IN  IF v.rev # 0 THEN v.rev # MaxNum
        ELSE IF v.suffixes # <<>> THEN Last(v.suffixes).num # MaxNum
        ELSE v.letter # 0 \/ Len(v.nums) < 2 \/ last[1] # ZERO_LED

ApproximateUpper(v) == WithSuffix(Released(v), P)

(* PortageVersionSet::from_operator: whether the range holds c.            *)
FromOperator(op, v, c) ==
    CASE op = "=*" -> ~Less(c, GlobLower(v)) /\ \A u \in GlobUpper(v) : Less(c, u)
      [] op = "~"  -> ~Less(c, Released(v)) /\ Less(c, ApproximateUpper(v))
      [] OTHER     -> MatchesOperator(c, op, v)
=============================================================================
