---------------------------- MODULE MCVersionSet ----------------------------
(* Numbers 0 .. 2 in base 2 ("0", "1", "10"), letters up to two, and       *)
(* versions with many numbers, with letters or with up to two suffixes.    *)
EXTENDS VersionSet

Plain(n) == [zeros |-> 0, value |-> n]
Segment == [zeros : 0 .. 1, value : 0 .. MaxNum]
Numbered == {<<Plain(a)>> : a \in 0 .. MaxNum}
            \cup {<<Plain(a), c>> : a \in 1 .. MaxNum, c \in Segment}
            \cup {<<Plain(1), c, d>> : c \in {Plain(0), Plain(MaxNum)},
                                       d \in {Plain(0), Plain(MaxNum), [zeros |-> 1, value |-> 1]}}
AnySuffix == [kind : SuffixKinds, num : {Unnumbered} \cup 0 .. MaxNum]
FewSuffix == [kind : {Alpha, Rc, P}, num : {Unnumbered, 0, MaxNum}]
One == <<Plain(1)>>

V(n, l, s, r) == [nums |-> n, letter |-> l, suffixes |-> s, rev |-> r]

ByNumber == {V(n, l, s, 0) : n \in Numbered, l \in 0 .. MaxLetter,
                             s \in {<<>>, <<[kind |-> Alpha, num |-> Unnumbered]>>}}
BySuffix == {V(One, l, <<s>>, r) : l \in {0, MaxLetter}, s \in AnySuffix, r \in {0, MaxNum}}
            \cup {V(One, 0, <<s, t>>, 0) : s \in FewSuffix, t \in FewSuffix}
ByRevision == {V(n, 0, <<>>, r) : n \in {One, <<Plain(1), Plain(0)>>}, r \in 1 .. MaxNum}

MCUniverse == ByNumber \cup BySuffix \cup ByRevision
MCPatterns == MCUniverse
Sample == {V(<<Plain(1), Plain(0)>>, 0, <<[kind |-> Alpha, num |-> Unnumbered],
                                          [kind |-> Rc, num |-> 1]>>, 0),
           V(<<Plain(1), [zeros |-> 1, value |-> 1]>>, 0, <<>>, 0),
           V(<<Plain(1), [zeros |-> 1, value |-> 2]>>, 0, <<>>, 0),
           V(One, 0, <<[kind |-> Alpha, num |-> Unnumbered],
                       [kind |-> Rc, num |-> 1]>>, 0),
           V(One, 0, <<[kind |-> P, num |-> 2]>>, 0),
           V(One, 0, <<[kind |-> P, num |-> 0]>>, 0)}
MCRepositories == SUBSET Sample
MCOps == {"=", "=*", "~"}
=============================================================================
