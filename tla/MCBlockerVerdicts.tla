-------------------------- MODULE MCBlockerVerdicts --------------------------
(* A new package, and one that is part of the solution as it is, upgraded  *)
(* or a new slot, or none of these, over a world of two slots of one name  *)
(* and two other packages, and a name nobody has: up to two needs of       *)
(* installed packages, one or two blockers of the new package or of an     *)
(* installed one.                                                          *)
EXTENDS BlockerVerdicts

K(n, s) == [name |-> n, slot |-> s]

Old == {K("a", 1), K("a", 2), K("b", 1), K("c", 1)}
MCKeys == Old \cup {K("b", 2), K("n", 1), K("x", 1)}

Choices == {<<{}, {}>>, <<{K("c", 1)}, {}>>, <<{K("c", 1)}, {K("c", 1)}>>,
            <<{K("a", 1)}, {K("a", 1)}>>, <<{K("b", 2)}, {K("b", 2)}>>}

Needs == [owner : {K("a", 1), K("b", 1), K("c", 1)},
          need : {<<K("a", 0)>>, <<K("a", 1)>>, <<K("b", 1)>>, <<K("c", 0)>>,
                  <<K("a", 0), K("b", 0)>>, <<K("b", 1), K("x", 0)>>}]

Blockers == [owner : {K("n", 1)}, atom : {K("a", 0), K("b", 1)}, strong : BOOLEAN]
            \cup [owner : {K("c", 1)}, atom : {K("a", 1), K("b", 1), K("n", 0)}, strong : BOOLEAN]
            \cup [owner : {K("b", 1)}, atom : {K("n", 0)}, strong : BOOLEAN]
            \cup [owner : {K("n", 1)}, atom : {K("n", 0)}, strong : {FALSE}]

UpToTwo(S) == {{x, y} : x \in S, y \in S}

Request(c, needs, blockers) ==
    [installed |-> Old,
     solution |-> {K("n", 1)} \cup c[1],
     planned |-> {K("n", 1)} \cup c[2],
     needs |-> [k \in Old |-> {x.need : x \in {y \in needs : y.owner = k}}],
     blockers |-> blockers]

MCRequests ==
    {Request(c, needs, blockers) : c \in Choices, needs \in {{}} \cup UpToTwo(Needs),
                                   blockers \in UpToTwo(Blockers)}
=============================================================================
