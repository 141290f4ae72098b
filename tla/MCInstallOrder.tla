--------------------------- MODULE MCInstallOrder ---------------------------
(* Every graph of build-tool and runtime dependencies on up to four pairs  *)
(* of four packages, and any number of them among three; one of two cycles *)
(* on four packages, numbered in every way; and, for the plan, two         *)
(* dependencies of any class among three, any targets and one package that *)
(* may need no merge.                                                      *)
EXTENDS InstallOrder

MCNodes == 0..3

Edges(nodes, classes) ==
    {e \in [from : nodes, to : nodes, class : classes] : e.from # e.to}

Pair == {q \in MCNodes \X MCNodes : q[1] # q[2]}

Dense ==
    {{[from |-> q[1], to |-> q[2], class |-> f[q]] : q \in {r \in Pair : f[r] # "none"}} :
        f \in {g \in [Pair -> {"Bdepend", "Rdepend", "none"}] :
                  Cardinality({q \in Pair : g[q] # "none"}) <= 4}}

Three == SUBSET Edges(0..2, {"Bdepend", "Rdepend"})

Cycles == <<<<0, 1>>, <<0, 2>>, <<2, 0>>, <<2, 3>>, <<3, 1>>, <<1, 2>>>>

TwoCycles ==
    {{[from |-> f[Cycles[i][1]], to |-> f[Cycles[i][2]], class |-> c[i]] : i \in DOMAIN Cycles} :
        f \in {g \in [MCNodes -> MCNodes] : Range(g) = MCNodes},
        c \in [DOMAIN Cycles -> {"Bdepend", "Rdepend"}]}

Small == {{d, e} : d \in Edges(0..2, Classes), e \in Edges(0..2, Classes)}

MCRequests ==
    {[edges |-> g, roots |-> {}, needed |-> MCNodes] : g \in Dense \cup Three \cup TwoCycles}
    \cup {[edges |-> g, roots |-> R, needed |-> MCNodes \ N] :
             g \in Small, R \in SUBSET (0..2), N \in {{}, {0}}}
=============================================================================
