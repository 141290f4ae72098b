------------------------------ MODULE MCCosolve ------------------------------
(* Three packages, up to two dependencies among them, up to MaxAsked       *)
(* demands of the request, every default, and nothing or packages 1, 2 held*)
EXTENDS Cosolve, TLC

CONSTANTS MaxAsked

MCPackages == 1..3
Pairs == {q \in MCPackages \X MCPackages : q[1] # q[2]}
Deps(kinds) == {[from |-> q[1], to |-> q[2], kind |-> k, gate |-> FALSE] :
                    q \in Pairs, k \in kinds}
Gated == {[from |-> q[1], to |-> q[2], kind |-> "Enabled", gate |-> TRUE] : q \in Pairs}
Inner ==
    LET some == Deps({"Equal", "Conditional"}) \cup Gated
    IN {{}} \cup {{d} : d \in some \cup Deps({"EqualInverse", "ConditionalInverse"})}
       \cup {{d, e} : d, e \in some}

Asked == {[from |-> Root, to |-> b, kind |-> k, gate |-> FALSE] :
             b \in MCPackages, k \in {"Enabled", "Disabled"}}

(* The request pulls in what no gated dependency does.                     *)
Pulls(D) == {[from |-> Root, to |-> b, kind |-> "pull", gate |-> FALSE] :
                b \in MCPackages \ {d.to : d \in {e \in D : e.gate}}}

MCGraphs == {D \cup A \cup Pulls(D) :
                D \in Inner, A \in {B \in SUBSET Asked : Cardinality(B) <= MaxAsked}}
MCIUses == {MCPackages}
MCHolds == {[config |-> <<>>, fixed |-> <<>>],
            [config |-> (1 :> TRUE), fixed |-> (2 :> FALSE)]}
==============================================================================
