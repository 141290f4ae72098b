---------------------------- MODULE PlanRequests ----------------------------
(* The requests both merge loops are checked on: every blocker graph over  *)
(* three entries, with at most one positioned unmerge of either strength   *)
(* and any owners, and with entries 1 and 2 in one work directory or not;  *)
(* and two strong or weak victims over two entries.                        *)
EXTENDS Integers

BlockerGraphs(n) == {b \in [0 .. (n - 1) -> SUBSET (0 .. (n - 1))] :
                       \A i \in 0 .. (n - 1) : \A j \in b[i] : j < i}

Orders == {"BeforeBlocker", "AfterBlocker"}

Request(n, m, b, ord, own, key, skip, keep) ==
    [entries |-> n, unmerges |-> m, blockers |-> b, order |-> ord,
     owners |-> own, work_key |-> key, skippable |-> skip, keep_going |-> keep]

SharedDir == [i \in 0 .. 2 |-> IF i = 0 THEN 0 ELSE 1]
OwnDirs   == [i \in 0 .. 2 |-> i]

NoUnmerge == {Request(3, 0, b, <<>>, <<>>, key, {1}, keep) :
                b \in BlockerGraphs(3), key \in {SharedDir, OwnDirs}, keep \in BOOLEAN}

OneUnmerge == {Request(3, 1, b, [u \in {3} |-> ord], [u \in {3} |-> own],
                       key, {1}, keep) :
                b \in BlockerGraphs(3), ord \in Orders, own \in SUBSET (0 .. 2) \ {{}},
                key \in {SharedDir, OwnDirs}, keep \in BOOLEAN}

TwoUnmerges == {Request(2, 2, b, ord, own, [i \in 0 .. 1 |-> i], {0}, keep) :
                b \in BlockerGraphs(2), ord \in [{2, 3} -> Orders],
                own \in [{2, 3} -> SUBSET (0 .. 1) \ {{}}], keep \in BOOLEAN}

MCRequests == NoUnmerge \cup OneUnmerge \cup TwoUnmerges
=============================================================================
