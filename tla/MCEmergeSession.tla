--------------------------- MODULE MCEmergeSession ---------------------------
(* Two packages; one is asked for, or both, or both again (--emptytree).   *)
EXTENDS EmergeSession

CONSTANTS a, b
MCPackages == {a, b}
MCShapes   == {[goal |-> {a}, rebuild |-> FALSE],
               [goal |-> {a, b}, rebuild |-> FALSE],
               [goal |-> {a, b}, rebuild |-> TRUE]}
=============================================================================
