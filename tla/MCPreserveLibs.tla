--------------------------- MODULE MCPreserveLibs ---------------------------
(* Slot A: a1 with a library, a2 with the next soname.  Slot B: b1 with a  *)
(* second copy of the first.  Slot C: c1, which needs both sonames.    *)
(* One em that merges, one worker that keeps nothing, one `em -C`.         *)
EXTENDS PreserveLibs, TLC

CONSTANTS a1, a2, b1, c1, fa1, fa2, fb1, s1, s2, sA, sB, sC, emM, emW, emC

MCPackages == {a1, a2, b1, c1}
MCSlots    == {sA, sB, sC}
MCSlotOf   == (a1 :> sA @@ a2 :> sA @@ b1 :> sB @@ c1 :> sC)
MCLibs     == (a1 :> {fa1} @@ a2 :> {fa2} @@ b1 :> {fb1} @@ c1 :> {})
MCNeeds    == (a1 :> {} @@ a2 :> {} @@ b1 :> {} @@ c1 :> {s1, s2})
MCPaths    == {fa1, fa2, fb1}
MCSonameOf == (fa1 :> s1 @@ fa2 :> s2 @@ fb1 :> s1)
MCModes    == (emM :> {"indexed", "flushed"} @@ emW :> {"oneshot"} @@ emC :> {"unlocked"})
=============================================================================
