------------------------------ MODULE MCQMerge ------------------------------
(* Two versions of one package and another package, over two paths.  Two *)
(* tasks of an em that keeps an index, a second em that keeps none, and an *)
(* `em -C`.                                                                *)
EXTENDS QMerge, TLC

CONSTANTS x1, x2, y, f, g, em1, em2, emC, p1, q1, q2, c1

MCPackages == {x1, x2, y}
MCPaths    == {f, g}
MCSlotOf   == (x1 :> "x" @@ x2 :> "x" @@ y :> "y")
MCImages   == (x1 :> {{f, g}} @@ x2 :> {{f}} @@ y :> {{g}})
MCProcs    == {em1, em2, emC}
MCTasks    == {p1, q1, q2, c1}
MCProcOf   == (p1 :> em1 @@ q1 :> em2 @@ q2 :> em2 @@ c1 :> emC)
=============================================================================
