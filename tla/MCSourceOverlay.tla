--------------------------- MODULE MCSourceOverlay ---------------------------
(***************************************************************************)
(* Two device trees share a checkout: tree A replaces both files, tree B   *)
(* only the second, for which two packaged versions exist (the events.cpp  *)
(* of the branch and the Himax one).                                       *)
(***************************************************************************)
EXTENDS SourceOverlay, TLC

CONSTANTS f1, f2, treeA, treeB, p1, p2

MCManifest == (treeA :> <<f1, f2>>) @@ (treeB :> <<f2>>)

MCOverlays == {f1 :> p1 @@ f2 :> p1, f1 :> p1 @@ f2 :> p2}
=============================================================================
