--------------------------- MODULE MCPaintManager ---------------------------
(* Finite instances of PaintManager: two dialogs, a control in the first.  *)
EXTENDS PaintManager, TLC

CONSTANTS d1, d2, k1

HomeDef == k1 :> d1

=============================================================================
