----------------------------- MODULE MCSoloTurn -----------------------------
(* Two turns: the second can meet what the first, or its cancel, left over.  *)
EXTENDS SoloTurn
=============================================================================
