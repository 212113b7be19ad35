--------------------------- MODULE MCTurnPipeline ---------------------------
(***************************************************************************)
(* TurnPipeline on small instances, for TLC.                               *)
(***************************************************************************)
EXTENDS TurnPipeline

Symmetry == Permutations(Turn)
=============================================================================
