-------------------------- MODULE MCLoopController --------------------------
(***************************************************************************)
(* LoopController on small instances, for TLC.                             *)
(***************************************************************************)
EXTENDS LoopController, TLC

Symmetry == Permutations(Loop) \cup Permutations(Driver) \cup Permutations(Req)
=============================================================================
