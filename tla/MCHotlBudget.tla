---------------------------- MODULE MCHotlBudget ----------------------------
(***************************************************************************)
(* HotlBudget on small instances, for TLC.                                 *)
(***************************************************************************)
EXTENDS HotlBudget, TLC

CONSTANTS c1, c2, c3, p1, p2

(* A tight policy that denies, a wider one that escalates.                 *)
MCRule == {[max |-> 1, window |-> 1, escalates |-> FALSE],
           [max |-> 2, window |-> 2, escalates |-> TRUE]}

MCCall   == {c1, c2, c3}
MCPolicy == {p1, p2}
Symmetry == Permutations(MCCall) \cup Permutations(MCPolicy)
=============================================================================
