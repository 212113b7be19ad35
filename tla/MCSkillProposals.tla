-------------------------- MODULE MCSkillProposals --------------------------
(***************************************************************************)
(* SkillProposals, and with it HotlBudget, on small instances, for TLC.    *)
(***************************************************************************)
EXTENDS SkillProposals, TLC

CONSTANTS c1, c2, p1, p2, d1, d2, s1

(* A tight policy that denies, a wider one that escalates.                 *)
MCRule == {[max |-> 1, window |-> 1, escalates |-> FALSE],
           [max |-> 1, window |-> 2, escalates |-> TRUE]}

MCCall     == {c1, c2}
MCPolicy   == {p1, p2}
MCDecision == {d1, d2}
MCSkill    == {s1}
Symmetry   == Permutations(MCCall) \cup Permutations(MCPolicy)
              \cup Permutations(MCDecision)
=============================================================================
