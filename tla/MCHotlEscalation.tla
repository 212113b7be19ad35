-------------------------- MODULE MCHotlEscalation --------------------------
(***************************************************************************)
(* HotlEscalation on small instances, for TLC.                             *)
(***************************************************************************)
EXTENDS HotlEscalation
=============================================================================
