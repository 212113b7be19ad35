----------------------------- MODULE MCScheduler -----------------------------
(***************************************************************************)
(* Scheduler on small instances, for TLC.                                  *)
(***************************************************************************)
EXTENDS Scheduler
=============================================================================
