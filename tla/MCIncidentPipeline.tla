------------------------- MODULE MCIncidentPipeline -------------------------
(***************************************************************************)
(* IncidentPipeline on small instances, for TLC.                           *)
(***************************************************************************)
EXTENDS IncidentPipeline
=============================================================================
