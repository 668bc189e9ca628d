----------------------------- MODULE MCIncidents -----------------------------
(* Incidents on small instances: model values for TLC. *)
EXTENDS Incidents

CONSTANTS f1, f2, loop, ingester
=============================================================================
