--------------------------- MODULE MCStatusMonitor ---------------------------
(* StatusMonitor on small instances: the model values for TLC. *)
EXTENDS StatusMonitor

CONSTANTS k1, k2, c1

=============================================================================
