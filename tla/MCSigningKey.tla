---------------------------- MODULE MCSigningKey -----------------------------
(* SigningKey on small instances: model values for TLC. *)
EXTENDS SigningKey

CONSTANTS q1, q2, s1, s2
=============================================================================
