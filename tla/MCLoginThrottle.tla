--------------------------- MODULE MCLoginThrottle ---------------------------
(* LoginThrottle on small instances: model values for TLC. *)
EXTENDS LoginThrottle

CONSTANTS u1, u2, remote, loopback, p1, p2
=============================================================================
