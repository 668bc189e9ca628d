----------------------------- MODULE MCFail2Ban ------------------------------
(* Fail2Ban on small instances: model values and constant functions for TLC. *)
EXTENDS Fail2Ban

CONSTANTS s1, b1, b2, request

OneServer == [b \in Bans |-> s1]

\* No comment is part of another one.
Exact == [b \in Bans |-> {b}]

\* The comment of b1 is part of the comment of b2 (10.0.0.1, 10.0.0.10).
Prefix == [b \in Bans |-> IF b = b1 THEN {b1, b2} ELSE {b}]
=============================================================================
