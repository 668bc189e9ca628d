---------------------------- MODULE MCZoneAnswers ----------------------------
(* ZoneAnswers on a small instance: names and symmetry for TLC. *)
EXTENDS ZoneAnswers, TLC

CONSTANTS r1, r2

\* ex, a.ex (which may be a zone of its own), b.a.ex.
ThreeNames == {<<1>>, <<1, 1>>, <<1, 1, 2>>}
TwoZones  == {<<1>>, <<1, 1>>}

\* The places in the table of records are alike.
IdSymmetry == Permutations(Ids)
=============================================================================
