SPECIFICATION FairSpec
CONSTANTS
  q1 = q1
  q2 = q2
  s1 = s1
  s2 = s2
  Queries = {q1, q2}
  Saves = {s1}
  Nobody = Nobody
  MaxMoves = 3
INVARIANTS
  SignedWithStored
PROPERTIES
  KeyKept
  QueryEnds
