SPECIFICATION Spec
CONSTANTS
  None = None
  r1 = r1
  r2 = r2
  Names <- ThreeNames
  Zones <- TwoZones
  Ids = {r1, r2}
  MaxTime = 2
  MaxMoves = 1
SYMMETRY IdSymmetry
INVARIANTS
  TypeOK
  DenialIsProved
  KeptRowsCount
PROPERTY SerialNeverBack
