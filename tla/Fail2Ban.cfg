SPECIFICATION FairSpec
CONSTANTS
  s1 = s1
  b1 = b1
  b2 = b2
  request = request
  Loop = Loop
  None = None
  Foreign = Foreign
  Servers = {s1}
  Bans = {b1, b2}
  ServerOf <- OneServer
  Found <- Exact
  Requests = {request}
  MaxMoves = 4
INVARIANTS
  TypeOK
  TableMatchesChain
PROPERTIES
  ForeignKept
  BanKept
  OffenderIsBlocked
  EveryBanEnds
