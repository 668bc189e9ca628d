SPECIFICATION Spec
CONSTANTS
  s1 = s1
  b1 = b1
  b2 = b2
  request = request
  Loop = Loop
  None = None
  Foreign = Foreign
  Servers = {s1}
  Bans = {b1, b2}
  ServerOf <- OneServer
  Found <- Prefix
  Requests = {request}
  MaxMoves = 3
INVARIANT ActiveBanHasRule
