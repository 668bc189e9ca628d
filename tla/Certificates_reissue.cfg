SPECIFICATION Spec
CONSTANTS
  a = a
  b = b
  v1 = v1
  v2 = v2
  request = request
  Renewer = Renewer
  Unborn = Unborn
  Gone = Gone
  NoRow = NoRow
  Nobody = Nobody
  Plain = Plain
  Missing = Missing
  SiteIds = {1, 2}
  ServerOf <- TwoServers
  NameOf <- TwoNames
  Born <- NoneOneBoth
  Names = {a, b}
  Requests = {request}
  BatchLimit = 2
  MaxMoves = 3
PROPERTY RenewalKeepsName
