SPECIFICATION FairSpec
CONSTANTS
  k1 = k1
  k2 = k2
  c1 = c1
  Keys = {k1, k2}
  Configured = {k1}
  Callers = {c1}
  Copies = {1, 2}
  Slots = 1
  StaleAfter = 0
  MaxTime = 2
  MaxMoves = 1
INVARIANT SingleFlight
PROPERTIES
  UptimeKept
  StaleGetsFresh
  WatchedIsProbed
  ImplementsBoard
