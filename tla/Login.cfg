SPECIFICATION LoginFairSpec
CONSTANTS
  u1 = u1
  u2 = u2
  remote = remote
  loopback = loopback
  p1 = p1
  p2 = p2
  Users = {u1, u2}
  Known = {u1}
  IPs = {remote}
  Tracked = {remote}
  Attempts = {p1, p2}
  UserMax = 2
  IPMax = 2
  Cooldown = 2
  Block = 3
  MaxAge = 1
INVARIANTS
  GuessesBounded
  BurstBounded
PROPERTY LockoutEnds
