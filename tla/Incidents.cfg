SPECIFICATION FairSpec
CONSTANTS
  f1 = f1
  f2 = f2
  loop = loop
  ingester = ingester
  None = None
  Fingerprints = {f1, f2}
  Syncers = {loop, ingester}
  Background = loop
  MaxId = 5
  RowLimit = 2
  NotifyOn = {"open", "resolved"}
  MaxMoves = 2
INVARIANTS
  OneActivePerFingerprint
  MailedOnce
PROPERTIES
  ResolvedIsFinal
  AlertsAreFollowed
