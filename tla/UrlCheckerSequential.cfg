SPECIFICATION FairSpec
CONSTANTS
  URLs = {u1, u2}
  UpURLs = {u1, u2}
  Reqs = {r1, r2}
  None = None
  InitIds = 1
  MaxId = 1
  MaxInFlight = 1
  MaxCrashes = 1
  DBMayFail = FALSE
CHECK_DEADLOCK FALSE
INVARIANTS
  QuietConsistent
PROPERTIES
  StoppedReturns
  BootChecksKeepProbing
