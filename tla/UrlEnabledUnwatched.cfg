SPECIFICATION Spec
CONSTANTS
  URLs = {u1}
  UpURLs = {u1}
  Reqs = {r1}
  None = None
  InitIds = 0
  MaxId = 1
  MaxInFlight = 1
  MaxCrashes = 0
  DBMayFail = FALSE
CHECK_DEADLOCK FALSE
INVARIANTS
  EnabledIsWatched
