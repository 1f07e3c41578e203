SPECIFICATION Spec
CONSTANTS
  URLs = {u1, u2}
  UpURLs = {u1, u2}
  Reqs = {r1, r2}
  None = None
  InitIds = 1
  MaxId = 2
  MaxInFlight = 2
  MaxCrashes = 1
  DBMayFail = TRUE
SYMMETRY Symmetry
CHECK_DEADLOCK FALSE
INVARIANTS
  TypeOK
  StopChannelOpen
  NoImmortalOrphan
  DeletedIsLeftAlone
  FalseDownIsCutOff
