SPECIFICATION Spec
CONSTANTS
  SysKinds <- None
  DiskKinds <- OneDisk
  URLKinds <- OneURL
  MaxLevel = 1
  DefaultLevel = 1
  Putters <- TwoPutters
  Faults = {"insert", "resolve", "load", "probe"}
  MaxFaults = 1
  MaxChanges = 3
  MaxCrashes = 1
INVARIANTS
  ActiveSound
  EveryAlertAnnounced
  OneRowPerFall
  ThresholdsAgree
