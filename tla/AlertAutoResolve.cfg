SPECIFICATION FairSpec
CONSTANTS
  SysKinds <- None
  DiskKinds <- None
  URLKinds <- OneURL
  MaxLevel = 2
  DefaultLevel = 1
  Putters <- None
  Faults = {}
  MaxFaults = 0
  MaxChanges = 3
  MaxCrashes = 0
PROPERTIES
  AutoResolve
