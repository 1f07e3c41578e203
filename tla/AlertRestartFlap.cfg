SPECIFICATION Spec
CONSTANTS
  SysKinds <- None
  DiskKinds <- None
  URLKinds <- OneURL
  MaxLevel = 2
  DefaultLevel = 1
  Putters <- None
  Faults = {}
  MaxFaults = 0
  MaxChanges = 1
  MaxCrashes = 1
INVARIANTS
  OneRowPerOutage
