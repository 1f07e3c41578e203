SPECIFICATION FairSpec
CONSTANTS
  SysKinds <- OneSys
  DiskKinds <- None
  URLKinds <- OneURL
  MaxLevel = 2
  DefaultLevel = 1
  Putters <- TwoPutters
  Faults = {"insert", "probe"}
  MaxFaults = 1
  MaxChanges = 2
  MaxCrashes = 1
INVARIANTS
  TypeOK
  ActiveSound
  OneActivePerKind
  EveryAlertAnnounced
PROPERTIES
  Refines
  BreachIsAlerted
  ResolvesWhileMeasured
