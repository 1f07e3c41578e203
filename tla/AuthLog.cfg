SPECIFICATION FairSpec
CONSTANTS
  MaxLines = 3
  MaxFiles = 2
  MaxCrashes = 1
  MaxFaults = 1
INVARIANTS
  TypeOK
  InOrderOnce
  NothingSkipped
PROPERTIES
  WrittenIsRead
