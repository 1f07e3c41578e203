SPECIFICATION FairSpec
CONSTANTS
  Disks = {sda}
  Ifaces = {}
  W = 4
  InitCounts = {3}
  MaxSeconds = 2
  RecentLimit = 2
  None = None
  SSHLimit = 1
  Bytes = {1, 3}
  MaxChanges = 2
  MaxFaults = 1
  MaxLives = 1
INVARIANTS
  TypeOK
  EventsTellState
PROPERTIES
  BytesCountedOnce
  CacheKeeps
  TunnelConverges
  SecurityRecovers
