SPECIFICATION FairSpec
CONSTANTS
  None = None
  ResultCap = 1
  StreamCap = 1
  MaxAlerts = 2
  MaxProbes = 2
  MaxProbers = 2
  MaxFaults = 1
INVARIANTS
  TypeOK
  ShownOnce
  AlertsCurrent
  ResultCurrent
PROPERTIES
  Reconnects
  AlertsArrive
