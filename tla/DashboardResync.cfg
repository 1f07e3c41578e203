SPECIFICATION Spec
CONSTANTS
  None = None
  ResultCap = 1
  StreamCap = 1
  MaxAlerts = 1
  MaxProbes = 0
  MaxProbers = 0
  MaxFaults = 1
INVARIANTS
  ResyncOnReconnect
