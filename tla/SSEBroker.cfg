SPECIFICATION FairSpec
CONSTANTS
  Clients = {c1, c2}
  Stalled = {c2}
  RegisterCap = 1
  BroadcastCap = 2
  SendCap = 1
  MaxEvents = 3
CHECK_DEADLOCK FALSE
INVARIANTS
  TypeOK
  NoSendOnClosed
PROPERTIES
  Refines
  HandlersProgress
  SentIsDelivered
