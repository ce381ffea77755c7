SPECIFICATION Spec
CONSTANTS
  Connections = {c1, c2}
  Requests <- MCRequests
  Tokens = {"none"}
  MaxRequests = 2
  MaxSockets = 1
CHECK_DEADLOCK FALSE
INVARIANTS
  TypeOK
  LeavesOnlyOnSignal
  SocketsAccounted
PROPERTIES
  NobodyWaits
  SignalEnds
