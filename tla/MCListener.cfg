SPECIFICATION Spec
CONSTANTS
  Connections = {c1, c2}
  Requests <- MCRequests
  Tokens = {"none"}
  MaxRequests = 1
  MaxSockets = 1
CHECK_DEADLOCK FALSE
PROPERTY KeepsAccepting
