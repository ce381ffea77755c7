SPECIFICATION HttpSpec
CONSTANTS
  Connections = {c1}
  Requests <- MCRequests
  Tokens = {"none"}
  MaxRequests = 2
CHECK_DEADLOCK FALSE
INVARIANT HeadHasNoBody
