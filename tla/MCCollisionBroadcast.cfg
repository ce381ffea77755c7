SPECIFICATION Spec
CONSTANTS
  Sessions = {s1, s2}
  NoId = ""
  nullptr = nullptr
  TicksPerSecond = 1
  ClockLimit = 100000
  LifetimeSeconds = 3600
  MaxTime = 1
  MaxChat = 2
  Leavers = {s1, s2}
  TokenNames = {"short", "forged"}
  Ids <- MCIds
  IdAt <- MCIdAt
  TokenOf <- MCTokenOf
INVARIANT AllConnectionsReached
