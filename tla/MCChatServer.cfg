SPECIFICATION MCSpec
CONSTANTS
  Connections = {c1, c2}
  Requests <- MCRequests
  Tokens <- MCTokens
  MaxRequests = 2
  MaxSockets = 2
  Ids <- MCIds
  NoId = ""
  nullptr = nullptr
  IdAt <- MCIdAt
  MaxTime = 1
  MaxChat = 1
  TicksPerSecond = 1
  ClockLimit = 100000
  LifetimeSeconds = 0
  TokenOf <- MCTokenOf
  IssuedAs <- MCIssuedAs
CHECK_DEADLOCK FALSE
SYMMETRY Symmetry
INVARIANTS
  SocketHandedOver
  JoinedByToken
  JoinedInLifetime
  NothingLeft
PROPERTIES
  ImplementsServer
  ImplementsCore
