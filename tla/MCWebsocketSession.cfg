SPECIFICATION Spec
CONSTANTS
  Sessions = {s1, s2, s3}
  NoId = ""
  nullptr = nullptr
  TicksPerSecond = 1
  ClockLimit = 100000
  LifetimeSeconds = 3600
  MaxTime = 1
  MaxChat = 2
  Leavers = {}
  TokenNames = {"short", "forged"}
  Ids <- MCIds
  IdAt <- MCIdAt
  TokenOf <- MCTokenOf
SYMMETRY Symmetry
INVARIANTS
  TypeOK
  NoDanglingPointer
  WriteDiscipline
  OwnedWhileAlive
  PhasesApart
  GreetedFirst
  UnreachedOnlyByCollision
  OnlyVerifiedJoin
