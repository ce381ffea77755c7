SPECIFICATION Spec
CONSTANTS
  TicksPerSecond = 2
  ClockLimit = 100000
  LifetimeSeconds = 2
  MaxTime = 7
  MaxIssued = 2
  MaxLeeway = 0
  Inventions <- MCInventions
  Partner <- MCPartner
INVARIANT RoundedUp
