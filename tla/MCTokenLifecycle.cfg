SPECIFICATION Spec
CONSTANTS
  TicksPerSecond = 2
  ClockLimit = 100000
  LifetimeSeconds = 2
  MaxTime = 7
  MaxIssued = 2
  MaxLeeway = 2
  Inventions <- MCInventions
  Partner <- MCPartner
INVARIANTS
  OnlySignedAccepted
  FreshAccepted
  RefusedOutsideLifetime
  LeewayForgives
