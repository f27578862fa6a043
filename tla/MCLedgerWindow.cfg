SPECIFICATION Spec
CONSTANTS
  Ifaces = {wg0}
  Servers = {s1, s2, s3}
  Credentials = {k1, k2}
  None = None
  MaxAttempts = 1
  MaxExclusions = 2
  Day = 3
  SixHours = 2
  FiveMinutes = 1
  MaxEpoch = 7
  RetryAfters = {0}
  MaxBookings = 3
  MaxAdverse = 1
SYMMETRY Symmetric
INVARIANTS
  FailedCandidateHeld
  TypeOK
  RateBound
  CallsCharged
  HoldRespected
