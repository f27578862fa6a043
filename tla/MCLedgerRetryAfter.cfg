SPECIFICATION Spec
CONSTANTS
  Ifaces = {wg0}
  Servers = {s1}
  Credentials = {k1}
  None = None
  MaxAttempts = 3
  MaxExclusions = 4
  Day = 3
  SixHours = 2
  FiveMinutes = 1
  MaxEpoch = 8
  RetryAfters = {0, 3}
  MaxBookings = 3
  MaxAdverse = 0
INVARIANTS
  RetryAfterHonoured
