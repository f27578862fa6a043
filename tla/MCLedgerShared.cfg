SPECIFICATION FairSpec
CONSTANTS
  Ifaces = {wg0, wg1}
  Servers = {s1}
  Credentials = {k1}
  None = None
  MaxAttempts = 1
  MaxExclusions = 2
  Day = 1
  SixHours = 1
  FiveMinutes = 1
  MaxEpoch = 1
  RetryAfters = {0}
  MaxBookings = 1
  MaxAdverse = 1
INVARIANTS
  GeneratorSerialised
PROPERTIES
  LockFreed
