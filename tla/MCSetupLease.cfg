SPECIFICATION FairSpec
CONSTANTS
  None = None
  Setups = {s1, s2}
  Unit = unit
  Runtimes = {unit, r1, r2}
  MaxCalls = 2
INVARIANTS
  TypeOK
  LeaseExcludes
  OneAtWork
  TransactionAlone
  LeaseAdoptable
  ProofSound
PROPERTIES
  LeaseReleased
