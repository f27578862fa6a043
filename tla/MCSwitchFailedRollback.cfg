SPECIFICATION Spec
CONSTANTS
  Profiles = {p0, p1}
  StaticProfile = p0
  Containers = {c1}
  None = None
  Partial = Partial
  Budgets <- FaultsOnly
  WritebackBeforeStart = TRUE
PROPERTIES
  FailedRollbackKeepsRecord
