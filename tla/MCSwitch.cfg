SPECIFICATION FairSpec
CONSTANTS
  Profiles = {p0, p1}
  StaticProfile = p0
  Containers = {c1, c2}
  None = None
  Partial = Partial
  Budgets <- Accidents
  WritebackBeforeStart = TRUE
INVARIANTS
  TypeOK
  CrashRecoverable
  NeverUnowned
  PublishedOnlyCommitted
  ExcludedWhilePending
  FailedRunLeavesClientStopped
PROPERTIES
  ReleasedOnlyWhenRestored
  ClientNeverLeavesTunnel
  StartsOnlyRecorded
  ImplementsSwitch
  EventuallyReleased
