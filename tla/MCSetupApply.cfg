SPECIFICATION Spec
CONSTANTS
  None = None
  s1 = s1
  s2 = s2
  k1 = k1
  k2 = k2
  Settings = {s1, s2}
  Keys = {k1, k2}
  Requests <- AllRequests
  Initial <- Installations
  Faults = {"error", "runtime", "kill"}
  MaxFaults = 2
  Windows = {}
INVARIANTS
  TypeOK
  NeverStuck
  ApiSourceHasKey
  TimerFailClosed
  AnswerHolds
  ExactOrCommitted
  RestoredStaysStatic
  AdoptionUndone
PROPERTIES
  AppliesAtomically
  ProposalSuffices
