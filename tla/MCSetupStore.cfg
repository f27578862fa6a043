SPECIFICATION Spec
CONSTANTS
  None = None
  Torn = Torn
  Settings = {s1, s2}
  Keys = {}
  Inodes = {1, 2, 3, 4, 5, 6, 7, 8}
  MaxFaults = 2
SYMMETRY Symmetry
INVARIANTS
  TypeOK
  EntriesWhole
  SuccessDurable
  Foreseen
