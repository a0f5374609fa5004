SPECIFICATION Spec
CONSTANTS
  p1 = p1
  p2 = p2
  NoProc = NoProc
  Procs <- MCProcs
  Items = {1, 2}
  DeleteItems = {1}
  NewItems = {}
  ProviderWriteAttempts = 2
  ProviderWriteConcurrency = 2
  CanReadBack = FALSE
  StalledReads = FALSE
  MaxFaults = 1
SYMMETRY MCSymmetry
CHECK_DEADLOCK FALSE
PROPERTIES
  UnknownUpdateNotResent
