SPECIFICATION MCSpec
CONSTANTS
  p1 = p1
  p2 = p2
  NoProc = NoProc
  Procs <- MCProcs
  Items = {1, 2}
  DeleteItems = {}
  NewItems = {}
  ProviderWriteAttempts = 2
  ProviderWriteConcurrency = 2
  CanReadBack = TRUE
  StalledReads = FALSE
  MaxFaults = 1
SYMMETRY MCSymmetry
CHECK_DEADLOCK FALSE
INVARIANTS
  TypeOK
  RetryableParkIsCertain
PROPERTIES
  UnknownUpdateNotResent
