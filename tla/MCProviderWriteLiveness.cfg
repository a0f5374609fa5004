SPECIFICATION MCFairSpec
CONSTANTS
  p1 = p1
  p2 = p2
  NoProc = NoProc
  Procs <- MCProcs
  Items = {1, 2}
  DeleteItems = {}
  NewItems = {1, 2}
  ProviderWriteAttempts = 1
  ProviderWriteConcurrency = 2
  CanReadBack = FALSE
  StalledReads = FALSE
  MaxFaults = 1
CHECK_DEADLOCK FALSE
INVARIANTS
  OneSenderPerUpdate
  WritingNeverStarves
  
  TokenMatchesPark
PROPERTIES
  RecordedUnderClaimLease
  KeepsIntent
  BatchSettles
  PauseServed
