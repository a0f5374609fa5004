CONSTANTS
  s1 = s1
  s2 = s2
  Services = {s1, s2}
  Bindings = {TRUE, FALSE}
  InitialProfile <- SmallProfile
  Kinds <- SharingKinds
  Merchants = {1, 2}
  Groups = {1, 2}
  Categories = {1, 2, 3}
  Labels = {4}
  MaxJournal = 2
  MaxRevision = 4
SPECIFICATION MCSpec
INVARIANTS BatchCanEnd CacheCoherent StoredCanLoad
PROPERTIES EditsAsOneEditor ReviewedIsCommitted RefreshKeepsEdits
CHECK_DEADLOCK FALSE
