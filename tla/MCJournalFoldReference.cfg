SPECIFICATION Spec
CONSTANTS
  s1 = s1
  s2 = s2
  Services = {s1}
  Bindings = {FALSE}
  InitialProfile <- FreshProfile
  Kinds <- MergeKinds
  Merchants = {1}
  Groups = {1, 2, 3}
  Categories = {1}
  Labels = {2, 4}
  MaxJournal = 3
  MaxRevision = 5
CHECK_DEADLOCK FALSE
INVARIANTS
  FoldNeverRefused
