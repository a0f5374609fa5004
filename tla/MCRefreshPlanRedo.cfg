SPECIFICATION Spec
CONSTANTS
  AdditiveKinds = {TRUE}
  InitialProfile <- StoredProfile
  InitialIdentity <- StoredIdentity
  InitialLineage <- MergedAway
  ProviderLabel <- StoredLabels
  Candidates <- Rivals
  Merchants = {1, 2, 9}
  Groups = {1}
  Categories = {1, 2}
  Labels = {3, 4}
  Kinds <- Renames
  MaxJournal = 2
  MaxRevision = 2
CHECK_DEADLOCK FALSE
INVARIANTS
  UndoneEditsSurvive
