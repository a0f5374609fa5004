CONSTANTS
  f1 = f1
  f2 = f2
  Files <- MCFiles
  Contents <- MCContents
  MerchantText <- MCText
  Merchants = {101}
  Groups = {1}
  Categories = {1}
  Labels = {}
  Kinds <- MCKinds
  MaxJournal = 1
  MaxRevision = 4
  MaxItems = 3
  MaxImports = 3
  MaxCommits = 2
SPECIFICATION MCSpec
INVARIANTS StaysImportable SourceIsFollowed
PROPERTIES OnlyReadRowsChange UserEditsKept
CHECK_DEADLOCK FALSE
