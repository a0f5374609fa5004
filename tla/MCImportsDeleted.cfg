CONSTANTS
  f1 = f1
  f2 = f2
  Files <- MCFiles
  Contents <- MCContents
  MerchantText <- MCText
  Merchants = {101}
  Groups = {1}
  Categories = {1}
  Labels = {}
  Kinds <- DeletionsOnly
  MaxJournal = 1
  MaxRevision = 4
  MaxItems = 3
  MaxImports = 3
  MaxCommits = 2
SPECIFICATION MCSpec

PROPERTY DeletionsKept
CHECK_DEADLOCK FALSE
