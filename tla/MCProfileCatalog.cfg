SPECIFICATION MCSpec
CONSTANTS
  Callers = {p1, p2}
  Ids = {i1, i2}
  Root = root
  Names = {a, b}
  RootName = a
  Stamps = {t1, t2}
  NoId = noId
  NoName = noName
  NoStamp = noStamp
SYMMETRY Symmetries
INVARIANTS CatalogStaysSound OpenStaysInPlace 
PROPERTY DataKept
