SPECIFICATION Spec
CONSTANTS
  Laws = {l1, l2}
  ArticleNos = {a1, a2}
  Texts = {x, y}
  Null = Null
  Display = 1
  MaxVersions = 3
SYMMETRY Interchangeable
INVARIANTS
  TypeOK
  ChunksMatchText
  SkippedIsComplete
  RepealedIsEmpty
PROPERTIES
  KeepsPromise
