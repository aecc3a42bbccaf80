SPECIFICATION Spec
CONSTANTS
  Laws = {l1}
  ArticleNos = {a1, a2}
  Texts = {x, y}
  Null = Null
  Display = 1
  MaxVersions = 2
INVARIANTS
  DeletedIsNotStored
