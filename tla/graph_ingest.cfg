SPECIFICATION GraphSpec
CONSTANTS
  Laws = {l1, l2}
  ArticleNos = {a1}
  Texts = {x, y}
  Null = Null
  Display = 1
  MaxVersions = 3
SYMMETRY Interchangeable
INVARIANTS
  MarkedIsExtracted
PROPERTIES
  MarkedIsSkipped
