SPECIFICATION ListingSpec
CONSTANTS
  Laws = {l1, l2}
  ArticleNos = {a1}
  Texts = {x}
  Null = Null
  Display = 1
  MaxVersions = 2
PROPERTIES
  ListedIsNotRepealed
