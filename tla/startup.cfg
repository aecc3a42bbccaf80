SPECIFICATION Spec
CONSTANTS
  s1 = s1
  s2 = s2
  s3 = s3
  Null = Null
  Reports = {r1}
  Users = {u1}
  Sidos = {"24", "36", "37"}
  Sigungus = {"24010", "36060", "37011"}
  Prefix <- MCPrefix
  Merges <- MCMerges
  Sites = {s1, s2, s3}
  SiteToRegion <- MCSiteToRegion
  Laws = {l1}
  MaxRestarts = 3
INVARIANTS
  ServesCleanData
PROPERTIES
  PlaceIsKept
  ServesInTheEnd
CHECK_DEADLOCK FALSE
