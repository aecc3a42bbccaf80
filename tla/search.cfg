SPECIFICATION Spec
CONSTANTS
  a1 = a1
  a2 = a2
  l1 = l1
  l2 = l2
  Threads = {t1, t2}
  Articles = {a1, a2}
  LawOf <- MCLawOf
  Parts = {1, 2}
  CandidatePool = 2
  TopK = 2
  SeedCount = 1
  MaxChanges = 1
INVARIANTS
  ResultsWereChosen
  NoArticleTwice
PROPERTIES
  GraphComesAlive
