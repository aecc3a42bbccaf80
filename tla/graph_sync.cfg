SPECIFICATION Spec
CONSTANTS
  Incidents = {i1, i2}
  Placed = {i1}
  Threads = {t1, t2}
  Articles = {a, b}
  Null = Null
SYMMETRY Interchangeable
INVARIANTS
  TypeOK
  CitesWereCommitted
  LoneSyncIsExact
