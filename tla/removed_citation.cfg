SPECIFICATION Spec
CONSTANTS
  Incidents = {i1}
  Placed = {i1}
  Threads = {t1, t2}
  Articles = {a}
  Null = Null
SYMMETRY Interchangeable
INVARIANTS
  RemovedIsForgotten
