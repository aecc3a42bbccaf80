SPECIFICATION Spec
CONSTANTS
  Reqs = {r1, r2}
  Browsers = {b1, b2}
  Laws = {l1, l2}
  Repealed = {l2}
  PoolSizes = {1, 2}
  Null = Null
INVARIANTS
  TypeOK
  SessionNeedsPassword
PROPERTIES
  SaveIsExact
  EveryRequestIsAnswered
