SPECIFICATION Spec
CONSTANTS
  Users = {u1, u2}
  Incidents = {i1}
  Threads = {t1, t2}
  Statements = {s1}
  StatusInputs = {"in_review", "completed"}
  Null = Null
  MaxLog = 3
SYMMETRY Interchangeable
CHECK_DEADLOCK FALSE
INVARIANTS
  StatusIsLogged
  AssigneeTookCharge
  RequesterSideIsCreators
PROPERTIES
  HistoryIsAppendOnly
  OnlyReviewCompletes
  EditKeepsStatus
  ReportIsKept
  KeepsPromise
