SPECIFICATION Spec
CONSTANTS
  Users = {u1, u2, u3}
  Incidents = {i1}
  Threads = {t1, t2}
  Statements = {s1, s2}
  StatusInputs = {"in_review", "completed"}
  Null = Null
  MaxLog = 4
SYMMETRY Interchangeable
CHECK_DEADLOCK FALSE
PROPERTIES
  CompletedIsSettled
