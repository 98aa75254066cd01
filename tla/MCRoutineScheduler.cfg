CONSTANTS
  m1 = m1  m2 = m2  Forever = Forever
  Defaults = {"d1"}
  Customs = {"u1"}
  Requests = {m1, m2}
  Repeats = {2}
  Period = 1
  Hour = 1
  MaxTime = 1
  MaxRuns = 3
  MaxCrashes = 1
SPECIFICATION Spec
CHECK_DEADLOCK FALSE
SYMMETRY Interchangeable
INVARIANTS TypeOK CountIsExact
PROPERTIES DeletedStaysDeleted
