CONSTANTS
  i1 = i1  i2 = i2
  Tasks = {"t1"}
  Instances = {i1, i2}
  MaxIn = 2
  MaxOut = 1
  MaxEdits = 1
  MaxAnswers = 3
  MaxFaults = 1
SPECIFICATION Spec
CHECK_DEADLOCK FALSE
SYMMETRY Interchangeable
INVARIANTS TypeOK SkippedWasHeard TypingIsExplained
