CONSTANTS
  i1 = i1  i2 = i2
  Tasks = {"t1", "t2"}
  Instances = {i1}
  MaxIn = 1
  MaxOut = 0
  MaxEdits = 1
  MaxAnswers = 2
  MaxFaults = 0
SPECIFICATION FairSpec
CHECK_DEADLOCK FALSE
INVARIANTS AnswersHaveCause
PROPERTIES WaitingIsServed
