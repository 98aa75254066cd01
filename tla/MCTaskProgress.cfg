CONSTANTS
  r1 = r1  r2 = r2
  Requests = {r1, r2}
  Keys = {"repair", "confirm", "upload"}
  Upload = "upload"
  Worded = {"confirm"}
  Labels <- MCLabels
  Plans <- MCPlans
  MaxCalls = 3
  MaxMsgs = 1
  MaxFaults = 1
SPECIFICATION Spec
CHECK_DEADLOCK FALSE
SYMMETRY Interchangeable
INVARIANTS VerifiedHasWord AtMostOneActive
PROPERTIES ProgressIsKept
