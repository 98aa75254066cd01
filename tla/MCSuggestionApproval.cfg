CONSTANTS
  Drafts = {"m1", "m2", "s1", "c1", "r1"}
  Kind <- MCKind
  Risky = {"m1", "s1"}
  q1 = q1  q2 = q2
  Requests = {q1, q2}
  MaxActs = 2
SPECIFICATION Spec
CHECK_DEADLOCK FALSE
SYMMETRY Interchangeable
INVARIANTS AcceptedWasSent TextsFollowMessages OneTaskPerProposal RiskyIsExplained
PROPERTIES VerdictsAreFinal
