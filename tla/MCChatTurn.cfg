CONSTANTS
  Turns = {"t1", "t2"}
  Busy = {"t1"}
  None = "none"
  MaxCalls = 2
  MaxFaults = 1
SPECIFICATION FairSpec
CHECK_DEADLOCK FALSE
INVARIANTS CardsMatchEffects ClaimsAreBacked OutcomesAgree GreetedOnce ContextUnwinds
PROPERTIES TurnsEnd
