CONSTANTS
  Messages = {"m1", "m2", "m3"}
  From <- MCFrom
  Body <- MCBody
  Vendors = {"vendor"}
  Unlisted = {"unlisted"}
  Undated = {"m2"}
  Textless = {"m3"}
  Lookback = 2
  MaxSends = 2
  MaxClock = 4
  MaxFaults = 1
SPECIFICATION SmsSpec
CHECK_DEADLOCK FALSE
INVARIANTS SmsTypeOK MissedAreCaught
PROPERTIES RepeatsAreExplained
