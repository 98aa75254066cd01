CONSTANTS
  TaskIds = {1, 2}
  Closable = {}
  Manual = {"manager"}
  Decisions = {"on_track"}
  MaxMsgs = 1
  MaxFailures = 1
SPECIFICATION ReviewSpec
CHECK_DEADLOCK FALSE
INVARIANTS ReviewTypeOK MessageKeepsDue CardShowsResult
PROPERTIES ReviewSettles
