CONSTANTS
  TaskIds = {1, 2}
  Closable = {1}
  Manual = {}
  Decisions = {"on_track"}
  MaxMsgs = 1
  MaxFailures = 1
SPECIFICATION FairReviewSpec
CHECK_DEADLOCK FALSE
PROPERTIES DueIsReviewed
