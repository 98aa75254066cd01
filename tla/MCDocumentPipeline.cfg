CONSTANTS
  i1 = i1  i2 = i2
  Instances = {i1, i2}
  Threads = {i1}
  Docs = {"d1", "d2"}
  MaxRequests = 1
  MaxCrashes = 1
SPECIFICATION FairSpec
CHECK_DEADLOCK FALSE
INVARIANTS DuplicatesAreRaces FilesFollowRows ProcessingIsAttended DoneHasData
PROPERTIES Settles
