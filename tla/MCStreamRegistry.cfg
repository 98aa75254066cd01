CONSTANTS
  r1 = r1  r2 = r2  c1 = c1  c2 = c2  t1 = t1
  Runs = {r1, r2}
  Clients = {c1, c2}
  Texts = {t1}
  NoRun = NoRun
  NoEvent = NoEvent
  Ttl = 1
  MaxEvents = 2
SPECIFICATION FairSpec
CHECK_DEADLOCK FALSE
INVARIANTS FeedIsComplete
PROPERTIES StreamLogSpec OpenStreamsEnd
