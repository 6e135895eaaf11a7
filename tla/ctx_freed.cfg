\* Two contexts, two threads, fair: a closed context is freed in the end.
SPECIFICATION FairSpec
CONSTANTS
  Threads = {t1, t2}
  Contexts = {c1, c2}
  Ids = {i1, i2}
  NoId = noid
  NoContext = nocontext
  Sizes = {1}
  EventSize = 1
  MaxQueue = 2
  MaxQueueEvents = 2
  Privileges <- MCNone
  ReuseIds = FALSE
  ReuseMemory = FALSE
  Calls = {"send", "subscribe", "unsubscribe"}
  OneSetNotify = TRUE
PROPERTIES
  ClosedContextsAreFreed
\* Every slot is used once.
CHECK_DEADLOCK FALSE
