\* Three contexts that take over two ids, two threads: who holds whom
\* while contexts close and the frees fire events into one another.
SPECIFICATION Spec
CONSTANTS
  Threads = {t1, t2}
  Contexts = {c1, c2, c3}
  Ids = {i1, i2}
  NoId = noid
  NoContext = nocontext
  Sizes = {1}
  EventSize = 1
  MaxQueue = 1
  MaxQueueEvents = 3
  Privileges <- MCNone
  ReuseIds = TRUE
  ReuseMemory = FALSE
  Calls = {"send", "receive", "subscribe", "unsubscribe"}
  OneSetNotify = TRUE
SYMMETRY MCSymmetry
INVARIANTS
  RefCountIsHolders
  RemovalsAreTrue
\* Every slot is used once.
CHECK_DEADLOCK FALSE
