\* The allocator hands out freed contexts again.
SPECIFICATION Spec
CONSTANTS
  Threads = {t1, t2}
  Contexts = {c1, c2, c3}
  Ids = {i1, i2, i3}
  NoId = noid
  NoContext = nocontext
  Sizes = {1}
  EventSize = 1
  MaxQueue = 2
  MaxQueueEvents = 3
  Privileges <- MCNone
  ReuseIds = TRUE
  ReuseMemory = TRUE
  Calls = {"send"}
  OneSetNotify = TRUE
SYMMETRY MCSymmetry
INVARIANTS
  GetReturnsLiveContexts
\* Every slot is used once.
CHECK_DEADLOCK FALSE
