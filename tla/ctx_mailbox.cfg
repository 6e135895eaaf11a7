\* Two contexts of every privilege, two threads: senders, receivers, pollers,
\* subscribers and the setup of notification interleave on mailboxes with room
\* for one datagram and one event.
SPECIFICATION Spec
CONSTANTS
  Threads = {t1, t2}
  Contexts = {c1, c2}
  Ids = {i1, i2}
  NoId = noid
  NoContext = nocontext
  Sizes = {1}
  EventSize = 1
  MaxQueue = 2
  MaxQueueEvents = 3
  Privileges <- MCAny
  ReuseIds = FALSE
  ReuseMemory = FALSE
  Calls = {"send", "receive", "subscribe", "unsubscribe", "poll", "set_notify"}
  OneSetNotify = TRUE
SYMMETRY MCSymmetry
INVARIANTS
  DatagramsRespectPrivileges
  EventsRespectPrivileges
  NotifyWhilePending
  PollersAreWoken
  RefCountIsHolders
  RemovalsAreTrue
\* Every slot is used once.
CHECK_DEADLOCK FALSE
