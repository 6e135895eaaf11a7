\* A mapping is requested again while its removal is under way.
SPECIFICATION Spec
CONSTANTS
  t1 = t1
  t2 = t2
  c1 = c1
  i1 = i1
  w1 = w1
  e1 = e1
  e2 = e2
  Threads = {t1, t2}
  Contexts = {c1}
  Ids = {i1}
  Handle = {w1}
  Entry = {e1, e2}
  NoId = NoId
  NoContext = NoContext
  NoHandle = NoHandle
  NoEntry = NoEntry
  Mappable <- MCMappable
  ReuseIds = FALSE
  Overlaps = {"request"}
  AppendMayFail = FALSE
SYMMETRY MCSymmetry
CHECK_DEADLOCK FALSE
INVARIANT UnlinksItsEntry
