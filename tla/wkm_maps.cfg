\* Two contexts that may share an id; removals overlap, and requests of a mapping
\* still in use do not.
SPECIFICATION Spec
CONSTANTS
  t1 = t1
  t2 = t2
  t3 = t3
  c1 = c1
  c2 = c2
  i1 = i1
  i2 = i2
  w1 = w1
  w2 = w2
  e1 = e1
  e2 = e2
  Threads = {t1, t2, t3}
  Contexts = {c1, c2}
  Ids = {i1, i2}
  Handle = {w1, w2}
  Entry = {e1, e2}
  NoId = NoId
  NoContext = NoContext
  NoHandle = NoHandle
  NoEntry = NoEntry
  Mappable <- MCMappable
  ReuseIds = TRUE
  Overlaps = {"remove"}
  AppendMayFail = FALSE
SYMMETRY MCSymmetry
CHECK_DEADLOCK FALSE
INVARIANT RefCountIsHolders
INVARIANT MappingsAreRecorded
