\* Two clients, one place in the backlog; a client loses patience only when the
\* ATTACH is on its way.  Fair.
SPECIFICATION HandshakeFairSpec
CONSTANTS
  Clients = {c1, c2}
  Children = {s1, s2}
  Listener = listener
  NoClient = noclient
  MaxBacklog = 1
  MaxConnects = 1
  May = {"lapse"}
INVARIANTS
  RefCountIsHolders
  BacklogCountsWaiting
  HalfOpenIsNoticed
PROPERTIES
  ConnectsReturn
  ChildrenAreFreed
\* Everybody may have gone in the end.
CHECK_DEADLOCK FALSE
