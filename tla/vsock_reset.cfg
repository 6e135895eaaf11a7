\* A client calls connect again after it was refused: a reset for a pending child.
SPECIFICATION HandshakeSpec
CONSTANTS
  Clients = {c1, c2}
  Children = {s1, s2}
  Listener = listener
  NoClient = noclient
  MaxBacklog = 1
  MaxConnects = 2
  May = {}
INVARIANTS
  RefCountIsHolders
\* Everybody may have gone in the end.
CHECK_DEADLOCK FALSE
