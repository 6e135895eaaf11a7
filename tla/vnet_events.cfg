\* Two bridges, two listeners and two readers; the hub goes at any time; fair.
SPECIFICATION EventFairSpec
CONSTANTS
  Senders = {s1, s2}
  Listeners = {l1, l2}
  Readers = {r1, r2}
  ReadFrom = {l1}
  Hub = hub
  Nobody = nobody
  MaxSends = 2
  HandlerMayFail = FALSE
INVARIANTS
  MechanismOutlivesUsers
PROPERTIES
  ImplementsFeed
  ReadersReturn
\* Everybody may be gone in the end.
CHECK_DEADLOCK FALSE
