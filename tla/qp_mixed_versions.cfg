\* Guests of both versions: pages pinned for one end, last detach by the other.
SPECIFICATION Spec
CONSTANTS
  g1 = g1
  g2 = g2
  g3 = g3
  i1 = i1
  i2 = i2
  h1 = h1
  h2 = h2
  Guest = {g1, g2}
  Host = host
  GuestCid = {i1, i2}
  HostCid = hostcid
  NoId = noid
  Handle = {h1}
  HandleContext <- MCHandleContext
  Size = {1}
  HostQPSupport <- MCBoth
  Restrictions <- MCNever
  ArrayCapacity = 4
  AppendMayFail = FALSE
  GupMayFault = FALSE
SYMMETRY MCSymmetry
INVARIANTS
  PinsBalanced
\* The kernel stops where HostAttachNull faults.
CHECK_DEADLOCK FALSE
