\* Three guests that take over each other's ids, all with host queue pair
\* support, and one handle named after a guest; fair.
SPECIFICATION FairSpec
CONSTANTS
  g1 = g1
  g2 = g2
  g3 = g3
  i1 = i1
  i2 = i2
  h1 = h1
  h2 = h2
  Guest = {g1, g2, g3}
  Host = host
  GuestCid = {i1, i2}
  HostCid = hostcid
  NoId = noid
  Handle = {h1}
  HandleContext <- MCHandleContext
  Size = {0, 1}
  HostQPSupport <- MCAlways
  Restrictions <- MCBoth
  ArrayCapacity = 4
  AppendMayFail = FALSE
  GupMayFault = FALSE
INVARIANTS
  RefCountsEnds
  PairsArePermitted
  PinsBalanced
PROPERTIES
  ImplementsPairing
  OrphansAreFreed
\* The kernel stops where HostAttachNull faults.
CHECK_DEADLOCK FALSE
