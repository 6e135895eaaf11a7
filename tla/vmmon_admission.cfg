\* Three machines that are admitted, readmitted and released; no pages move.
SPECIFICATION Spec
CONSTANTS
  VMs = {a, b, c}
  NoVM = NoVM
  MaxVMs = 3
  Driver = driver
  VcpuThreads = {}
  Vpns = {}
  UserPages = {}
  Frames = {}
  NoPage = NoPage
  Limits = {2, 4}
  HostLimits = {4}
  Admissions <- MCOverheads
  Deltas <- MCDeltas
  MaxUsage = 3
  MaxPages = 1
  Retries = 1
SYMMETRY MCMachines
INVARIANTS TypeOK LockedPagesAccounted TrackersHoldPages AdmittedFit IdListsAreRight
