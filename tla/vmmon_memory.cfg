\* Two machines, a processor thread that serves either, two frames; all limits
\* and failures.
SPECIFICATION Spec
CONSTANTS
  VMs = {a, b}
  NoVM = NoVM
  MaxVMs = 2
  Driver = driver
  VcpuThreads = {t1}
  Vpns = {x}
  UserPages = {p1}
  Frames = {f1, f2}
  NoPage = NoPage
  Limits = {3}
  HostLimits = {0, 3}
  Admissions <- MCAdmissions
  Deltas <- MCDeltas
  MaxUsage = 2
  MaxPages = 2
  Retries = 2
SYMMETRY MCSymmetry
INVARIANTS
  LockedPagesAccounted
  TrackersHoldPages
  AdmittedFit
