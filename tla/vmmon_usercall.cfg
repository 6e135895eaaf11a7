\* Two processors and the VMX, which does not act on a request too early; fair.
SPECIFICATION UserCallFairSpec
CONSTANTS
  Vcpus = {v1, v2}
  NoVcpu = NoVcpu
  SeesAnnounced = TRUE
INVARIANTS
  PendingCountsCalls
  WakeupsAreNotLost
  AssertionsHold
PROPERTIES
  ImplementsUserCalls
