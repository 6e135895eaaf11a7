\* Three files on two networks, one interface to bridge to, two jacks a hub.
SPECIFICATION Spec
CONSTANTS
  Files = {f1, f2, f3}
  Ports = {p1, p2, p3}
  Interfaces = {eth0}
  Hubs = {h1, h2, h3}
  Numbers = {n0, n1}
  JackCount = 2
  NoFile = nofile
  NoPort = noport
  NoInterface = nointerface
  NoHub = nohub
  NoNumber = nonumber
  InitAlone = TRUE
  AllocMayFail = FALSE
INVARIANTS
  PortsAreNotified
  HubsHaveJacks
PROPERTIES
  ImplementsSwitchboard
SYMMETRY MCSymmetry
