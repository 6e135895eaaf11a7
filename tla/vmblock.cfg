\* Two lookups and two threads that block, unblock and close, on two blocks,
\* fair.
SPECIFICATION FairSpec
CONSTANTS
  Threads = {t1, t2, t3, t4}
  Lookers = {t1, t2}
  Blockers = {b1, b2}
  Files = {f1, f2}
  Slots = {s1, s2}
  NoThread = nothread
  NoBlocker = noblocker
  NoFile = nofile
  NoSlot = noslot
INVARIANTS
  NoUseAfterFree
PROPERTIES
  ImplementsGate
  LookupsReturn
\* Every control file may be closed and nobody may come back.
CHECK_DEADLOCK FALSE
