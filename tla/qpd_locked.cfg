\* Four contexts share one queue pair; each is freed while nobody else calls.
SPECIFICATION Spec
CONSTANTS
  c1 = c1
  c2 = c2
  c3 = c3
  c4 = c4
  e1 = e1
  e2 = e2
  Contexts = {c1, c2, c3, c4}
  Entries = {e1, e2}
  NoContext = nocontext
  NoEntry = noentry
  FreeAlone = TRUE
SYMMETRY MCSymmetry
INVARIANTS
  TypeOK
  NoUseAfterFree
  PeerIsKnown
PROPERTIES
  ImplementsPairing
\* All contexts may close.
CHECK_DEADLOCK FALSE
