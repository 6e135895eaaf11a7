\* A context is freed while another one detaches.
SPECIFICATION Spec
CONSTANTS
  c1 = c1
  c2 = c2
  c3 = c3
  c4 = c4
  e1 = e1
  e2 = e2
  Contexts = {c1, c2, c3, c4}
  Entries = {e1, e2}
  NoContext = nocontext
  NoEntry = noentry
  FreeAlone = FALSE
SYMMETRY MCSymmetry
INVARIANTS
  PeerIsKnown
\* All contexts may close.
CHECK_DEADLOCK FALSE
