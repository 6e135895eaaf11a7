\* Three bytes of ring, two of them usable; receives that do not wait ask for one
\* byte, which never raises the window.  Fair.
SPECIFICATION FairSpec
CONSTANTS
  QueueSize = 3
  PageSize = 2
  Word = 8
  Numbers = 2
  MaxSend = 2
  HasteFor = {1}
INVARIANTS
  WaitsAreAnsweredOnce
  HeldUpByWindow
PROPERTIES
  ImplementsStream
  OneReturns
CHECK_DEADLOCK FALSE
