\* Three threads and one file: processes are made, sent to, read, polled and
\* closed, and made again; the copy to the user may fail; fair.
SPECIFICATION FairSpec
CONSTANTS
  Threads = {t1, t2, t3}
  Files = {f1}
  Handle = {h1}
  Entry = {e1}
  NoFile = nofile
  NoHandle = nohandle
  NoEntry = noentry
  Sizes = {1, 2}
  MaxQueue = 3
  May = {"copy_fails"}
INVARIANTS
  NoUseAfterFree
PROPERTIES
  CallsReturn
\* Everybody may wait for the lock of a file that nobody unlocks, see CreatesReturn.
CHECK_DEADLOCK FALSE
