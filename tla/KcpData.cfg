\* A link in use for long: its sequence numbers are about to wrap, and its
\* window is smaller than what there is to send.  Nobody closes it.
SPECIFICATION FairSpec
CONSTANTS
  SndWnd = 2
  RcvWnd = 3
  WndRcv = 3
  DeadLink = 4
  SnMod = 16
  Messages <- FourUnits
  Closers = {}
  BufSizes = {1}
  Start = 15
  Faults = {"lose", "repeat", "reorder", "early"}
  MaxFaults = 1
  Backlog = 1
CHECK_DEADLOCK FALSE
INVARIANTS TypeOK NothingForgotten
PROPERTIES KeepsPromise Delivers
