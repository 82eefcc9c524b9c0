\* Either end may close, at any time: closes that cross, closes whose segments
\* are lost, peers that die or have forgotten the conversation.
SPECIFICATION FairSpec
CONSTANTS
  SndWnd = 1
  RcvWnd = 2
  WndRcv = 2
  DeadLink = 2
  SnMod = 8
  Messages <- Single
  Closers = {"a", "b"}
  BufSizes = {1}
  Start = 0
  Faults = {"lose", "crash", "restart", "io"}
  MaxFaults = 1
  Backlog = 0
CHECK_DEADLOCK FALSE
PROPERTIES KeepsPromise CloseEnds CloseReleases
