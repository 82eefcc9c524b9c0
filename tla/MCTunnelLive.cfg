\* Two visitors that contend for one id, timeouts and broken sessions, one frame that
\* finds the connection full.
SPECIFICATION FairSpec
CONSTANTS
  v1 = v1
  v2 = v2
  Visitors = {v1, v2}
  NoVisitor = NoVisitor
  Jobs = {1, 2, 3}
  NoJob = NoJob
  Precedes <- InOrder
  IdMod = 1
  ChanCap = 1
  MaxBlocked = 1
  Faults = {"session"}
CHECK_DEADLOCK FALSE
INVARIANT HangsOnlyWhenExhausted
PROPERTIES VisitorsResolved SessionsEndTogether
