\* Two visitors, two ids, every fault, one frame that finds the connection full:
\* crossings, late answers, lost and doubled packets.
SPECIFICATION Spec
CONSTANTS
  v1 = v1
  v2 = v2
  Visitors = {v1, v2}
  NoVisitor = NoVisitor
  j1 = j1
  j2 = j2
  j3 = j3
  Jobs = {j1, j2, j3}
  NoJob = NoJob
  Precedes <- NoOrder
  IdMod = 2
  ChanCap = 1
  MaxBlocked = 1
  Faults = {"timeout", "io", "session"}
SYMMETRY Symmetry
CHECK_DEADLOCK FALSE
INVARIANTS
  TypeOK
  RouteCorrect
  RefusalCorrect
  DistinctIds
PROPERTIES
  FreedByAnswer
  KeepsPromise
