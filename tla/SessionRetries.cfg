\* Two reconnect attempts allowed.
SPECIFICATION Spec
CONSTANTS
  c1 = c1
  c2 = c2
  Conns = {c1, c2}
  NoConn = NoConn
  Limits = {{2}}
  RetryCap = 2
  Faults = {}
  MaxFaults = 0
CHECK_DEADLOCK FALSE
INVARIANTS GivesUpAfterRetries
