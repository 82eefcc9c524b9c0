\* Every fault, peers lost without a trace at any point included, and a limit on
\* retries: the session comes back, or the client exits, or a wait has no timer.
SPECIFICATION FairSpec
CONSTANTS
  c1 = c1
  c2 = c2
  Conns = {c1, c2}
  NoConn = NoConn
  Limits = {{}, {1}}
  RetryCap = 2
  Faults = {"reset", "cutsetup", "cut", "crash", "restart", "config"}
  MaxFaults = 3
CHECK_DEADLOCK FALSE
INVARIANTS TypeOK ServesOnlyWhenReady
PROPERTIES RecoversUnlessStuck
