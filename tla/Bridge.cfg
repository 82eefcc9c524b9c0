SPECIFICATION FairSpec
CONSTANTS
  ctl = ctl
  d1 = d1
  Control = ctl
  Data = {d1}
  Links = {ctl, d1}
  MaxSend = 1
  Faults = {"fail", "early"}
CHECK_DEADLOCK FALSE
INVARIANTS BoundIsListening EofComplete
PROPERTIES EndsAll
