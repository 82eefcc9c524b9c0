SPECIFICATION FairSpec
CONSTANTS
  a1 = a1
  a2 = a2
  Assocs = {a1, a2}
  t1 = t1
  t2 = t2
  Targets = {t1, t2}
  MaxAsk = 2
  Faults = {"lose", "repeat", "bad", "fail", "deaf"}
  MaxFaults = 2
CHECK_DEADLOCK FALSE
INVARIANTS FoundByAnswer NoEntryLeft
PROPERTIES AnswersOwn HangupEnds TakesAll
