SPECIFICATION Spec
CONSTANTS
  d1 = d1
  d2 = d2
  f1 = f1
  f2 = f2
  p1 = p1
  Doc = {d1, d2}
  LastDay = 2
  Day <- SameDay
  AtOnce = {d1}
  Full = {f1, f2}
  Process = {p1}
  ProcessOf <- OneProcess
  Increment = {}
  CheckEvery = 2
  SkipsFailed = TRUE
  MaxFaults = 1
INVARIANTS TypeOK NotTwice
PROPERTIES FullCountsEach
CHECK_DEADLOCK FALSE
