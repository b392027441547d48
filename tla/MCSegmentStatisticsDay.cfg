SPECIFICATION FairSpec
CONSTANTS
  d1 = d1
  d2 = d2
  f1 = f1
  f2 = f2
  p1 = p1
  Doc = {d1, d2}
  LastDay = 2
  Day <- TwoDays
  AtOnce = {d1}
  Full = {f1}
  Process = {p1}
  ProcessOf <- OneProcess
  Increment = {i1}
  CheckEvery = 2
  SkipsFailed = FALSE
  MaxFaults = 1
PROPERTIES CountedStays RecentCounted
CHECK_DEADLOCK FALSE
