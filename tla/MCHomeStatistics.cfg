SPECIFICATION FairSpec
CONSTANTS
  d1 = d1
  d2 = d2
  Doc = {d1, d2}
  TxTime <- MCTxTime
  PathOf <- MCPathOf
  MaxTime = 2
  Keep = 0
  PageSize = 1
  Queries <- MCQueries
  NoDoc = NoDoc
  Cases <- MCCases
INVARIANTS
  TypeOK
  OvercountNeedsStaleRead
  ShownTwiceOnlyIfMoved
  
  StoredIsFound
PROPERTIES
  LiveFiguresSettle
CHECK_DEADLOCK FALSE
