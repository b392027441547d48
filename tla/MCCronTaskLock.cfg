SPECIFICATION FairSpec
CONSTANTS
  i1 = i1
  i2 = i2
  i3 = i3
  NoInstance = NoInstance
  Instance <- MCInstance
  Expire = 3
INVARIANTS
  TypeOK
  OverlapOnlyAfterOverrun
PROPERTIES
  TaskKeepsRunning
