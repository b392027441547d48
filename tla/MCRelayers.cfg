CONSTANTS
  Chain <- MCChain
  Address <- MCAddress
  NoAddress = NoAddress
  NoChannel = NoChannel
  NoRelayer = NoRelayer
  ChainOf <- MCChainOf
  Rank <- MCRank
  KeyOf <- MCKeyOf
  Use <- MCUse
  MaxId = 5
  MaxTime = 2
  Lookback = 1
  Cases <- MCCases
SPECIFICATION FairSpec
CHECK_DEADLOCK FALSE
INVARIANTS
  TypeOK
  SameKeySameRelayer
  GatheredIsListed
  


PROPERTIES
  FiguresSettle
