SPECIFICATION FairSpec
CONSTANTS
  r1 = r1
  r2 = r2
  t1 = t1
  t2 = t2
  t3 = t3
  t4 = t4
  atom = atom
  osmo = osmo
  Run <- MCRun
  Tx <- MCTxOfTwoBlocks
  HeightOf <- MCHeightOfTwoBlocks
  DenomOf <- MCDenomOf
  Unregistered <- MCUnregistered
  PageLimit = 2
  MaxParse = 2
  MaxHeight = 2
  MaxLag = 1
  MaxReverts = 1
  MaxFaults = 1
PROPERTIES
  EveryTxStored
