SPECIFICATION Spec
CONSTANTS
  r1 = r1
  r2 = r2
  t1 = t1
  t2 = t2
  t3 = t3
  t4 = t4
  atom = atom
  osmo = osmo
  Run <- MCRun
  Tx <- MCTx
  HeightOf <- MCHeightOf
  DenomOf <- MCDenomOf
  Unregistered <- MCUnregistered
  PageLimit = 2
  MaxParse = 3
  MaxHeight = 3
  MaxLag = 1
  MaxReverts = 1
  MaxFaults = 2
INVARIANTS
  TypeOK
  NoTxLost
  DenomBeforeTx
  CopiesNeedFaults
SYMMETRY MCSymmetry
