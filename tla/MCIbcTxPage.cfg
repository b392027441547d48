SPECIFICATION Spec
CONSTANTS
  d1 = d1
  d2 = d2
  k1 = k1
  k2 = k2
  latest1 = latest1
  latest2 = latest2
  history1 = history1
  osmo = osmo
  juno = juno
  atom = atom
  usdc = usdc
  Doc <- MCTwo
  KeyOf <- MCTwoKeys
  OutcomeOf <- MCTwoOutcomes
  DenomOf <- MCDenomOf
  Home = {}
  ToNewChain = {}
  SourceHash = {}
  Relate <- MCTwoRelate
  Target <- MCTwoTarget
  PageLimit = 2
  MaxRelate = 3
  Keep = 0
  MigrateLimit = 1
  NoDoc = NoDoc
  MaxFaults = 1
INVARIANTS
  DenomRegistered
  SettledAsOnChain
