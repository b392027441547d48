SPECIFICATION Spec
CONSTANTS
  d1 = d1
  d2 = d2
  k1 = k1
  k2 = k2
  latest1 = latest1
  latest2 = latest2
  history1 = history1
  osmo = osmo
  juno = juno
  atom = atom
  usdc = usdc
  Doc <- MCOne
  KeyOf <- MCOneKey
  OutcomeOf <- MCOneOutcome
  DenomOf <- MCDenomOf
  Home = {}
  ToNewChain = {d1}
  SourceHash = {}
  Relate <- MCRelate
  Target <- MCTarget
  PageLimit = 2
  MaxRelate = 3
  Keep = 0
  MigrateLimit = 1
  NoDoc = NoDoc
  MaxFaults = 2
INVARIANTS
  TypeOK
  NothingLost
  MovedNotCopied
  AddedChainReachesAll
PROPERTIES
  SettledStays
SYMMETRY MCSymmetry
