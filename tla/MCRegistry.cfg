CONSTANTS
  Chain <- MCChain
  Hop <- MCHop
  Root <- MCRoot
  NoChain = NoChain
  NoHop = NoHop
  Peer <- MCPeer
  Rank <- MCRank
  Cosmos = {"cosmoshub"}
  Iris = {"irishub"}
  Limit = 3
  OpenAt <- MCOpenAt
  Commits <- MCCommits
  MaxTime = 2
  MaxTxs = 1
  MaxSends = 2
  Slashed = {"y"}
  Auth <- MCAuth
  PageSize = 1
  Cases <- MCCases
SPECIFICATION FairSpec
CHECK_DEADLOCK FALSE
INVARIANTS
  TypeOK
  
  
PROPERTIES
  RegistrySettles
