CONSTANTS
  p1 = p1
  p2 = p2
  p3 = p3
  p4 = p4
  Peers <- MCPeers
  Byzantine <- MCByzantine
  Prefix <- MCPrefix
  MIN_PEERS = 3
  QUORUM = 2
  SAFETY_MARGIN = 1
  HeaderLens = {0, 1, 3}
SPECIFICATION FairSpec
INVARIANTS TypeOK SyncAcceptsOnlyTrue
PROPERTY SyncImplementsAbstract
CHECK_DEADLOCK FALSE
