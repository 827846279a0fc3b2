SPECIFICATION FairSpec
CONSTANTS
  Peers <- TwoPeers
  Starts <- BehindOrEmpty
  Corrupt = {"b"}
  IdsLimit = 3
  MinPrefetch = 2
  MaxPerPeer = 1
  MaxHandle = 1
  MaxPrefetch = 1
  MaxItems = 1
  NoPeer = "none"
  MaxBlock = 4
  MaxConnects = 1
  MaxEvents = 1
INVARIANTS TypeOK RequestedOnce
PROPERTIES SyncCompletes
CHECK_DEADLOCK FALSE
