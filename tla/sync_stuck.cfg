SPECIFICATION FairSpec
CONSTANTS
  Peers <- TwoPeers
  Starts <- OnlyBehind
  Corrupt = {}
  IdsLimit = 2
  MinPrefetch = 1
  MaxPerPeer = 1
  MaxHandle = 1
  MaxPrefetch = 1
  MaxItems = 1
  NoPeer = "none"
  MaxBlock = 3
  MaxConnects = 1
  MaxEvents = 1
PROPERTIES StillNeededIsAsked
CHECK_DEADLOCK FALSE
