SPECIFICATION FairSpec
CONSTANTS
  Block <- FcBlock
  Genesis = "g"
  NoBlock = "none"
  Prev <- FcPrev
  Num <- FcNum
  Time <- FcNum
  Branch <- FcBranch
  Good <- FcGood
  MaxUndo = 3
  Drift = 5
  Retention = 2
  MaxClock = 0
INVARIANTS TypeOK MainChainConsistent UndoAvailable HeadIsLongest LinkedComplete ValidOnValidBranch
PROPERTIES PushReturns PublicHead
