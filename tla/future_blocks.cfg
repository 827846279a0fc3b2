SPECIFICATION Spec
CONSTANTS
  Block <- FuBlock
  Genesis = "g"
  NoBlock = "none"
  Prev <- FuPrev
  Num <- FuNum
  Time <- FuTime
  Branch <- FuBranch
  Good <- FuBlock
  MaxUndo = 2
  Drift = 1
  Retention = 2
  MaxClock = 3
INVARIANTS HeadBranchAccepted 
