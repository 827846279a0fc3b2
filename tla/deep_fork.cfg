SPECIFICATION Spec
CONSTANTS
  Block <- DeBlock
  Genesis = "g"
  NoBlock = "none"
  Prev <- DePrev
  Num <- DeNum
  Time <- DeNum
  Branch <- DeBranch
  Good <- DeBlock
  MaxUndo = 2
  Drift = 5
  Retention = 2
  MaxClock = 0
INVARIANT UndoAvailable
