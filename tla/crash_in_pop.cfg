SPECIFICATION Spec
CONSTANTS
  Block <- LeBlock
  Genesis = "g"
  NoBlock = "none"
  Prev <- LePrev
  Num <- LeNum
  Branch <- LeBranch
  Key <- LeKey
  Value = {1}
  Absent = 0
  GenesisLedger <- LeLedger
  NoUndo = NoUndo
  CrashInSwitch = TRUE
INVARIANT LedgerIsHeads
CONSTRAINT Followed
