SPECIFICATION FairSpec
CONSTANTS
  Block <- LeBlock
  Genesis = "g"
  NoBlock = "none"
  Prev <- LePrev
  Num <- LeNum
  Branch <- LeBranch
  Key <- LeKey
  Value = {1}
  Absent = 0
  GenesisLedger <- LeLedger
  NoUndo = NoUndo
  CrashInSwitch = FALSE
INVARIANTS TypeOK LedgerIsHeads ListsAreHeads CommittedSurvives UndoReverts
PROPERTY Recovers
CONSTRAINT Followed
