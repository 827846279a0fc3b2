SPECIFICATION Spec
CONSTANTS
  Account = {1, 2, 3}
  GenesisDelegates = {1, 2}
  Slates <- DeSlates
  NumDelegates = 2
  BlocksPerTwoWeeks = 2
  PayStart = 2
  PayPeriod = 1
  FirstPay = 2
  PayTable <- DePayTable
  Rates = {50, 100}
  Genesis = 3
  Absent = Absent
  MaxAmount = 1
  MaxOps = 1
  MaxTime = 5
  MaxBlocks = 4
INVARIANTS TypeOK SupplyConserved VotesFollowStake VoteSetMatches SlotsCounted
PROPERTIES BestVotedSign
