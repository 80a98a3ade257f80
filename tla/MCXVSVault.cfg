\* Old requests and an empty store; pools that are added and change; votes.
SPECIFICATION MCSpec
CONSTANTS
  alice = alice
  bob = bob
  xvsToken = xvsToken
  other = other
  Users <- MCUsers
  xvs = xvsToken
  ZeroAddress = ZeroAddress
  Tokens <- MCTokens
  accScale = 10
  MaxPools = 2
  Amounts = {1, 2}
  RewardRates = {10, 20}
  AllocPoints = {1, 3}
  LockPeriods = {0, 1}
  Fundings = {20}
  InitialPools <- MCNoPools
  InitialRate = 0
  InitialStore = 15
  LegacyStakes <- MCNoStakes
  LegacyRequests <- MCNoRequests
  MaxTime = 4
  MaxStake = 4
INVARIANTS BooksAgree WithdrawalsNeverStuck VotesMatchStakes PriorVotesRight
PROPERTIES EarningsKept RewardsWithinRate PastVotesFixed
CHECK_DEADLOCK FALSE
