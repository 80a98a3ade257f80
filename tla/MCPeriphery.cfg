\* Redemptions that fail, in chunks shorter than the queue; rewards that come in
\* every order, with rounding that favours either side; and deposits with
\* interest that is not always funded.
SPECIFICATION MCSpec
CONSTANTS
  v1 = v1
  v2 = v2
  v3 = v3
  alice = alice
  bob = bob
  VTokens <- MCVTokens
  Accounts <- MCAccounts
  expScale = 4
  Amounts = {4}
  Incentives = {5, 6}
  TreasuryPercents = {2, 4}
  ChunkLengths = {1, 2}
  LiquidatorShares = {0, 2}
  MaxCash = 2
  MaxHeld = 2
  MaxRepay = 15
  Deposits = {1, 2}
  Rewards = {1}
  Rates = {1, 2}
  MinReleases = {0, 2}
  Blocks = {2, 3, 5}
  interestRatePerBlock = 3
  MaxBlock = 5
  MaxVAI = 4
  MaxXVS = 4
  MaxResized = 4
  MaxVRT = 4
  MaxReceived = 3
INVARIANTS LedgersAgree RewardsCovered LiquidatorsNeverLose
PROPERTIES EarningsKept InterestIsTime NothingForgotten RedemptionsComplete
CHECK_DEADLOCK FALSE
