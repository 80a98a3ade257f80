\* Pools that change under a borrower; a market that is listed, paused and
\* unlisted while in use; liquidations in two pools, some of them forced; and
\* positions in the core pool.
SPECIFICATION MCSpec
CONSTANTS
  alice = alice
  bob = bob
  vA = vA
  vB = vB
  Accounts <- MCAccounts
  VTokens <- MCVTokens
  MaxPoolId = 1
  expScale = 10
  initialExchangeRateMantissa = 10
  borrowRateMaxMantissa = 5
  BorrowRates = {0, 5}
  Amounts = {1, 2}
  Prices = {10, 20}
  RiskFactors <- MCListingFactors
  Incentives = {10}
  Caps = {0, 4}
  PausableActions = {"SEIZE"}
  InitialMarkets <- MCOwnDeposits
  InitialPoolMarkets <- MCCoreMarkets
  InitialPools <- MCNoPools
  InitialSupplyCaps <- MCSupplyCaps
  InitialBorrowCaps <- MCBorrowCaps
  InitialPrices <- MCPrices
  InitialCloseFactor = 5
  MaxBlock = 2
  MaxUnderlying = 4
INVARIANTS PositionsCounted BorrowableIsNotLiquidatable UnlistedStaysFrozen
PROPERTIES SafeStaysSafe PoolDebtsAllowed LiquidationFair
CHECK_DEADLOCK FALSE
