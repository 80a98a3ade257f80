\* What holders earn while governance and other users move.
SPECIFICATION MCSpec
CONSTANTS
  alice = alice
  bob = bob
  vA = vA
  vX = vX
  Accounts <- MCAccounts
  VTokens <- MCVTokens
  xvsVToken <- vX
  expScale = 10
  doubleScale = 10
  initialExchangeRateMantissa = 10
  borrowRateMaxMantissa = 5
  venusVAIVaultRate = 1
  minReleaseAmount = 1
  BorrowRates = {0, 5}
  Amounts = {2}
  Speeds = {0, 2}
  Fundings = {4}
  HolderLists <- MCHolderLists
  MaxBlock = 3
  MaxUnderlying = 4
INVARIANT NeverOverpaid
PROPERTY EarnedKept
CHECK_DEADLOCK FALSE
