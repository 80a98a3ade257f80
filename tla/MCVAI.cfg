\* VAI that is minted, repaid, liquidated and swapped.
SPECIFICATION MCSpec
CONSTANTS
  alice = alice
  bob = bob
  treasury = treasury
  Accounts <- MCAccounts
  PoolIds = {0, 1}
  CORE_POOL_ID = 0
  expScale = 10
  blocksPerYear = 1
  closeFactorMantissa = 5
  BASIS_POINTS_DIVISOR = 4
  Amounts = {2, 5}
  Collaterals = {10}
  Prices = {8, 12}
  Rates = {0, 3}
  MintCaps = {6, 8}
  TreasuryPercents = {0, 5}
  Fees = {0, 1}
  MaxBlock = 4
  MaxStable = 7
INVARIANTS SupplyIsOwed PegCovered
PROPERTY DebtsFollowPayments
CHECK_DEADLOCK FALSE
