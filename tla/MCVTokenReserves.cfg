\* Are the reserves held in the market?
SPECIFICATION Spec
CONSTANTS
  alice = alice
  bob = bob
  Accounts <- MCAccounts
  expScale = 10
  initialExchangeRateMantissa = 20
  borrowRateMaxMantissa = 3
  BorrowRates = {0, 3, 4}
  Amounts = {1, 4, 5}
  ReserveFactors = {5}
  BlockDeltas = {2}
  Allowances = {}
  Unlimited = Unlimited
  StartBlock = 1
  MaxBlock = 2
  MaxUnderlying = 5
SYMMETRY MCSymmetry
INVARIANTS ReservesHeld
CHECK_DEADLOCK FALSE
