\* Interest, exchange rate, reserves and allowances of one market.
SPECIFICATION Spec
CONSTANTS
  alice = alice
  bob = bob
  Accounts <- MCAccounts
  expScale = 10
  initialExchangeRateMantissa = 15
  borrowRateMaxMantissa = 3
  BorrowRates = {0, 3, 4}
  Amounts = {1, 3}
  ReserveFactors = {5}
  BlockDeltas = {2}
  Allowances = {1, Unlimited}
  Unlimited = Unlimited
  StartBlock = 1
  MaxBlock = 3
  MaxUnderlying = 4
SYMMETRY MCSymmetry
CONSTRAINT MCApprovalsEarly
INVARIANTS TokenConservation DebtSnapshots InterestBounded
PROPERTIES RateKeptUnlessBurnt BurnCostsBelowOneToken
CHECK_DEADLOCK FALSE
