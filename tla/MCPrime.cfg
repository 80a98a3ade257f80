\* Two holders, one market, income over time.
SPECIFICATION Spec
CONSTANTS
  alice = alice
  bob = bob
  carol = carol
  vA = vA
  vB = vB
  expScale = 10
  Users <- MCTwoUsers
  Markets <- MCOneMarket
  ScoreOf <- MCScoreOf
  STAKING_PERIOD = 1
  MINIMUM_STAKED_XVS = 1
  MAXIMUM_XVS_CAP = 2
  Stakes = {0, 3}
  Capitals = {3}
  Multipliers = {1}
  Alphas = {1}
  Limits = {2}
  Speeds = {2}
  Fundings = {3}
  StakedTimes = {1}
  InitialMarkets = {}
  InitialLimit = 1
  MaxTime = 3
  MaxRounds = 2
  MaxIncome = 3
SYMMETRY MCSymmetry
CONSTRAINT MCSettled
INVARIANTS BooksAgree InterestCovered RoundCanFinish
PROPERTIES EarnedKept
CHECK_DEADLOCK FALSE
