\* Three holders, one market, no income: a round while members leave and come.
SPECIFICATION Spec
CONSTANTS
  alice = alice
  bob = bob
  carol = carol
  vA = vA
  vB = vB
  expScale = 10
  Users <- MCThreeUsers
  Markets <- MCOneMarket
  ScoreOf <- MCScoreOf
  STAKING_PERIOD = 1
  MINIMUM_STAKED_XVS = 1
  MAXIMUM_XVS_CAP = 3
  Stakes = {0, 3}
  Capitals = {3}
  Multipliers = {1}
  Alphas = {1, 2}
  Limits = {3}
  Speeds = {}
  Fundings = {}
  StakedTimes = {}
  InitialMarkets <- MCOneMarket
  InitialLimit = 3
  MaxTime = 1
  MaxRounds = 1
  MaxIncome = 0
SYMMETRY MCSymmetry3
INVARIANT OutdatedArePending
CHECK_DEADLOCK FALSE
