---------------------------- MODULE MCComptroller ----------------------------
(* Governance changes what alice is using, the pools she borrows in or the  *)
(* listing of her market; bob liquidates in both pools, by force too; or    *)
(* two accounts use two markets of the core pool in every order.            *)
EXTENDS Comptroller

CONSTANTS alice, bob, vA, vB

VARIABLE scenario

MCAccounts == {alice, bob}
MCVTokens == {vA, vB}

\* Collateral factor 0.5, liquidation threshold 0.8, incentive 1.5.
coreConfig ==
  [isListed |-> TRUE, isBorrowAllowed |-> TRUE, collateralFactorMantissa |-> 5,
   liquidationThresholdMantissa |-> 8, liquidationIncentiveMantissa |-> 15]

\* More may be borrowed in the pool, and liquidators earn nothing there.
poolConfig ==
  [coreConfig EXCEPT !.collateralFactorMantissa = 8,
                     !.liquidationThresholdMantissa = 9,
                     !.liquidationIncentiveMantissa = 10]

absent == [v \in VTokens |-> notListed]

\* Nothing listed; both markets in the core pool; both in both pools.
MCNoMarkets == [p \in Pools |-> absent]
MCCoreMarkets ==
  [p \in Pools |-> IF p = corePoolId THEN [v \in VTokens |-> coreConfig] ELSE absent]
MCBothPools ==
  [p \in Pools |->
     [v \in VTokens |-> IF p = corePoolId THEN coreConfig ELSE poolConfig]]

MCNoPools == [p \in Pools |-> [isActive |-> FALSE, allowCorePoolFallback |-> FALSE]]
MCOnePool ==
  [p \in Pools |-> [isActive |-> p # corePoolId, allowCorePoolFallback |-> FALSE]]

\* No deposits; four units of vA by alice and two of vB by bob.
MCEmpty == [v \in VTokens |-> initialMarket(1)]
deposit(m, a, n) == mintFresh(m, a, n)
MCDeposits ==
  [v \in VTokens |-> IF v = vA THEN deposit(initialMarket(1), alice, 4)
                               ELSE deposit(initialMarket(1), bob, 2)]
MCOwnDeposits ==
  [v \in VTokens |-> deposit(initialMarket(1), alice, IF v = vA THEN 4 ELSE 2)]

\* A unit of either underlying is worth 2.
MCPrices == [v \in VTokens |-> 20]

\* vA is collateral; vB, of which there is less, is lent out.
MCSupplyCaps == [v \in VTokens |-> IF v = vA THEN 4 ELSE 2]
MCBorrowCaps == [v \in VTokens |-> IF v = vA THEN 0 ELSE 2]
MCNoCaps == [v \in VTokens |-> 0]

\* The second pair of MCPoolFactors is refused.
MCPoolFactors == {<<8, 9>>, <<10, 5>>}
MCListingFactors == {<<0, 0>>, <<5, 8>>}

MCInit ==
  \/ /\ scenario = "pools"
     /\ InitWith(MCOwnDeposits, MCCoreMarkets, MCNoPools, MCSupplyCaps, MCBorrowCaps)
  \/ /\ scenario = "listing"
     /\ InitWith(MCEmpty, MCNoMarkets, MCNoPools, MCNoCaps, MCNoCaps)
  \/ /\ scenario = "liquidation"
     /\ InitWith(MCDeposits, MCBothPools, MCOnePool, MCSupplyCaps, MCBorrowCaps)
  \/ /\ scenario = "positions"
     /\ InitWith(MCEmpty, MCCoreMarkets, MCNoPools, MCSupplyCaps, MCBorrowCaps)

MembershipOf(a) == \E v \in VTokens : EnterMarket(a, v) \/ ExitMarket(a, v)
PoolChoiceOf(a) == \E pool \in Pools : EnterPool(a, pool)

\* A pool that governance sets up and changes.
PoolsNext ==
  \/ \E v \in VTokens : Borrow(alice, v, 2) \/ RepayBorrow(alice, v, 2) \/ Redeem(alice, v, 2)
  \/ MembershipOf(alice) \/ PoolChoiceOf(alice) \/ CreatePool
  \/ \E pool \in Pools \ {corePoolId}, v \in VTokens, flag \in BOOLEAN :
       \/ AddPoolMarket(pool, v) \/ RemovePoolMarket(pool, v)
       \/ SetPoolActive(pool, flag) \/ SetAllowCorePoolFallback(pool, flag)
       \/ SetIsBorrowAllowed(pool, v, flag)
       \/ \E f \in MCPoolFactors : SetCollateralFactor(pool, v, f[1], f[2])
       \/ \E i \in Incentives : SetLiquidationIncentive(pool, vA, i)

\* vA is listed, configured, paused and unlisted; vB never is.
ListingNext ==
  /\ \/ AccrueInterest(vA) \/ Mint(alice, vA, 2)
     \/ Redeem(alice, vA, 2) \/ RedeemUnderlying(alice, vA, 2)
     \/ Borrow(alice, vA, 2) \/ RepayBorrow(alice, vA, 2)
     \/ MembershipOf(alice) \/ ListingStep \/ RiskStep
     \/ SetCloseFactor(2) \/ \E state \in BOOLEAN : SetProtocolPaused(state)
     \/ NextBlock
  /\ vB \notin allMarkets' /\ supplyCaps'[vB] = 0
  /\ borrowCaps'[vB] = 0 /\ _actionPaused'[vB] = {}

\* Borrowers in both pools, liquidators with and without force, in one block.
LiquidationNext ==
  \/ \E a \in Accounts, v \in VTokens, n \in Amounts :
       Borrow(a, v, n) \/ RepayBorrow(a, v, n)
  \/ LiquidationStep \/ MembershipOf(alice) \/ PoolChoiceStep
  \/ \E enable \in BOOLEAN :
       \/ SetForcedLiquidation(vB, enable)
       \/ SetForcedLiquidationForUser(alice, vB, enable)
  \/ \E v \in VTokens, price \in Prices : SetPrice(v, price)

\* Positions in the core pool, in one block; bob lends and liquidates alice, and
\* governance is silent.
PositionsNext ==
  \/ \E v \in VTokens, n \in Amounts :
       \/ Mint(alice, v, n) \/ Redeem(alice, v, n) \/ RedeemUnderlying(alice, v, n)
       \/ Borrow(alice, v, n) \/ RepayBorrow(alice, v, n)
       \/ Transfer(alice, bob, v, n) \/ Transfer(bob, alice, v, n)
  \/ \E v \in VTokens :
       Mint(bob, v, 2) \/ Redeem(bob, v, 2) \/ LiquidateBorrow(bob, alice, v, vA, 1)
  \/ MembershipStep
  \/ \E v \in VTokens, price \in Prices : SetPrice(v, price)

MCNext ==
  /\ UNCHANGED scenario
  /\ \/ scenario = "pools" /\ PoolsNext
     \/ scenario = "listing" /\ ListingNext
     \/ scenario = "liquidation" /\ LiquidationNext
     \/ scenario = "positions" /\ PositionsNext

MCSpec == MCInit /\ [][MCNext]_<<vars, scenario>>
=============================================================================
