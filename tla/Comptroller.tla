----------------------------- MODULE Comptroller -----------------------------
(***************************************************************************)
(* Several markets under the comptroller: the entry points of VToken.sol   *)
(* with the real *Allowed hooks in place of the free choice of VToken.tla, *)
(* the memberships and pools of MarketFacet.sol and the setters of         *)
(* SetterFacet.sol.  VToken.tla covers what concerns one market only       *)
(* (reserves, donations, allowances), and it is left out here.             *)
(***************************************************************************)
EXTENDS ComptrollerPolicy

CONSTANTS
  BorrowRates, Amounts,
  Prices,               \* answers of the oracle
  RiskFactors,          \* pairs <<collateral factor, liquidation threshold>>
  Incentives, Caps,     \* values for the setters
  PausableActions,      \* the actions governance pauses one by one
  InitialMarkets, InitialPoolMarkets, InitialPools, InitialPrices,
  InitialSupplyCaps, InitialBorrowCaps,
  InitialCloseFactor,
  MaxBlock, MaxUnderlying  \* bounds of the model

ASSUME ComptrollerAssumption ==
  /\ BorrowRates \subseteq Nat /\ Amounts \subseteq Nat
  /\ Prices \subseteq Nat /\ Incentives \subseteq Nat /\ Caps \subseteq Nat
  /\ RiskFactors \subseteq Nat \X Nat
  /\ PausableActions \subseteq Action
  /\ MaxPoolId \in Nat

\* The initial markets have only been supplied to, and the initial factors have
\* passed the checks of the setter.
ASSUME InitialAssumption ==
  /\ InitialMarkets \in [VTokens -> Market]
  /\ \A v \in VTokens : /\ tokensConserved(InitialMarkets[v])
                        /\ InitialMarkets[v].borrowIndex >= expScale
                        /\ InitialMarkets[v].reduceReservesBlockNumber
                             <= InitialMarkets[v].accrualBlockNumber
                        /\ InitialMarkets[v].accrualBlockNumber <= 1
                        /\ \A a \in Accounts : InitialMarkets[v].principal[a] = 0
  /\ InitialPoolMarkets \in [Pools -> [VTokens -> PoolMarket]]
  /\ \A p \in Pools, v \in VTokens :
       InitialPoolMarkets[p][v].collateralFactorMantissa
         <= InitialPoolMarkets[p][v].liquidationThresholdMantissa
  /\ InitialPools \in [Pools -> Pool]
  /\ InitialSupplyCaps \in [VTokens -> Nat] /\ InitialBorrowCaps \in [VTokens -> Nat]
  /\ InitialPrices \in [VTokens -> Nat] /\ InitialCloseFactor \in Nat

vars == <<markets, membershipVars, poolVars, settingVars, environmentVars>>

\* The start of a model: governance has listed and configured some markets, and
\* their first suppliers may have made deposits.  Nobody has entered a market.
InitWith(initialMarkets, poolMarkets, initialPools, initialSupplyCaps, initialBorrowCaps) ==
  /\ markets = initialMarkets
  /\ accountMembership = [v \in VTokens |-> {}]
  /\ accountAssets = [a \in Accounts |-> <<>>]
  /\ userPoolId = [a \in Accounts |-> corePoolId]
  /\ _poolMarkets = poolMarkets
  /\ pools = initialPools
  /\ lastPoolId = Max({corePoolId} \cup {p \in Pools : initialPools[p].isActive})
  /\ allMarkets = {v \in VTokens : poolMarkets[corePoolId][v].isListed}
  /\ supplyCaps = initialSupplyCaps
  /\ borrowCaps = initialBorrowCaps
  /\ _actionPaused = [v \in VTokens |-> {}]
  /\ protocolPaused = FALSE
  /\ closeFactorMantissa = InitialCloseFactor
  /\ isForcedLiquidationEnabled = {}
  /\ isForcedLiquidationEnabledForUser = {}
  /\ underlyingPrice = InitialPrices
  /\ blockNumber = 1

Init ==
  InitWith(InitialMarkets, InitialPoolMarkets, InitialPools,
           InitialSupplyCaps, InitialBorrowCaps)

\* The market v after accrueInterest() in this block, per answer of its
\* interest rate model.
Accrued(v) ==
  {accrueInterest(markets[v], rate, blockNumber) :
     rate \in {r \in BorrowRates : canAccrue(markets[v], r, blockNumber)}}

Fits(m, amount) == m.cash + m.totalBorrows + amount <= MaxUnderlying

-----------------------------------------------------------------------------
(* Calls to a market. *)

AccrueInterest(v) ==
  /\ \E m \in Accrued(v) : markets' = [markets EXCEPT ![v] = m]
  /\ UNCHANGED <<membershipVars, poolVars, settingVars, environmentVars>>

Mint(minter, v, amount) ==
  \E m \in Accrued(v) :
    LET ms == [markets EXCEPT ![v] = m]
    IN  /\ canMint(m) /\ mintAllowed(ms, v, amount) /\ Fits(m, amount)
        /\ markets' = [ms EXCEPT ![v] = mintFresh(m, minter, amount)]
        /\ UNCHANGED <<membershipVars, poolVars, settingVars, environmentVars>>

\* redeemFresh for both redeem and redeemUnderlying.
redeemsFrom(ms, v, redeemer, redeemTokens, redeemAmount) ==
  /\ redeemAllowed(ms, v, redeemer, redeemTokens)
  /\ canRedeem(ms[v], redeemer, redeemTokens, redeemAmount)
  /\ markets' = [ms EXCEPT ![v] = redeemFresh(@, redeemer, redeemTokens, redeemAmount)]

Redeem(redeemer, v, redeemTokens) ==
  /\ \E m \in Accrued(v) :
       redeemsFrom([markets EXCEPT ![v] = m], v, redeemer, redeemTokens,
                   redeemAmountFor(m, redeemTokens))
  /\ UNCHANGED <<membershipVars, poolVars, settingVars, environmentVars>>

RedeemUnderlying(redeemer, v, redeemAmount) ==
  /\ \E m \in Accrued(v) :
       /\ exchangeRateDefined(m) /\ exchangeRateStored(m) > 0
       /\ redeemsFrom([markets EXCEPT ![v] = m], v, redeemer,
                      redeemTokensFor(m, redeemAmount), redeemAmount)
  /\ UNCHANGED <<membershipVars, poolVars, settingVars, environmentVars>>

\* borrowAllowed enters the market for the borrower when necessary.
Borrow(borrower, v, borrowAmount) ==
  /\ \E m \in Accrued(v) :
       LET ms == [markets EXCEPT ![v] = m]
           assets == IF borrower \in accountMembership[v]
                       THEN accountAssets[borrower]
                       ELSE Append(accountAssets[borrower], v)
       IN  /\ borrowAllowed(ms, assets, v, borrower, borrowAmount)
           /\ canBorrow(m, borrowAmount)
           /\ markets' = [ms EXCEPT ![v] = borrowFresh(m, borrower, borrowAmount)]
           /\ accountMembership' = [accountMembership EXCEPT ![v] = @ \cup {borrower}]
           /\ accountAssets' = [accountAssets EXCEPT ![borrower] = assets]
  /\ UNCHANGED <<userPoolId, poolVars, settingVars, environmentVars>>

RepayBorrow(borrower, v, repayAmount) ==
  /\ repayBorrowAllowed(v)
  /\ \E m \in Accrued(v) :
       /\ canRepay(m, borrower, repayAmount) /\ Fits(m, 0)
       /\ markets' = [markets EXCEPT ![v] = repayBorrowFresh(m, borrower, repayAmount)]
  /\ UNCHANGED <<membershipVars, poolVars, settingVars, environmentVars>>

\* Accrues both markets, repays, then seizes at the prices and the exchange
\* rate after the repayment.
LiquidateBorrow(liquidator, borrower, vBorrowed, vCollateral, repayAmount) ==
  /\ repayAmount > 0
  /\ repayBorrowAllowed(vBorrowed)
  /\ \E mB \in Accrued(vBorrowed), mC \in Accrued(vCollateral) :
       LET ms == [markets EXCEPT ![vCollateral] = mC, ![vBorrowed] = mB]
           repaid == [ms EXCEPT ![vBorrowed] = repayBorrowFresh(@, borrower, repayAmount)]
       IN  /\ liquidateBorrowAllowed(ms, vBorrowed, vCollateral, borrower, repayAmount)
           /\ canRepay(ms[vBorrowed], borrower, repayAmount) /\ Fits(mB, 0)
           /\ underlyingPrice[vBorrowed] > 0 /\ underlyingPrice[vCollateral] > 0
           /\ exchangeRateDefined(repaid[vCollateral])
           /\ mulExp(underlyingPrice[vCollateral],
                     exchangeRateStored(repaid[vCollateral])) > 0
           /\ seizeAllowed(vCollateral, vBorrowed, borrower)
           /\ LET seizeTokens ==
                    seizeTokensFor(repaid, borrower, vBorrowed, vCollateral, repayAmount)
              IN  /\ canMove(repaid[vCollateral], borrower, liquidator, seizeTokens)
                  /\ markets' = [repaid EXCEPT ![vCollateral] =
                                   moveTokens(@, borrower, liquidator, seizeTokens)]
  /\ UNCHANGED <<membershipVars, poolVars, settingVars, environmentVars>>

\* transfer and transferFrom; neither accrues interest.
Transfer(src, dst, v, tokens) ==
  /\ transferAllowed(markets, v, src, tokens)
  /\ canMove(markets[v], src, dst, tokens)
  /\ markets' = [markets EXCEPT ![v] = moveTokens(@, src, dst, tokens)]
  /\ UNCHANGED <<membershipVars, poolVars, settingVars, environmentVars>>

-----------------------------------------------------------------------------
(* Memberships and pools of an account. *)

EnterMarket(a, v) ==
  /\ "ENTER_MARKET" \notin _actionPaused[v] /\ isListed(v)
  /\ a \notin accountMembership[v]
  /\ accountMembership' = [accountMembership EXCEPT ![v] = @ \cup {a}]
  /\ accountAssets' = [accountAssets EXCEPT ![a] = Append(@, v)]
  /\ UNCHANGED <<markets, userPoolId, poolVars, settingVars, environmentVars>>

\* The last entry replaces the one that is removed.
withoutAsset(assets, v) ==
  LET i == CHOOSE j \in DOMAIN assets : assets[j] = v
  IN  SubSeq([assets EXCEPT ![i] = assets[Len(assets)]], 1, Len(assets) - 1)

\* Mutant: whoever owes may leave.
mayExit_owing(a, v) ==
  redeemAllowedInternal(markets, v, a, markets[v].accountTokens[a])

\* Nothing owed, and allowed to redeem every token.
mayExit(a, v) ==
  /\ borrowBalanceStored(markets[v], a) = 0
  /\ redeemAllowedInternal(markets, v, a, markets[v].accountTokens[a])

\* The assertion of exitMarket is the conjunct on accountAssets.
ExitMarket(a, v) ==
  /\ "EXIT_MARKET" \notin _actionPaused[v]
  /\ exchangeRateDefined(markets[v])
  /\ mayExit(a, v)
  /\ a \in accountMembership[v]
  /\ v \in ToSet(accountAssets[a])
  /\ accountMembership' = [accountMembership EXCEPT ![v] = @ \ {a}]
  /\ accountAssets' = [accountAssets EXCEPT ![a] = withoutAsset(@, v)]
  /\ UNCHANGED <<markets, userPoolId, poolVars, settingVars, environmentVars>>

EnterPool(a, pool) ==
  /\ pool <= lastPoolId /\ pool # userPoolId[a]
  /\ pool = corePoolId \/ pools[pool].isActive
  /\ hasValidPoolBorrows(a, pool)
  /\ positionKnown(markets, accountAssets[a])
  /\ shortfallOf(markets, accountAssets[a], pool, a, USE_COLLATERAL_FACTOR, 0) = 0
  /\ userPoolId' = [userPoolId EXCEPT ![a] = pool]
  /\ UNCHANGED <<markets, accountMembership, accountAssets, poolVars, settingVars,
                 environmentVars>>

-----------------------------------------------------------------------------
(* Governance. *)

SupportMarket(v) ==
  /\ v \notin allMarkets
  /\ _poolMarkets' = [_poolMarkets EXCEPT ![corePoolId][v].isListed = TRUE,
                                          ![corePoolId][v].collateralFactorMantissa = 0]
  /\ allMarkets' = allMarkets \cup {v}
  /\ UNCHANGED <<markets, membershipVars, pools, lastPoolId, settingVars,
                 environmentVars>>

\* Mutant: the pause of a single action is not asked for.
mayUnlist_seizable(v) ==
  /\ Action \ {"SEIZE"} \subseteq _actionPaused[v]
  /\ borrowCaps[v] = 0 /\ supplyCaps[v] = 0
  /\ _poolMarkets[corePoolId][v].collateralFactorMantissa = 0

mayUnlist(v) ==
  /\ Action \subseteq _actionPaused[v]
  /\ borrowCaps[v] = 0 /\ supplyCaps[v] = 0
  /\ _poolMarkets[corePoolId][v].collateralFactorMantissa = 0

\* Debts and memberships of the market stay as they are.
UnlistMarket(v) ==
  /\ isListed(v) /\ mayUnlist(v)
  /\ _poolMarkets' = [_poolMarkets EXCEPT ![corePoolId][v].isListed = FALSE]
  /\ UNCHANGED <<markets, membershipVars, pools, lastPoolId, allMarkets, settingVars,
                 environmentVars>>

CreatePool ==
  /\ lastPoolId < MaxPoolId
  /\ lastPoolId' = lastPoolId + 1
  /\ pools' = [pools EXCEPT ![lastPoolId + 1].isActive = TRUE]
  /\ UNCHANGED <<markets, membershipVars, _poolMarkets, allMarkets, settingVars,
                 environmentVars>>

AddPoolMarket(pool, v) ==
  /\ pool # corePoolId /\ pool <= lastPoolId /\ pools[pool].isActive
  /\ isListed(v) /\ ~_poolMarkets[pool][v].isListed
  /\ _poolMarkets' = [_poolMarkets EXCEPT ![pool][v].isListed = TRUE]
  /\ UNCHANGED <<markets, membershipVars, pools, lastPoolId, allMarkets, settingVars,
                 environmentVars>>

\* Neither the members of the pool nor their debts are looked at.
RemovePoolMarket(pool, v) ==
  /\ pool # corePoolId /\ _poolMarkets[pool][v].isListed
  /\ _poolMarkets' = [_poolMarkets EXCEPT ![pool][v] = notListed]
  /\ UNCHANGED <<markets, membershipVars, pools, lastPoolId, allMarkets, settingVars,
                 environmentVars>>

SetPoolActive(pool, active) ==
  /\ pool # corePoolId /\ pool <= lastPoolId
  /\ pools' = [pools EXCEPT ![pool].isActive = active]
  /\ UNCHANGED <<markets, membershipVars, _poolMarkets, lastPoolId, allMarkets,
                 settingVars, environmentVars>>

SetAllowCorePoolFallback(pool, allowFallback) ==
  /\ pool # corePoolId /\ pool <= lastPoolId
  /\ pools' = [pools EXCEPT ![pool].allowCorePoolFallback = allowFallback]
  /\ UNCHANGED <<markets, membershipVars, _poolMarkets, lastPoolId, allMarkets,
                 settingVars, environmentVars>>

SetIsBorrowAllowed(pool, v, borrowAllowedNow) ==
  /\ pool <= lastPoolId /\ _poolMarkets[pool][v].isListed
  /\ _poolMarkets' = [_poolMarkets EXCEPT ![pool][v].isBorrowAllowed = borrowAllowedNow]
  /\ UNCHANGED <<markets, membershipVars, pools, lastPoolId, allMarkets, settingVars,
                 environmentVars>>

\* Mutant: the threshold is not compared with the factor.
validRiskFactors_unordered(v, cf, lt) ==
  cf <= expScale /\ lt <= expScale /\ (cf # 0 => underlyingPrice[v] > 0)

validRiskFactors(v, cf, lt) ==
  cf <= lt /\ lt <= expScale /\ (cf # 0 => underlyingPrice[v] > 0)

SetCollateralFactor(pool, v, cf, lt) ==
  /\ pool <= lastPoolId /\ _poolMarkets[pool][v].isListed
  /\ validRiskFactors(v, cf, lt)
  /\ _poolMarkets' =
       [_poolMarkets EXCEPT ![pool][v].collateralFactorMantissa = cf,
                            ![pool][v].liquidationThresholdMantissa = lt]
  /\ UNCHANGED <<markets, membershipVars, pools, lastPoolId, allMarkets, settingVars,
                 environmentVars>>

SetLiquidationIncentive(pool, v, incentive) ==
  /\ pool <= lastPoolId /\ _poolMarkets[pool][v].isListed
  /\ incentive >= expScale
  /\ _poolMarkets' =
       [_poolMarkets EXCEPT ![pool][v].liquidationIncentiveMantissa = incentive]
  /\ UNCHANGED <<markets, membershipVars, pools, lastPoolId, allMarkets, settingVars,
                 environmentVars>>

\* Between 0.05 and 0.9.
SetCloseFactor(newCloseFactorMantissa) ==
  /\ newCloseFactorMantissa * 20 >= expScale
  /\ newCloseFactorMantissa * 10 <= 9 * expScale
  /\ closeFactorMantissa' = newCloseFactorMantissa
  /\ UNCHANGED <<markets, membershipVars, poolVars, supplyCaps, borrowCaps,
                 _actionPaused, protocolPaused, isForcedLiquidationEnabled,
                 isForcedLiquidationEnabledForUser, environmentVars>>

SetMarketSupplyCap(v, cap) ==
  /\ supplyCaps' = [supplyCaps EXCEPT ![v] = cap]
  /\ UNCHANGED <<markets, membershipVars, poolVars, borrowCaps, _actionPaused,
                 protocolPaused, closeFactorMantissa, isForcedLiquidationEnabled,
                 isForcedLiquidationEnabledForUser, environmentVars>>

SetMarketBorrowCap(v, cap) ==
  /\ borrowCaps' = [borrowCaps EXCEPT ![v] = cap]
  /\ UNCHANGED <<markets, membershipVars, poolVars, supplyCaps, _actionPaused,
                 protocolPaused, closeFactorMantissa, isForcedLiquidationEnabled,
                 isForcedLiquidationEnabledForUser, environmentVars>>

\* Mutant: without ensureListed.
mayPause_unlisted(v) == TRUE

mayPause(v) == isListed(v)

SetActionsPaused(v, actions, paused) ==
  /\ mayPause(v)
  /\ _actionPaused' = [_actionPaused EXCEPT ![v] =
                         IF paused THEN @ \cup actions ELSE @ \ actions]
  /\ UNCHANGED <<markets, membershipVars, poolVars, supplyCaps, borrowCaps,
                 protocolPaused, closeFactorMantissa, isForcedLiquidationEnabled,
                 isForcedLiquidationEnabledForUser, environmentVars>>

SetProtocolPaused(state) ==
  /\ protocolPaused' = state
  /\ UNCHANGED <<markets, membershipVars, poolVars, supplyCaps, borrowCaps,
                 _actionPaused, closeFactorMantissa, isForcedLiquidationEnabled,
                 isForcedLiquidationEnabledForUser, environmentVars>>

SetForcedLiquidation(v, enable) ==
  /\ isListed(v)
  /\ isForcedLiquidationEnabled' =
       IF enable THEN isForcedLiquidationEnabled \cup {v}
                 ELSE isForcedLiquidationEnabled \ {v}
  /\ UNCHANGED <<markets, membershipVars, poolVars, supplyCaps, borrowCaps,
                 _actionPaused, protocolPaused, closeFactorMantissa,
                 isForcedLiquidationEnabledForUser, environmentVars>>

SetForcedLiquidationForUser(a, v, enable) ==
  /\ isListed(v)
  /\ isForcedLiquidationEnabledForUser' =
       IF enable THEN isForcedLiquidationEnabledForUser \cup {<<a, v>>}
                 ELSE isForcedLiquidationEnabledForUser \ {<<a, v>>}
  /\ UNCHANGED <<markets, membershipVars, poolVars, supplyCaps, borrowCaps,
                 _actionPaused, protocolPaused, closeFactorMantissa,
                 isForcedLiquidationEnabled, environmentVars>>

-----------------------------------------------------------------------------
(* The environment. *)

SetPrice(v, price) ==
  /\ underlyingPrice' = [underlyingPrice EXCEPT ![v] = price]
  /\ UNCHANGED <<markets, membershipVars, poolVars, settingVars, blockNumber>>

NextBlock ==
  /\ blockNumber < MaxBlock
  /\ blockNumber' = blockNumber + 1
  /\ UNCHANGED <<markets, membershipVars, poolVars, settingVars, underlyingPrice>>
-----------------------------------------------------------------------------

MarketStep ==
  \E a \in Accounts, v \in VTokens :
    \/ AccrueInterest(v)
    \/ \E n \in Amounts :
         \/ Mint(a, v, n) \/ Redeem(a, v, n) \/ RedeemUnderlying(a, v, n)
         \/ Borrow(a, v, n) \/ RepayBorrow(a, v, n)
         \/ \E dst \in Accounts : Transfer(a, dst, v, n)

LiquidationStep ==
  \E liquidator, borrower \in Accounts, vBorrowed, vCollateral \in VTokens, n \in Amounts :
    LiquidateBorrow(liquidator, borrower, vBorrowed, vCollateral, n)

MembershipStep ==
  \E a \in Accounts, v \in VTokens : EnterMarket(a, v) \/ ExitMarket(a, v)

PoolChoiceStep == \E a \in Accounts, pool \in Pools : EnterPool(a, pool)

ForcedStep ==
  \E v \in VTokens, enable \in BOOLEAN :
    \/ SetForcedLiquidation(v, enable)
    \/ \E a \in Accounts : SetForcedLiquidationForUser(a, v, enable)

RiskStep ==
  \E pool \in Pools, v \in VTokens :
    \/ \E factors \in RiskFactors : SetCollateralFactor(pool, v, factors[1], factors[2])
    \/ \E incentive \in Incentives : SetLiquidationIncentive(pool, v, incentive)

PoolStep ==
  \/ CreatePool
  \/ \E pool \in Pools, v \in VTokens, flag \in BOOLEAN :
       \/ AddPoolMarket(pool, v) \/ RemovePoolMarket(pool, v)
       \/ SetPoolActive(pool, flag) \/ SetAllowCorePoolFallback(pool, flag)
       \/ SetIsBorrowAllowed(pool, v, flag)

ListingStep ==
  \E v \in VTokens, flag \in BOOLEAN :
    \/ SupportMarket(v) \/ UnlistMarket(v)
    \/ \E cap \in Caps : SetMarketSupplyCap(v, cap) \/ SetMarketBorrowCap(v, cap)
    \/ SetActionsPaused(v, Action, flag)
    \/ \E action \in PausableActions : SetActionsPaused(v, {action}, flag)

SettingStep ==
  \/ \E n \in Amounts : SetCloseFactor(n)
  \/ \E state \in BOOLEAN : SetProtocolPaused(state)

EnvironmentStep ==
  NextBlock \/ \E v \in VTokens, price \in Prices : SetPrice(v, price)

Next ==
  \/ MarketStep \/ LiquidationStep \/ MembershipStep \/ PoolChoiceStep
  \/ ForcedStep \/ RiskStep \/ PoolStep \/ ListingStep \/ SettingStep
  \/ EnvironmentStep

Spec == Init /\ [][Next]_vars
-----------------------------------------------------------------------------
(* Properties. *)

\* The type invariant of the comptroller and its markets.
TypeOK ==
  /\ markets \in [VTokens -> Market]
  /\ accountMembership \in [VTokens -> SUBSET Accounts]
  /\ accountAssets \in [Accounts -> Seq(VTokens)]
  /\ userPoolId \in [Accounts -> Pools]
  /\ _poolMarkets \in [Pools -> [VTokens -> PoolMarket]]
  /\ pools \in [Pools -> Pool]
  /\ lastPoolId \in Pools /\ allMarkets \subseteq VTokens
  /\ supplyCaps \in [VTokens -> Nat] /\ borrowCaps \in [VTokens -> Nat]
  /\ _actionPaused \in [VTokens -> SUBSET Action]
  /\ protocolPaused \in BOOLEAN
  /\ closeFactorMantissa \in Nat
  /\ isForcedLiquidationEnabled \subseteq VTokens
  /\ isForcedLiquidationEnabledForUser \subseteq Accounts \X VTokens
  /\ underlyingPrice \in [VTokens -> Nat]
  /\ blockNumber \in Nat

\* The two records of who is in which market agree, and name it once: the
\* assertion at the end of exitMarket cannot fail.
AssetsMatchMembership ==
  \A a \in Accounts :
    /\ ToSet(accountAssets[a]) = {v \in VTokens : a \in accountMembership[v]}
    /\ IsInjective(accountAssets[a])

\* No debt is outside of the liquidity calculation: who owes in a market is a
\* member of it, whatever order of borrows, repayments, liquidations and
\* exits led there.
BorrowersAreMembers ==
  \A v \in VTokens, a \in Accounts :
    markets[v].principal[a] > 0 => a \in accountMembership[v]

\* Every position is counted in the liquidity of its account, once.
PositionsCounted == AssetsMatchMembership /\ BorrowersAreMembers

known(a) == positionKnown(markets, accountAssets[a])
shortfall(a, weight) ==
  shortfallOf(markets, accountAssets[a], userPoolId[a], a, weight, 0)

\* Who may still borrow cannot be liquidated: in every pool and whatever
\* governance sets, the collateral factor that allows a borrow stays below
\* the threshold that allows a liquidation.
BorrowableIsNotLiquidatable ==
  \A a \in Accounts :
    known(a) /\ shortfall(a, USE_COLLATERAL_FACTOR) = 0
      => shortfall(a, USE_LIQUIDATION_THRESHOLD) = 0

\* A market that was taken off the list is out of use for good: it cannot be
\* listed again, and none of its actions can be resumed.
UnlistedStaysFrozen ==
  \A v \in allMarkets :
    isListed(v) \/ ( /\ _actionPaused[v] = Action
                     /\ _poolMarkets[corePoolId][v].collateralFactorMantissa = 0 )

\* Nothing but the calls of users happened to the value of the positions.
steady ==
  /\ UNCHANGED <<_poolMarkets, pools, underlyingPrice>>
  /\ \A v \in VTokens :
       /\ markets'[v].borrowIndex = markets[v].borrowIndex
       /\ markets'[v].totalSupply > 0 =>
            exchangeRateStored(markets[v])' >= exchangeRateStored(markets[v])

\* No call of anyone, the owner included, pushes an account from within its
\* limits to beyond them while prices, rates and parameters stand still:
\* redeem, borrow, transfer, exitMarket and enterPool check a position in
\* advance, from a hypothetical sum that truncates each term by itself, and
\* the position they leave is at most that rounding of one unit short.  It is
\* about positions the lens can price before and after: who enters a market
\* whose reserves exceed its assets gets SNAPSHOT_ERROR from then on.
SafeStaysSafe ==
  [][steady =>
       \A a \in Accounts :
         /\ known(a) /\ known(a)' /\ shortfall(a, USE_COLLATERAL_FACTOR) = 0
         /\ \A v \in VTokens : ~forced(a, v)
         => shortfall(a, USE_COLLATERAL_FACTOR)' <= 1]_vars

\* In a step a liquidated account loses tokens of one market and debt of
\* another.
debtOf(a, v) == borrowBalanceStored(markets[v], a)
seized(a, v) == markets[v].accountTokens[a] - markets[v].accountTokens[a]'
repaid(a, v) == debtOf(a, v) - debtOf(a, v)'

\* The liquidator never gets more value than it repaid, plus the incentive
\* of the pool the borrower is in, forced liquidations included.
LiquidationFair ==
  [][steady =>
       \A a \in Accounts, b, c \in VTokens :
         seized(a, c) > 0 /\ repaid(a, b) > 0
           => seized(a, c) * mulExp(underlyingPrice[c], exchangeRateStored(markets[c]))
                <= repaid(a, b) *
                     mulExp(getLiquidationParams(userPoolId[a], c)
                              .liquidationIncentiveMantissa, underlyingPrice[b])]_vars

\* An account in a pool only owes what the pool lets its members borrow:
\* neither a borrow nor a change of pool gets around isBorrowAllowed.
misplaced(a, v) ==
  markets[v].principal[a] > 0 /\ ~_poolMarkets[userPoolId[a]][v].isBorrowAllowed

PoolDebtsAllowed ==
  [][UNCHANGED _poolMarkets =>
       \A a \in Accounts, v \in VTokens : misplaced(a, v)' => misplaced(a, v)]_vars
=============================================================================
