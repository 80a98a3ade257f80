-------------------------- MODULE ComptrollerPolicy --------------------------
(***************************************************************************)
(* The storage of the comptroller (ComptrollerStorage.sol) next to that of *)
(* its markets, and every check made on it: the risk parameters of a pool  *)
(* (MarketFacet.sol), the liquidity of an account (ComptrollerLens.sol)    *)
(* and the hooks the markets call (PolicyFacet.sol, FacetBase.sol).        *)
(* Comptroller.tla holds the operations.                                   *)
(*                                                                         *)
(* A hook that reverts and a hook that returns an error code are both      *)
(* FALSE here.  The flywheel of XVS rewards, the VAI debt and the Prime    *)
(* hooks change neither markets nor memberships and are left out.          *)
(***************************************************************************)
EXTENDS VTokenMarket, Sequences, SequencesExt, FiniteSetsExt

CONSTANTS
  VTokens,
  MaxPoolId      \* bound of the model on lastPoolId

corePoolId == 0
Pools == corePoolId .. MaxPoolId

Action == {"MINT", "REDEEM", "BORROW", "REPAY", "SEIZE", "LIQUIDATE",
           "TRANSFER", "ENTER_MARKET", "EXIT_MARKET"}

\* WeightFunction: which factor weighs the collateral.
USE_COLLATERAL_FACTOR == "collateralFactorMantissa"
USE_LIQUIDATION_THRESHOLD == "liquidationThresholdMantissa"

PoolMarket ==
  [isListed : BOOLEAN, isBorrowAllowed : BOOLEAN,
   collateralFactorMantissa : Nat, liquidationThresholdMantissa : Nat,
   liquidationIncentiveMantissa : Nat]

\* What an absent key of _poolMarkets reads as.
notListed ==
  [isListed |-> FALSE, isBorrowAllowed |-> FALSE,
   collateralFactorMantissa |-> 0, liquidationThresholdMantissa |-> 0,
   liquidationIncentiveMantissa |-> 0]

Pool == [isActive : BOOLEAN, allowCorePoolFallback : BOOLEAN]

VARIABLES
  markets,             \* the VToken contracts
  accountMembership,   \* accounts that entered each market
  accountAssets,       \* the same, per account, as a list
  userPoolId,
  _poolMarkets,        \* risk parameters per pool and market
  pools, lastPoolId, allMarkets,
  supplyCaps, borrowCaps, _actionPaused, protocolPaused,
  closeFactorMantissa, isForcedLiquidationEnabled,
  isForcedLiquidationEnabledForUser,
  underlyingPrice,     \* the answers of the oracle; 0 is "no price"
  blockNumber

membershipVars == <<accountMembership, accountAssets, userPoolId>>
poolVars == <<_poolMarkets, pools, lastPoolId, allMarkets>>
settingVars ==
  <<supplyCaps, borrowCaps, _actionPaused, protocolPaused, closeFactorMantissa,
    isForcedLiquidationEnabled, isForcedLiquidationEnabledForUser>>
environmentVars == <<underlyingPrice, blockNumber>>
-----------------------------------------------------------------------------
(* Risk parameters. *)

isListed(v) == _poolMarkets[corePoolId][v].isListed

allowed(v, action) == ~protocolPaused /\ action \notin _actionPaused[v]

\* The core pool stands in for an inactive pool, and for a market the pool
\* does not list if the pool allows the fallback.
getLiquidationParams(pool, v) ==
  IF \/ pool = corePoolId
     \/ ~pools[pool].isActive
     \/ ~_poolMarkets[pool][v].isListed /\ pools[pool].allowCorePoolFallback
    THEN _poolMarkets[corePoolId][v]
    ELSE _poolMarkets[pool][v]

-----------------------------------------------------------------------------
(* ComptrollerLens: the position of an account.  ms are the markets to look *)
(* at, assets the list of markets entered, pool the pool of the account:    *)
(* they are parameters because some callers change them before they look.   *)

\* As places in the list: it only serves to go through them and add up.
getAssetsIn(assets) == {i \in DOMAIN assets : isListed(assets[i])}

tokensToDenom(ms, pool, v, weight) ==
  mulExp(mulExp(getLiquidationParams(pool, v)[weight], exchangeRateStored(ms[v])),
         underlyingPrice[v])

\* Otherwise the lens answers SNAPSHOT_ERROR or PRICE_ERROR.
positionKnown(ms, assets) ==
  \A i \in getAssetsIn(assets) :
    exchangeRateDefined(ms[assets[i]]) /\ underlyingPrice[assets[i]] > 0

sumCollateral(ms, assets, pool, a, weight) ==
  Total([i \in getAssetsIn(assets) |->
           mulScalarTruncate(tokensToDenom(ms, pool, assets[i], weight),
                             ms[assets[i]].accountTokens[a])])

sumBorrow(ms, assets, a) ==
  Total([i \in getAssetsIn(assets) |->
           mulScalarTruncate(underlyingPrice[assets[i]],
                             borrowBalanceStored(ms[assets[i]], a))])

\* effects is what the hypothetical redeem or borrow adds to the debt.
shortfallOf(ms, assets, pool, a, weight, effects) ==
  LET collateral == sumCollateral(ms, assets, pool, a, weight)
      borrowed   == sumBorrow(ms, assets, a) + effects
  IN  IF collateral > borrowed THEN 0 ELSE borrowed - collateral

\* Mutant: the incentive of the core pool, not the one of the borrower's pool.
seizeTokensFor_coreIncentive(ms, borrower, vBorrowed, vCollateral, repayAmount) ==
  LET incentive == _poolMarkets[corePoolId][vCollateral].liquidationIncentiveMantissa
      ratio == divExp(mulExp(incentive, underlyingPrice[vBorrowed]),
                      mulExp(underlyingPrice[vCollateral],
                             exchangeRateStored(ms[vCollateral])))
  IN  mulScalarTruncate(ratio, repayAmount)

\* liquidateCalculateSeizeTokens, with the incentive of the borrower's pool.
seizeTokensFor(ms, borrower, vBorrowed, vCollateral, repayAmount) ==
  LET incentive == getLiquidationParams(userPoolId[borrower], vCollateral)
                     .liquidationIncentiveMantissa
      ratio == divExp(mulExp(incentive, underlyingPrice[vBorrowed]),
                      mulExp(underlyingPrice[vCollateral],
                             exchangeRateStored(ms[vCollateral])))
  IN  mulScalarTruncate(ratio, repayAmount)

-----------------------------------------------------------------------------
(* The hooks of PolicyFacet. *)

mintAllowed(ms, v, mintAmount) ==
  /\ allowed(v, "MINT") /\ isListed(v)
  /\ supplyCaps[v] # 0
  /\ mulScalarTruncateAddUInt(exchangeRateStored(ms[v]), ms[v].totalSupply, mintAmount)
       <= supplyCaps[v]

\* Who did not enter the market may always redeem.
redeemAllowedInternal(ms, v, redeemer, redeemTokens) ==
  /\ isListed(v)
  /\ redeemer \in accountMembership[v] =>
       /\ positionKnown(ms, accountAssets[redeemer])
       /\ LET pool == userPoolId[redeemer]
              weight == USE_COLLATERAL_FACTOR
          IN  shortfallOf(ms, accountAssets[redeemer], pool, redeemer, weight,
                mulScalarTruncate(tokensToDenom(ms, pool, v, weight), redeemTokens)) = 0

redeemAllowed(ms, v, redeemer, redeemTokens) ==
  allowed(v, "REDEEM") /\ redeemAllowedInternal(ms, v, redeemer, redeemTokens)

\* Mutant: nothing is asked of the sender.
transferAllowed_unchecked(ms, v, src, transferTokens) ==
  allowed(v, "TRANSFER") /\ isListed(v)

transferAllowed(ms, v, src, transferTokens) ==
  allowed(v, "TRANSFER") /\ redeemAllowedInternal(ms, v, src, transferTokens)

\* Mutant: any market may be borrowed in any pool.
poolBorrowAllowed_any(a, v) == TRUE

poolBorrowAllowed(a, v) ==
  /\ _poolMarkets[userPoolId[a]][v].isBorrowAllowed
  /\ userPoolId[a] = corePoolId \/ pools[userPoolId[a]].isActive

\* assets is the list of the borrower with v in it.
borrowAllowed(ms, assets, v, borrower, borrowAmount) ==
  /\ allowed(v, "BORROW") /\ isListed(v)
  /\ poolBorrowAllowed(borrower, v)
  /\ borrower \notin accountMembership[v] => "ENTER_MARKET" \notin _actionPaused[v]
  /\ borrowCaps[v] # 0
  /\ ms[v].totalBorrows + borrowAmount <= borrowCaps[v]
  /\ positionKnown(ms, assets)
  /\ shortfallOf(ms, assets, userPoolId[borrower], borrower, USE_COLLATERAL_FACTOR,
       mulScalarTruncate(underlyingPrice[v], borrowAmount)) = 0

repayBorrowAllowed(v) == allowed(v, "REPAY") /\ isListed(v)

forced(borrower, v) ==
  v \in isForcedLiquidationEnabled \/ <<borrower, v>> \in isForcedLiquidationEnabledForUser

\* A forced liquidation needs no shortfall and may close the whole debt.
liquidateBorrowAllowed(ms, vBorrowed, vCollateral, borrower, repayAmount) ==
  /\ allowed(vBorrowed, "LIQUIDATE") /\ isListed(vCollateral) /\ isListed(vBorrowed)
  /\ LET borrowBalance == borrowBalanceStored(ms[vBorrowed], borrower)
     IN  \/ forced(borrower, vBorrowed) /\ repayAmount <= borrowBalance
         \/ /\ ~forced(borrower, vBorrowed)
            /\ positionKnown(ms, accountAssets[borrower])
            /\ shortfallOf(ms, accountAssets[borrower], userPoolId[borrower], borrower,
                           USE_LIQUIDATION_THRESHOLD, 0) > 0
            /\ repayAmount <= mulScalarTruncate(closeFactorMantissa, borrowBalance)

\* Only what the borrower entered is collateral.
seizeAllowed(vCollateral, vBorrowed, borrower) ==
  /\ allowed(vCollateral, "SEIZE") /\ isListed(vCollateral) /\ isListed(vBorrowed)
  /\ borrower \in accountMembership[vCollateral]

\* Mutant: the debts of the account are not looked at.
hasValidPoolBorrows_any(a, pool) == TRUE

hasValidPoolBorrows(a, pool) ==
  \A v \in ToSet(accountAssets[a]) :
    _poolMarkets[pool][v].isBorrowAllowed \/ borrowBalanceStored(markets[v], a) = 0
=============================================================================
