--------------------------- MODULE RewardFlywheel ---------------------------
(***************************************************************************)
(* The XVS rewards of suppliers and borrowers (XVSRewardsHelper.sol and    *)
(* RewardFacet.sol) on top of the markets they are paid in: every hook of  *)
(* PolicyFacet.sol moves the index of its market and pays the account it   *)
(* is about, and what has accrued is claimed later, in cash or as          *)
(* collateral.  The storage and its indices are in Rewards.                *)
(*                                                                         *)
(* What else the hooks check is free here: any call the market itself can  *)
(* carry out may be allowed.                                               *)
(***************************************************************************)
EXTENDS Rewards, Sequences, SequencesExt

CONSTANTS
  xvsVToken,            \* the market of XVS itself
  BorrowRates, Amounts, Speeds, Fundings,
  HolderLists,          \* arguments of claims
  MaxBlock, MaxUnderlying  \* bounds of the model

ASSUME FlywheelAssumption ==
  /\ IsFiniteSet(VTokens) /\ xvsVToken \in VTokens /\ doubleScale \in Nat \ {0}
  /\ {venusVAIVaultRate, minReleaseAmount} \subseteq Nat
  /\ BorrowRates \cup Amounts \cup Speeds \cup Fundings \subseteq Nat
  /\ HolderLists \subseteq Seq(Accounts)

VARIABLE isListed       \* markets that are listed

vars == <<markets, flywheel, isListed, allMarkets, received, promised, currentBlock>>

TypeOK ==
  /\ markets \in [VTokens -> Market]
  /\ flywheel \in Flywheel
  /\ isListed \subseteq allMarkets /\ allMarkets \subseteq VTokens
  /\ received \in [Accounts -> Nat] /\ promised \in Nat /\ currentBlock \in Nat

initialized(state) ==
  [index |-> IF state.index = 0 THEN venusInitialIndex ELSE state.index,
   block |-> currentBlock]

\* Markets as they were just used, some listed, some with a speed.
InitWith(ms, listed, speeds, release) ==
  /\ currentBlock = 1
  /\ markets = ms
  /\ flywheel =
       [state |-> [side \in Sides |-> [v \in VTokens |->
          IF v \in listed THEN initialized([index |-> 0]) ELSE [index |-> 0, block |-> 0]]],
        speed |-> speeds,
        accountIndex |-> [side \in Sides |-> [v \in VTokens |-> [a \in Accounts |->
          IF side = "supply" /\ ms[v].accountTokens[a] > 0 THEN venusInitialIndex ELSE 0]]],
        accrued |-> [a \in Accounts |-> 0],
        xvs |-> 0, releaseStartBlock |-> release]
  /\ isListed = listed /\ allMarkets = listed
  /\ received = [a \in Accounts |-> 0]
  /\ promised = 0

Init ==
  InitWith([v \in VTokens |-> initialMarket(1)], {},
           [side \in Sides |-> [v \in VTokens |-> 0]], 0)
-----------------------------------------------------------------------------
(* Calls to a market: accrueInterest, the hook, the effect. *)

\* The hooks of one market; m is the market before the call they allow.
supplyHook(f, v, m, accounts) == distribute(f, [x \in {v} |-> m], {"supply"}, {v}, accounts)
borrowHook(f, v, m, accounts) == distribute(f, [x \in {v} |-> m], {"borrow"}, {v}, accounts)

Accrued(v) ==
  {accrueInterest(markets[v], rate, currentBlock) :
     rate \in {r \in BorrowRates : canAccrue(markets[v], r, currentBlock)}}

Fits(m, amount) == m.cash + m.totalBorrows + amount <= MaxUnderlying

AccrueInterest(v) ==
  /\ \E m \in Accrued(v) : markets' = [markets EXCEPT ![v] = m]
  /\ UNCHANGED <<flywheel, isListed, allMarkets, received, promised, currentBlock>>

\* mint and mintBehalf: minter is the account that receives.
Mint(minter, v, amount) ==
  /\ v \in isListed
  /\ \E m \in Accrued(v) :
       /\ canMint(m) /\ Fits(m, amount)
       /\ flywheel' = supplyHook(flywheel, v, m, {minter})
       /\ markets' = [markets EXCEPT ![v] = mintFresh(m, minter, amount)]
  /\ UNCHANGED <<isListed, allMarkets, received, promised, currentBlock>>

Redeem(redeemer, v, redeemTokens) ==
  /\ v \in isListed
  /\ \E m \in Accrued(v) :
       LET redeemAmount == redeemAmountFor(m, redeemTokens)
       IN  /\ canRedeem(m, redeemer, redeemTokens, redeemAmount)
           /\ flywheel' = supplyHook(flywheel, v, m, {redeemer})
           /\ markets' =
                [markets EXCEPT ![v] = redeemFresh(m, redeemer, redeemTokens, redeemAmount)]
  /\ UNCHANGED <<isListed, allMarkets, received, promised, currentBlock>>

\* transferTokens calls the hook first and does not accrue interest.
Transfer(src, dst, v, tokens) ==
  /\ v \in isListed
  /\ canMove(markets[v], src, dst, tokens)
  /\ flywheel' = supplyHook(flywheel, v, markets[v], {src, dst})
  /\ markets' = [markets EXCEPT ![v] = moveTokens(@, src, dst, tokens)]
  /\ UNCHANGED <<isListed, allMarkets, received, promised, currentBlock>>

Borrow(borrower, v, borrowAmount) ==
  /\ v \in isListed
  /\ \E m \in Accrued(v) :
       /\ canBorrow(m, borrowAmount)
       /\ flywheel' = borrowHook(flywheel, v, m, {borrower})
       /\ markets' = [markets EXCEPT ![v] = borrowFresh(m, borrower, borrowAmount)]
  /\ UNCHANGED <<isListed, allMarkets, received, promised, currentBlock>>

RepayBorrow(borrower, v, repayAmount) ==
  /\ v \in isListed
  /\ \E m \in Accrued(v) :
       /\ canRepay(m, borrower, repayAmount) /\ Fits(m, 0)
       /\ flywheel' = borrowHook(flywheel, v, m, {borrower})
       /\ markets' = [markets EXCEPT ![v] = repayBorrowFresh(m, borrower, repayAmount)]
  /\ UNCHANGED <<isListed, allMarkets, received, promised, currentBlock>>

\* Both markets accrue; the hook of the repayment runs before it, that of the
\* seizure after it, for both accounts.
LiquidateBorrow(liquidator, borrower, vBorrowed, vCollateral, repayAmount, seizeTokens) ==
  /\ {vBorrowed, vCollateral} \subseteq isListed
  /\ liquidator # borrower /\ repayAmount > 0
  /\ \E mB \in Accrued(vBorrowed), mC \in Accrued(vCollateral) :
       LET ms == [markets EXCEPT ![vCollateral] = mC, ![vBorrowed] = mB]
           repaid == [ms EXCEPT ![vBorrowed] = repayBorrowFresh(@, borrower, repayAmount)]
       IN  /\ canRepay(ms[vBorrowed], borrower, repayAmount) /\ Fits(mB, 0)
           /\ canMove(repaid[vCollateral], borrower, liquidator, seizeTokens)
           /\ flywheel' =
                supplyHook(borrowHook(flywheel, vBorrowed, ms[vBorrowed], {borrower}),
                           vCollateral, repaid[vCollateral], {borrower, liquidator})
           /\ markets' = [repaid EXCEPT ![vCollateral] =
                            moveTokens(@, borrower, liquidator, seizeTokens)]
  /\ UNCHANGED <<isListed, allMarkets, received, promised, currentBlock>>
-----------------------------------------------------------------------------
(* RewardFacet. *)

\* Mutant: what the market pays while it is minted into is overwritten.
grantAsCollateral_overwrites(c, a, rate) ==
  LET value  == c.flywheel.accrued[a]
      market == accrueInterest(c.market, rate, currentBlock)
      f      == supplyHook([c.flywheel EXCEPT !.accrued[a] = 0], xvsVToken, market, {a})
  IN  [flywheel |-> [f EXCEPT !.accrued[a] = 0, !.xvs = @ - value],
       market   |-> mintFresh(market, a, value),
       received |-> [c.received EXCEPT ![a] = @ + value],
       reverted |-> \/ xvsVToken \notin isListed \/ ~canAccrue(c.market, rate, currentBlock)
                    \/ ~canMint(market) \/ value > f.xvs]

\* mintBehalf: its hook pays the holder once more, after what had accrued was
\* deleted, and may release XVS to the vault before the market takes its own.
grantAsCollateral(c, a, rate) ==
  LET value  == c.flywheel.accrued[a]
      market == accrueInterest(c.market, rate, currentBlock)
      f      == supplyHook([c.flywheel EXCEPT !.accrued[a] = 0], xvsVToken, market, {a})
  IN  [flywheel |-> [f EXCEPT !.xvs = @ - value],
       market   |-> mintFresh(market, a, value),
       received |-> [c.received EXCEPT ![a] = @ + value],
       reverted |-> \/ xvsVToken \notin isListed \/ ~canAccrue(c.market, rate, currentBlock)
                    \/ ~canMint(market) \/ value > f.xvs]

\* grantXVSInternal: what the balance does not cover stays accrued, all of it;
\* with a shortfall the holder is paid as collateral or the call reverts.
grantXVS(c, a, bankrupt, collateral, rate) ==
  LET value == c.flywheel.accrued[a]
  IN  IF c.reverted \/ value = 0 \/ value > c.flywheel.xvs THEN c
      ELSE IF ~bankrupt
        THEN [c EXCEPT !.flywheel.accrued[a] = 0, !.flywheel.xvs = @ - value,
                       !.received[a] = @ + value]
      ELSE IF collateral THEN grantAsCollateral(c, a, rate)
      ELSE [c EXCEPT !.reverted = TRUE]

\* claimVenus for a list of holders, some of them with a shortfall.  One holder
\* that reverts takes all the others along.
ClaimVenus(holders, vTokens, sides, collateral, bankrupt, rate) ==
  /\ vTokens \subseteq isListed
  /\ LET start == [flywheel |-> distribute(flywheel, markets, sides, vTokens, ToSet(holders)),
                   market |-> markets[xvsVToken], received |-> received,
                   reverted |-> FALSE]
         after[n \in 0 .. Len(holders)] ==
           IF n = 0 THEN start
           ELSE grantXVS(after[n - 1], holders[n], holders[n] \in bankrupt, collateral, rate)
         claim == after[Len(holders)]
     IN  /\ ~claim.reverted /\ Fits(claim.market, 0)
         /\ flywheel' = claim.flywheel
         /\ markets' = [markets EXCEPT ![xvsVToken] = claim.market]
         /\ received' = claim.received
  /\ UNCHANGED <<isListed, allMarkets, promised, currentBlock>>

\* Loops over all markets there ever were, and reverts at one that is unlisted.
SeizeVenus(holders) ==
  /\ allMarkets \subseteq isListed
  /\ LET f == distribute(flywheel, markets, Sides, allMarkets, holders)
         holding == [a \in Accounts |-> IF a \in holders THEN f.accrued[a] ELSE 0]
     IN  /\ Total(holding) <= f.xvs
         /\ flywheel' = [f EXCEPT !.accrued = [a \in Accounts |-> @[a] - holding[a]],
                                  !.xvs = @ - Total(holding)]
         /\ received' = [a \in Accounts |-> received[a] + holding[a]]
  /\ UNCHANGED <<markets, isListed, allMarkets, promised, currentBlock>>

\* _grantXVS, to somebody outside.
GrantXVS(amount) ==
  /\ amount <= flywheel.xvs
  /\ flywheel' = [flywheel EXCEPT !.xvs = @ - amount]
  /\ UNCHANGED <<markets, isListed, allMarkets, received, promised, currentBlock>>
-----------------------------------------------------------------------------
(* Governance and the environment. *)

\* Mutant: the new speed also holds for the blocks before.
withSpeed_first(f, side, v, speed) ==
  LET g == [f EXCEPT !.speed[side][v] = speed]
  IN  [g EXCEPT !.state[side][v] = updateIndex(g, side, v, markets[v])]

\* The index is moved at the old speed first.
withSpeed(f, side, v, speed) ==
  IF speed = f.speed[side][v] THEN f
  ELSE [f EXCEPT !.state[side][v] = updateIndex(f, side, v, markets[v]),
                 !.speed[side][v] = speed]

SetVenusSpeed(v, supplySpeed, borrowSpeed) ==
  /\ v \in isListed
  /\ flywheel' =
       withSpeed(withSpeed(flywheel, "supply", v, supplySpeed), "borrow", v, borrowSpeed)
  /\ UNCHANGED <<markets, isListed, allMarkets, received, promised, currentBlock>>

\* _supportMarket: a market is listed once.
SupportMarket(v) ==
  /\ v \notin allMarkets
  /\ isListed' = isListed \cup {v}
  /\ allMarkets' = allMarkets \cup {v}
  /\ flywheel' = [flywheel EXCEPT !.state["supply"][v] = initialized(@),
                                  !.state["borrow"][v] = initialized(@)]
  /\ UNCHANGED <<markets, received, promised, currentBlock>>

\* Everything that is done with the market has been paused before.
UnlistMarket(v) ==
  /\ v \in isListed
  /\ isListed' = isListed \ {v}
  /\ UNCHANGED <<markets, flywheel, allMarkets, received, promised, currentBlock>>

\* XVS is sent to the comptroller.
Fund(amount) ==
  /\ flywheel' = [flywheel EXCEPT !.xvs = @ + amount]
  /\ UNCHANGED <<markets, isListed, allMarkets, received, promised, currentBlock>>

NextBlock ==
  /\ currentBlock < MaxBlock
  /\ currentBlock' = currentBlock + 1
  /\ promised' = promised + Total([s \in Sides \X VTokens |-> flywheel.speed[s[1]][s[2]]])
  /\ UNCHANGED <<markets, flywheel, isListed, allMarkets, received>>

UserStep ==
  \E a, b \in Accounts, v \in VTokens, n \in Amounts :
    \/ AccrueInterest(v) \/ Mint(a, v, n) \/ Redeem(a, v, n)
    \/ Borrow(a, v, n) \/ RepayBorrow(a, v, n) \/ Transfer(a, b, v, n)

LiquidationStep ==
  \E a, b \in Accounts, v, w \in VTokens, n, tokens \in Amounts :
    LiquidateBorrow(a, b, v, w, n, tokens)

ClaimStep ==
  \E holders \in HolderLists, vTokens \in SUBSET VTokens,
     sides \in (SUBSET Sides) \ {{}}, rate \in BorrowRates :
    \E bankrupt \in SUBSET ToSet(holders), collateral \in BOOLEAN :
      ClaimVenus(holders, vTokens, sides, collateral, bankrupt, rate)

GovernanceStep ==
  \/ \E v \in VTokens :
       \/ SupportMarket(v) \/ UnlistMarket(v)
       \/ \E s, b \in Speeds : SetVenusSpeed(v, s, b)
  \/ \E holders \in HolderLists : SeizeVenus(ToSet(holders))
  \/ \E n \in Fundings : GrantXVS(n) \/ Fund(n)

Next == UserStep \/ LiquidationStep \/ ClaimStep \/ GovernanceStep \/ NextBlock

Spec == Init /\ [][Next]_vars
-----------------------------------------------------------------------------
(* Properties. *)

\* claimVenus(holder): "Claim all the xvs accrued by holder in all markets"; who
\* has something to claim, and no shortfall, can call it.
ClaimsAllMarkets ==
  \A a \in Accounts :
    earned[a] > received[a] => ENABLED ClaimVenus(<<a>>, allMarkets, Sides, FALSE, {}, 0)
=============================================================================
