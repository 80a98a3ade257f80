------------------------------- MODULE VToken -------------------------------
(***************************************************************************)
(* One money market: contracts/Tokens/VTokens/VToken.sol with the BEP-20   *)
(* entry points of VBep20.sol.  Every entry point that moves underlying    *)
(* accrues interest first and then works on the accrued market; transfers, *)
(* seizures and approvals do not accrue.                                   *)
(*                                                                         *)
(* The comptroller is external to this module: its *Allowed hooks may      *)
(* accept or reject any call, so that an action may or may not happen.  A  *)
(* rejected mint, repay or liquidation returns an error code and keeps the *)
(* accrued interest, which is the action AccrueInterest; a rejected redeem *)
(* or borrow reverts, which is no step at all.  The interest rate model is *)
(* external too and answers any rate of BorrowRates.                       *)
(***************************************************************************)
EXTENDS VTokenMarket

CONSTANTS
  BorrowRates,   \* the answers of the interest rate model
  Amounts,       \* amounts of underlying or of vTokens passed to a call
  ReserveFactors,
  BlockDeltas,   \* values for setReduceReservesBlockDelta
  Allowances,    \* amounts passed to approve()
  Unlimited,     \* type(uint256).max as an allowance
  StartBlock,
  MaxBlock,      \* bound of the model on the block number
  MaxUnderlying  \* bound of the model on cash + totalBorrows

ASSUME VTokenAssumption ==
  /\ BorrowRates \subseteq Nat
  /\ Amounts \subseteq Nat
  /\ ReserveFactors \subseteq Nat
  /\ BlockDeltas \subseteq Nat \ {0}
  /\ Unlimited \notin Nat
  /\ Allowances \subseteq Nat \cup {Unlimited}
  /\ StartBlock \in Nat \ {0}

VARIABLES market, transferAllowances, blockNumber
vars == <<market, transferAllowances, blockNumber>>

Init ==
  /\ blockNumber = StartBlock
  /\ market = initialMarket(StartBlock)
  /\ transferAllowances = [src \in Accounts |-> [spender \in Accounts |-> 0]]

\* The market after accrueInterest() in this block, for every rate the
\* interest rate model may answer.
AccruedMarkets ==
  {accrueInterest(market, rate, blockNumber) :
     rate \in {r \in BorrowRates : canAccrue(market, r, blockNumber)}}

\* The underlying that enters the market stays below the bound of the model.
Fits(m, amount) == m.cash + m.totalBorrows + amount <= MaxUnderlying

-----------------------------------------------------------------------------
(* Entry points that accrue interest. *)

\* accrueInterest(), the *Current() getters, _setInterestRateModel (whose
\* effect is that later rates differ), and every call that fails after it
\* accrued.
AccrueInterest ==
  /\ market' \in AccruedMarkets
  /\ UNCHANGED <<transferAllowances, blockNumber>>

\* mint and mintBehalf: the payer is not part of the state.  amount is what
\* doTransferIn reports to have received.
Mint(minter, amount) ==
  \E m \in AccruedMarkets :
    /\ canMint(m) /\ Fits(m, amount)
    /\ market' = mintFresh(m, minter, amount)
    /\ UNCHANGED <<transferAllowances, blockNumber>>

\* redeem and redeemBehalf.
Redeem(redeemer, redeemTokens) ==
  \E m \in AccruedMarkets :
    /\ canRedeem(m, redeemer, redeemTokens, redeemAmountFor(m, redeemTokens))
    /\ market' =
         redeemFresh(m, redeemer, redeemTokens, redeemAmountFor(m, redeemTokens))
    /\ UNCHANGED <<transferAllowances, blockNumber>>

\* redeemUnderlying and redeemUnderlyingBehalf.
RedeemUnderlying(redeemer, redeemAmount) ==
  \E m \in AccruedMarkets :
    /\ exchangeRateDefined(m) /\ exchangeRateStored(m) > 0
    /\ canRedeem(m, redeemer, redeemTokensFor(m, redeemAmount), redeemAmount)
    /\ market' =
         redeemFresh(m, redeemer, redeemTokensFor(m, redeemAmount), redeemAmount)
    /\ UNCHANGED <<transferAllowances, blockNumber>>

\* borrow and borrowBehalf.
Borrow(borrower, borrowAmount) ==
  \E m \in AccruedMarkets :
    /\ canBorrow(m, borrowAmount)
    /\ market' = borrowFresh(m, borrower, borrowAmount)
    /\ UNCHANGED <<transferAllowances, blockNumber>>

\* repayBorrow and repayBorrowBehalf; type(uint256).max repays what is owed.
\* Also the effect on this market of a liquidation whose collateral is in
\* another market.
RepayBorrow(borrower, repayAmount) ==
  \E m \in AccruedMarkets :
    /\ canRepay(m, borrower, repayAmount) /\ Fits(m, 0)
    /\ market' = repayBorrowFresh(m, borrower, repayAmount)
    /\ UNCHANGED <<transferAllowances, blockNumber>>

RepayBorrowMax(borrower) ==
  \E m \in AccruedMarkets :
    LET owed == borrowBalanceStored(m, borrower)
    IN  /\ canRepay(m, borrower, owed) /\ Fits(m, 0)
        /\ market' = repayBorrowFresh(m, borrower, owed)
        /\ UNCHANGED <<transferAllowances, blockNumber>>

\* liquidateBorrow with this market as its own collateral.  The number of
\* tokens to seize is computed by the comptroller.
LiquidateBorrow(liquidator, borrower, repayAmount, seizeTokens) ==
  \E m \in AccruedMarkets :
    LET repaid == repayBorrowFresh(m, borrower, repayAmount)
    IN  /\ repayAmount > 0
        /\ canRepay(m, borrower, repayAmount) /\ Fits(m, 0)
        /\ canMove(repaid, borrower, liquidator, seizeTokens)
        /\ market' = moveTokens(repaid, borrower, liquidator, seizeTokens)
        /\ UNCHANGED <<transferAllowances, blockNumber>>

AddReserves(addAmount) ==
  \E m \in AccruedMarkets :
    /\ Fits(m, addAmount)
    /\ market' = addReservesFresh(m, addAmount)
    /\ UNCHANGED <<transferAllowances, blockNumber>>

\* Returns early when the reserves were swept in this very block.
ReduceReserves(reduceAmount) ==
  \E m \in AccruedMarkets :
    /\ market' = IF m.reduceReservesBlockNumber = blockNumber
                   THEN m
                   ELSE reduceReservesFresh(m, reduceAmount)
    /\ UNCHANGED <<transferAllowances, blockNumber>>

SetReserveFactor(newReserveFactorMantissa) ==
  \E m \in AccruedMarkets :
    /\ newReserveFactorMantissa <= expScale
    /\ market' = [m EXCEPT !.reserveFactorMantissa = newReserveFactorMantissa]
    /\ UNCHANGED <<transferAllowances, blockNumber>>

-----------------------------------------------------------------------------
(* Entry points that do not. *)

SetReduceReservesBlockDelta(newDelta) ==
  /\ market' = [market EXCEPT !.reduceReservesBlockDelta = newDelta]
  /\ UNCHANGED <<transferAllowances, blockNumber>>

\* seize, called by another market of the same comptroller.
Seize(liquidator, borrower, seizeTokens) ==
  /\ canMove(market, borrower, liquidator, seizeTokens)
  /\ market' = moveTokens(market, borrower, liquidator, seizeTokens)
  /\ UNCHANGED <<transferAllowances, blockNumber>>

Transfer(src, dst, tokens) ==
  /\ canMove(market, src, dst, tokens)
  /\ market' = moveTokens(market, src, dst, tokens)
  /\ UNCHANGED <<transferAllowances, blockNumber>>

Approve(src, spender, amount) ==
  /\ transferAllowances' = [transferAllowances EXCEPT ![src][spender] = amount]
  /\ UNCHANGED <<market, blockNumber>>

\* An allowance of type(uint256).max is not reduced.
TransferFrom(spender, src, dst, tokens) ==
  LET allowance == transferAllowances[src][spender]
  IN  /\ spender # src
      /\ canMove(market, src, dst, tokens)
      /\ allowance = Unlimited \/ (allowance # Unlimited /\ tokens <= allowance)
      /\ market' = moveTokens(market, src, dst, tokens)
      /\ transferAllowances' =
           IF allowance = Unlimited
             THEN transferAllowances
             ELSE [transferAllowances EXCEPT ![src][spender] = @ - tokens]
      /\ UNCHANGED blockNumber

-----------------------------------------------------------------------------
(* The environment: blocks are mined, and anyone may send underlying to    *)
(* the contract, which getCashPrior() counts as cash.                      *)

NextBlock ==
  /\ blockNumber < MaxBlock
  /\ blockNumber' = blockNumber + 1
  /\ UNCHANGED <<market, transferAllowances>>

Donate(amount) ==
  /\ Fits(market, amount)
  /\ market' = [market EXCEPT !.cash = @ + amount]
  /\ UNCHANGED <<transferAllowances, blockNumber>>

SupplierStep ==
  \E a \in Accounts, n \in Amounts :
    Mint(a, n) \/ Redeem(a, n) \/ RedeemUnderlying(a, n)

BorrowerStep ==
  \E a \in Accounts :
    \/ \E n \in Amounts : Borrow(a, n) \/ RepayBorrow(a, n)
    \/ RepayBorrowMax(a)

LiquidatorStep ==
  \E liquidator, borrower \in Accounts, n \in Amounts :
    \/ Seize(liquidator, borrower, n)
    \/ \E repayAmount \in Amounts :
         LiquidateBorrow(liquidator, borrower, repayAmount, n)

HolderStep ==
  \E src, dst \in Accounts, n \in Amounts :
    \/ Transfer(src, dst, n)
    \/ \E spender \in Accounts : TransferFrom(spender, src, dst, n)

ApproveStep ==
  \E src, spender \in Accounts, n \in Allowances : Approve(src, spender, n)

GovernanceStep ==
  \/ \E n \in Amounts : AddReserves(n) \/ ReduceReserves(n)
  \/ \E f \in ReserveFactors : SetReserveFactor(f)
  \/ \E d \in BlockDeltas : SetReduceReservesBlockDelta(d)

EnvironmentStep == NextBlock \/ \E n \in Amounts : Donate(n)

Next ==
  \/ AccrueInterest \/ SupplierStep \/ BorrowerStep \/ LiquidatorStep
  \/ HolderStep \/ ApproveStep \/ GovernanceStep \/ EnvironmentStep

Spec == Init /\ [][Next]_vars
-----------------------------------------------------------------------------
(* Properties. *)

\* The type invariant of the market, its allowances and the block number.
TypeOK ==
  /\ market \in Market
  /\ transferAllowances \in [Accounts -> [Accounts -> Nat \cup {Unlimited}]]
  /\ blockNumber \in Nat

\* Every vToken belongs to somebody: mint, redeem, transfer, transferFrom and
\* seize each write totalSupply and accountTokens separately, and no sequence
\* of them makes the supply differ from the sum of the balances.
TokenConservation == tokensConserved(market)

\* A debt is always measured against an index that was really reached: the
\* division of borrowBalanceStoredInternal is defined and a debt never reads
\* as less than its principal.
DebtSnapshots == snapshotsReached(market)

\* The two block counters of accrueInterest never run ahead of the chain nor
\* of each other, so that neither subUInt of accrueInterest can fail and
\* block the market.
BlocksOrdered ==
  /\ market.reduceReservesBlockNumber <= market.accrualBlockNumber
  /\ market.accrualBlockNumber <= blockNumber

\* base ^ n, as a recursive function: the provers know no facts about ^.
Powers(base) ==
  LET power[n \in Nat] == IF n = 0 THEN 1 ELSE base * power[n - 1]
  IN  power

\* No block is charged twice: whatever the calls and the rates, the index is
\* at most what the highest rate compounds to in the blocks that have passed
\* since the market was initialised.
InterestBounded ==
  LET blocks == market.accrualBlockNumber - StartBlock
  IN  market.borrowIndex * Powers(expScale)[blocks]
        <= expScale * Powers(expScale + borrowRateMaxMantissa)[blocks]

\* The two exchange rate properties compare the underlying per vToken before
\* and after a step without dividing again.
SharePrice == exchangeRateStored(market)
BackedAtOldPrice(shares) == equity(market)' * expScale >= shares * SharePrice

\* Nobody dilutes the holders: a step that does not burn vTokens (mint at a
\* truncated number of tokens, accrual, sweep of reserves, borrow, repay,
\* seize, donation, ...) never lowers the exchange rate.
RateKeptUnlessBurnt ==
  [][market.totalSupply > 0 /\ equity(market) >= 0
       /\ market.totalSupply' >= market.totalSupply
     => BackedAtOldPrice(market.totalSupply')]_vars

\* A burn costs the remaining holders less than the value of one vToken:
\* redeemUnderlying truncates the tokens it burns in favour of the redeemer,
\* and nothing is lost beyond that.
BurnCostsBelowOneToken ==
  [][market.totalSupply > 0 /\ equity(market) >= 0 /\ SharePrice > 0
       /\ market.totalSupply' > 0
     => equity(market)' * expScale > (market.totalSupply' - 1) * SharePrice]_vars

\* A holder who redeems a number of vTokens never lowers the exchange rate
\* of those who stay.
RedeemKeepsRate ==
  [][\A a \in Accounts, n \in Amounts :
       Redeem(a, n) /\ market.totalSupply > 0 /\ equity(market) >= 0
         => BackedAtOldPrice(market.totalSupply')]_vars

\* What VTokenInterfaces.sol says of totalReserves, "Total amount of reserves
\* of the underlying held in this market": the market holds at least that
\* much, in cash or lent out.
ReservesHeld == market.totalReserves <= market.cash + market.totalBorrows

\* What VTokenInterfaces.sol says of totalBorrows, "Total amount of
\* outstanding borrows of the underlying in this market": it covers each
\* single outstanding borrow.
BorrowsCounted ==
  \A a \in Accounts : borrowBalanceStored(market, a) <= market.totalBorrows
=============================================================================
