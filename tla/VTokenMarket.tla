---------------------------- MODULE VTokenMarket ----------------------------
(***************************************************************************)
(* The accounting of one VToken market (contracts/Tokens/VTokens/          *)
(* VToken.sol and VBep20.sol) as operators on a record, one operator per   *)
(* internal function of the contract.  VToken.tla runs one market with an  *)
(* arbitrary comptroller; Comptroller.tla runs several under the real one. *)
(*                                                                         *)
(* Where the source splits a struct (accountBorrows) the record has one    *)
(* function per field.  cash is getCashPrior(), the balance of the         *)
(* underlying the contract holds.                                          *)
(***************************************************************************)
EXTENDS Exponential, Totals

CONSTANTS
  Accounts,                     \* holders of vTokens and of debt
  initialExchangeRateMantissa,  \* exchange rate while totalSupply = 0
  borrowRateMaxMantissa         \* accrueInterest reverts above this rate

ASSUME MarketAssumption ==
  /\ IsFiniteSet(Accounts)
  /\ initialExchangeRateMantissa \in Nat \ {0}
  /\ borrowRateMaxMantissa \in Nat

Market ==
  [cash : Nat, totalBorrows : Nat, totalReserves : Nat, totalSupply : Nat,
   borrowIndex : Nat, reserveFactorMantissa : 0 .. expScale,
   accountTokens : [Accounts -> Nat],
   principal : [Accounts -> Nat], interestIndex : [Accounts -> Nat],
   accrualBlockNumber : Nat,
   reduceReservesBlockNumber : Nat, reduceReservesBlockDelta : Nat]

\* The market after initialize() in the given block: borrowIndex starts at
\* mantissaOne, everything else at zero.
initialMarket(block) ==
  [cash |-> 0, totalBorrows |-> 0, totalReserves |-> 0, totalSupply |-> 0,
   borrowIndex |-> expScale, reserveFactorMantissa |-> 0,
   accountTokens |-> [a \in Accounts |-> 0],
   principal |-> [a \in Accounts |-> 0],
   interestIndex |-> [a \in Accounts |-> 0],
   accrualBlockNumber |-> block,
   reduceReservesBlockNumber |-> 0, reduceReservesBlockDelta |-> 0]

-----------------------------------------------------------------------------
(* What the market reads from its own storage. *)

\* The underlying that belongs to the holders of vTokens.
equity(m) == m.cash + m.totalBorrows - m.totalReserves

\* exchangeRateStoredInternal() returns a math error when the reserves
\* exceed cash plus borrows, but only looks at them when there is a supply.
exchangeRateDefined(m) == m.totalSupply = 0 \/ equity(m) >= 0

exchangeRateStored(m) ==
  IF m.totalSupply = 0 THEN initialExchangeRateMantissa
                       ELSE getExp(equity(m), m.totalSupply)

borrowBalanceStored(m, a) ==
  IF m.principal[a] = 0
    THEN 0
    ELSE (m.principal[a] * m.borrowIndex) \div m.interestIndex[a]

-----------------------------------------------------------------------------
(* Interest and reserves. *)

\* Does nothing when the amount is zero, not covered by cash or larger than
\* the reserves (error codes, not reverts).
reduceReservesFresh(m, amount) ==
  IF amount <= m.cash /\ amount <= m.totalReserves
    THEN [m EXCEPT !.cash = @ - amount, !.totalReserves = @ - amount]
    ELSE m

\* The utilisation of the interest rate model divides by cash + borrows -
\* reserves as soon as there are borrows, and reverts if that is not positive.
borrowRateDefined(m) == m.totalBorrows = 0 \/ equity(m) > 0

\* Mutant: any rate is accepted.
canAccrue_anyRate(m, borrowRate, block) ==
  m.accrualBlockNumber = block \/ borrowRateDefined(m)

canAccrue(m, borrowRate, block) ==
  m.accrualBlockNumber = block \/
    (borrowRateDefined(m) /\ borrowRate <= borrowRateMaxMantissa)

withInterest(m, borrowRate, block) ==
  LET factor   == borrowRate * (block - m.accrualBlockNumber)
      interest == mulScalarTruncate(factor, m.totalBorrows)
  IN  [m EXCEPT
        !.accrualBlockNumber = block,
        !.borrowIndex = mulScalarTruncateAddUInt(factor, @, @),
        !.totalBorrows = @ + interest,
        !.totalReserves =
            mulScalarTruncateAddUInt(m.reserveFactorMantissa, interest, @)]

\* The automatic sweep of the reserves to the protocol share reserve.
withReservesReduced(m, block) ==
  IF block - m.reduceReservesBlockNumber >= m.reduceReservesBlockDelta
    THEN reduceReservesFresh(
           [m EXCEPT !.reduceReservesBlockNumber = block],
           IF m.cash < m.totalReserves THEN m.cash ELSE m.totalReserves)
    ELSE m

accrueInterest(m, borrowRate, block) ==
  IF m.accrualBlockNumber = block
    THEN m
    ELSE withReservesReduced(withInterest(m, borrowRate, block), block)

addReservesFresh(m, amount) ==
  [m EXCEPT !.cash = @ + amount, !.totalReserves = @ + amount]

-----------------------------------------------------------------------------
(* Suppliers. *)

mintTokensFor(m, amount) ==
  divScalarByExpTruncate(amount, exchangeRateStored(m))

\* divScalarByExp fails on a rate of zero.
canMint(m) == exchangeRateDefined(m) /\ exchangeRateStored(m) > 0

mintFresh(m, minter, amount) ==
  LET mintTokens == mintTokensFor(m, amount)
  IN  [m EXCEPT !.cash = @ + amount,
                !.totalSupply = @ + mintTokens,
                !.accountTokens[minter] = @ + mintTokens]

redeemAmountFor(m, redeemTokens) ==
  mulScalarTruncate(exchangeRateStored(m), redeemTokens)

redeemTokensFor(m, redeemAmount) ==
  divScalarByExpTruncate(redeemAmount, exchangeRateStored(m))

\* Mutant: without the redeemVerify hook.
canRedeem_noVerify(m, redeemer, redeemTokens, redeemAmount) ==
  /\ exchangeRateDefined(m)
  /\ redeemTokens <= m.totalSupply
  /\ redeemTokens <= m.accountTokens[redeemer]
  /\ redeemAmount <= m.cash

\* The subUInt checks, the cash check, and redeemVerify of the comptroller.
canRedeem(m, redeemer, redeemTokens, redeemAmount) ==
  /\ exchangeRateDefined(m)
  /\ redeemTokens <= m.totalSupply
  /\ redeemTokens <= m.accountTokens[redeemer]
  /\ redeemAmount <= m.cash
  /\ redeemTokens # 0 \/ redeemAmount = 0

redeemFresh(m, redeemer, redeemTokens, redeemAmount) ==
  [m EXCEPT !.totalSupply = @ - redeemTokens,
            !.accountTokens[redeemer] = @ - redeemTokens,
            !.cash = @ - redeemAmount]

\* Mutant: self-transfers are not refused.
canMove_self(m, src, dst, tokens) == tokens <= m.accountTokens[src]

\* transferTokens: fails on src = dst and when a subUInt underflows.
canMove(m, src, dst, tokens) == src # dst /\ tokens <= m.accountTokens[src]

\* Both new balances are computed before either is written.
moveTokens(m, src, dst, tokens) ==
  LET srcTokensNew == m.accountTokens[src] - tokens
      dstTokensNew == m.accountTokens[dst] + tokens
  IN  [m EXCEPT !.accountTokens =
         [@ EXCEPT ![src] = srcTokensNew, ![dst] = dstTokensNew]]

-----------------------------------------------------------------------------
(* Borrowers. *)

canBorrow(m, borrowAmount) == borrowAmount <= m.cash

\* Mutant: the snapshot keeps its old index.
borrowFresh_oldIndex(m, borrower, borrowAmount) ==
  LET accountBorrows == borrowBalanceStored(m, borrower)
  IN  [m EXCEPT !.principal[borrower] = accountBorrows + borrowAmount,
                !.totalBorrows = @ + borrowAmount,
                !.cash = @ - borrowAmount]

\* Mutant: totalBorrows is not written back.
borrowFresh_oldTotal(m, borrower, borrowAmount) ==
  LET accountBorrows == borrowBalanceStored(m, borrower)
  IN  [m EXCEPT !.principal[borrower] = accountBorrows + borrowAmount,
                !.interestIndex[borrower] = m.borrowIndex,
                !.cash = @ - borrowAmount]

borrowFresh(m, borrower, borrowAmount) ==
  LET accountBorrows == borrowBalanceStored(m, borrower)
  IN  [m EXCEPT !.principal[borrower] = accountBorrows + borrowAmount,
                !.interestIndex[borrower] = m.borrowIndex,
                !.totalBorrows = @ + borrowAmount,
                !.cash = @ - borrowAmount]

\* Both subtractions of repayBorrowFresh revert on underflow.
canRepay(m, borrower, repayAmount) ==
  /\ repayAmount <= borrowBalanceStored(m, borrower)
  /\ repayAmount <= m.totalBorrows

repayBorrowFresh(m, borrower, repayAmount) ==
  LET accountBorrows == borrowBalanceStored(m, borrower)
  IN  [m EXCEPT !.principal[borrower] = accountBorrows - repayAmount,
                !.interestIndex[borrower] = m.borrowIndex,
                !.totalBorrows = @ - repayAmount,
                !.cash = @ + repayAmount]

-----------------------------------------------------------------------------
(* What must hold of a market between two calls. *)

\* Every vToken belongs to somebody.
tokensConserved(m) == m.totalSupply = Total(m.accountTokens)

\* Debts are measured against indices that were really reached.
snapshotsReached(m) ==
  /\ m.borrowIndex >= expScale
  /\ \A a \in Accounts :
       m.principal[a] > 0 => m.interestIndex[a] \in expScale .. m.borrowIndex
=============================================================================
