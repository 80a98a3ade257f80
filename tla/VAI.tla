--------------------------------- MODULE VAI ---------------------------------
(***************************************************************************)
(* The stablecoin VAI: what VAIController.sol lends against collateral,    *)
(* with a debt per account that is recorded in the comptroller, and what   *)
(* PegStability.sol swaps for another stablecoin.  Both mint and burn the  *)
(* same token.                                                             *)
(*                                                                         *)
(* External here: the collateral of a minter (also 0, for want of a Prime  *)
(* token), the shortfall of a liquidated borrower, the oracle, which may   *)
(* answer another price at every call, and the VAI token.  receiver and    *)
(* both treasury addresses are one account, the swapped stablecoin has 18  *)
(* decimals and takes no fee on transfer.                                  *)
(***************************************************************************)
EXTENDS Exponential, Totals

CONSTANTS
  Accounts, treasury,
  PoolIds, CORE_POOL_ID,
  blocksPerYear, closeFactorMantissa, BASIS_POINTS_DIVISOR,
  Amounts, Collaterals, Prices,
  Rates, MintCaps, TreasuryPercents, Fees,  \* arguments of the setters
  MaxBlock, MaxStable                       \* bounds of the model

ASSUME VAIAssumption ==
  /\ IsFiniteSet(Accounts) /\ treasury \notin Accounts
  /\ CORE_POOL_ID \in PoolIds
  /\ {blocksPerYear, BASIS_POINTS_DIVISOR} \subseteq Nat \ {0}
  /\ closeFactorMantissa \in 0 .. expScale
  /\ Amounts \cup Collaterals \cup Prices \cup Rates \cup MintCaps \subseteq Nat
  /\ TreasuryPercents \subseteq 0 .. expScale - 1
  /\ Fees \subseteq 0 .. BASIS_POINTS_DIVISOR - 1

VARIABLES
  balanceOf,               \* the VAI token
  mintedVAIs, userPoolId,  \* of the comptroller, the first written for the controller
  pastVAIInterest, vaiMinterInterestIndex, vaiMintIndex, accrualBlockNumber,
  controller,              \* the parameters of VAIController
  psm,                     \* PegStability and the stablecoin it holds
  blockNumber

debts == <<mintedVAIs, pastVAIInterest, vaiMinterInterestIndex>>
accrual == <<vaiMintIndex, accrualBlockNumber>>
vars == <<balanceOf, userPoolId, debts, accrual, controller, psm, blockNumber>>

Holders == Accounts \cup {treasury}

Controller == [baseRateMantissa : Nat, floatRateMantissa : Nat, mintCap : Nat,
               treasuryPercent : 0 .. expScale - 1, protocolPaused : BOOLEAN]
PegStability == [vaiMinted : Nat, stable : Nat, vaiMintCap : Nat, isPaused : BOOLEAN,
                 feeIn : 0 .. BASIS_POINTS_DIVISOR - 1,
                 feeOut : 0 .. BASIS_POINTS_DIVISOR - 1]

TypeOK ==
  /\ balanceOf \in [Holders -> Nat]
  /\ mintedVAIs \in [Accounts -> Nat]
  /\ userPoolId \in [Accounts -> PoolIds]
  /\ pastVAIInterest \in [Accounts -> Nat]
  /\ vaiMinterInterestIndex \in [Accounts -> Nat]
  /\ vaiMintIndex \in Nat /\ accrualBlockNumber \in Nat /\ blockNumber \in Nat
  /\ controller \in Controller
  /\ psm \in PegStability

INITIAL_VAI_MINT_INDEX == expScale

InitWith(rates, cap, peg) ==
  /\ balanceOf = [h \in Holders |-> 0]
  /\ mintedVAIs = [a \in Accounts |-> 0]
  /\ userPoolId = [a \in Accounts |-> CORE_POOL_ID]
  /\ pastVAIInterest = [a \in Accounts |-> 0]
  /\ vaiMinterInterestIndex = [a \in Accounts |-> 0]
  /\ vaiMintIndex = INITIAL_VAI_MINT_INDEX
  /\ accrualBlockNumber = 1 /\ blockNumber = 1
  /\ controller = [baseRateMantissa |-> rates[1], floatRateMantissa |-> rates[2],
                   mintCap |-> cap, treasuryPercent |-> 0, protocolPaused |-> FALSE]
  /\ psm = peg

Init ==
  \E cap, pegCap \in MintCaps, feeIn, feeOut \in Fees :
    InitWith(<<0, 0>>, cap, [vaiMinted |-> 0, stable |-> 0, vaiMintCap |-> pegCap,
                             isPaused |-> FALSE, feeIn |-> feeIn, feeOut |-> feeOut])
-----------------------------------------------------------------------------
(* The interest on VAI. *)

\* The further VAI is below its peg, the more the float rate counts.
getVAIRepayRate(price) ==
  IF controller.baseRateMantissa = 0 THEN 0
  ELSE controller.baseRateMantissa
       + (IF price < expScale
            THEN ((expScale - price) * controller.floatRateMantissa) \div expScale ELSE 0)

\* The index after accrueVAIInterest().
accruedIndex(price) ==
  vaiMintIndex
  + (getVAIRepayRate(price) \div blocksPerYear) * (blockNumber - accrualBlockNumber)

AccruedIndices == {accruedIndex(price) : price \in Prices}

accrueTo(index) == vaiMintIndex' = index /\ accrualBlockNumber' = blockNumber

\* Mutant: the index of the last mint is not looked at.
getVAIMinterInterestIndex_first(a) == INITIAL_VAI_MINT_INDEX

getVAIMinterInterestIndex(a) ==
  IF vaiMinterInterestIndex[a] = 0 THEN INITIAL_VAI_MINT_INDEX
                                   ELSE vaiMinterInterestIndex[a]

\* What has been minted and not burnt.
principal(a) == mintedVAIs[a] - pastVAIInterest[a]

\* Interest since the last mint, on the principal alone.
newInterest(a, index) ==
  mulScalarTruncate(index - getVAIMinterInterestIndex(a), principal(a))

getVAIRepayAmount(a, index) == mintedVAIs[a] + newInterest(a, index)

\* The share of one part of the debt that repaying amount of the total pays.
shareOf(part, amount, total) ==
  IF amount >= total THEN part ELSE mulScalarTruncate(getExp(amount, total), part)

\* Mutant: interest of the present is burnt with the principal.
getVAICalculateRepayAmount_burnt(borrower, amount, index) ==
  LET total == getVAIRepayAmount(borrower, index)
      past == pastVAIInterest[borrower]
  IN  [burn |-> shareOf(total - past, amount, total),
       currentInterest |-> shareOf(past, amount, total),
       pastInterest |-> shareOf(past, amount, total)]

\* A repayment pays every part of the debt in proportion: principal is
\* burnt, all interest goes to the receiver, and the interest that earlier
\* mints have written into mintedVAIs is taken out of it again.
getVAICalculateRepayAmount(borrower, amount, index) ==
  LET total == getVAIRepayAmount(borrower, index)
      interest == pastVAIInterest[borrower] + newInterest(borrower, index)
  IN  [burn |-> shareOf(principal(borrower), amount, total),
       currentInterest |-> shareOf(interest, amount, total),
       pastInterest |-> shareOf(pastVAIInterest[borrower], amount, total)]
-----------------------------------------------------------------------------
(* VAIController. *)

\* Mint against collateral; the fee goes to the treasury.  Interest so far
\* becomes part of mintedVAIs, and the index starts anew.
MintVAI(minter, amount, collateral) ==
  \E index \in AccruedIndices :
    LET owed == getVAIRepayAmount(minter, index)
        fee == mulScalarTruncate(controller.treasuryPercent, amount)
    IN  /\ userPoolId[minter] = CORE_POOL_ID
        /\ amount > 0 /\ ~controller.protocolPaused
        /\ Total(balanceOf) + amount <= controller.mintCap
        /\ owed + amount <= collateral
        /\ accrueTo(index)
        /\ pastVAIInterest' = [pastVAIInterest EXCEPT ![minter] = @ + newInterest(minter, index)]
        /\ mintedVAIs' = [mintedVAIs EXCEPT ![minter] = owed + amount]
        /\ vaiMinterInterestIndex' = [vaiMinterInterestIndex EXCEPT ![minter] = index]
        /\ balanceOf' = [balanceOf EXCEPT ![treasury] = @ + fee,
                                          ![minter] = @ + (amount - fee)]
        /\ UNCHANGED <<userPoolId, controller, psm, blockNumber>>

\* repayVAIFresh: the payer needs the VAI of both parts.
repayVAIFresh(payer, borrower, amount, index) ==
  LET parts == getVAICalculateRepayAmount(borrower, amount, index)
  IN  /\ balanceOf[payer] >= parts.burn + parts.currentInterest
      /\ accrueTo(index)
      /\ balanceOf' = [balanceOf EXCEPT ![payer] = @ - (parts.burn + parts.currentInterest),
                                        ![treasury] = @ + parts.currentInterest]
      /\ mintedVAIs' =
           [mintedVAIs EXCEPT ![borrower] = @ - (parts.burn + parts.pastInterest)]
      /\ pastVAIInterest' = [pastVAIInterest EXCEPT ![borrower] = @ - parts.pastInterest]
      /\ UNCHANGED <<userPoolId, vaiMinterInterestIndex, controller, psm, blockNumber>>

\* repayVAI and repayVAIBehalf.
RepayVAI(payer, borrower, amount) ==
  /\ amount > 0 /\ ~controller.protocolPaused
  /\ \E index \in AccruedIndices : repayVAIFresh(payer, borrower, amount, index)

\* liquidateVAI with the checks of liquidateBorrowAllowed: up to the close
\* factor from a borrower with a shortfall, everything if governance forces it.
LiquidateVAI(liquidator, borrower, amount, forced) ==
  /\ amount > 0 /\ ~controller.protocolPaused /\ borrower # liquidator
  /\ \E index \in AccruedIndices :
       LET owed == getVAIRepayAmount(borrower, index)
       IN  /\ amount <= (IF forced THEN owed
                         ELSE mulScalarTruncate(closeFactorMantissa, owed))
           /\ repayVAIFresh(liquidator, borrower, amount, index)

\* accrueVAIInterest, and a liquidation that is rejected after it.
AccrueVAIInterest ==
  /\ \E index \in AccruedIndices : accrueTo(index)
  /\ UNCHANGED <<balanceOf, userPoolId, debts, controller, psm, blockNumber>>

\* setBaseRate, setFloatRate (neither accrues before), setMintCap,
\* _setTreasuryData and _setProtocolPaused of the comptroller.
SetController(c) ==
  /\ controller' = c
  /\ UNCHANGED <<balanceOf, userPoolId, debts, accrual, psm, blockNumber>>

SetBaseRate(rate) == SetController([controller EXCEPT !.baseRateMantissa = rate])
SetFloatRate(rate) == SetController([controller EXCEPT !.floatRateMantissa = rate])
SetMintCap(cap) == SetController([controller EXCEPT !.mintCap = cap])
SetTreasuryPercent(percent) == SetController([controller EXCEPT !.treasuryPercent = percent])
SetProtocolPaused(paused) == SetController([controller EXCEPT !.protocolPaused = paused])

\* As far as VAI goes; the borrows in markets are those of Comptroller.
hasValidPoolBorrows(account, pool) ==
  pool = CORE_POOL_ID \/ mintedVAIs[account] = 0

\* enterPool of the comptroller.
EnterPool(account, pool) ==
  /\ pool # userPoolId[account] /\ hasValidPoolBorrows(account, pool)
  /\ userPoolId' = [userPoolId EXCEPT ![account] = pool]
  /\ UNCHANGED <<balanceOf, debts, accrual, controller, psm, blockNumber>>
-----------------------------------------------------------------------------
(* PegStability.  A dollar is expScale; the price of the stablecoin is that *)
(* of the oracle, but never to the disadvantage of the module.              *)

Smaller(a, b) == IF a < b THEN a ELSE b
Larger(a, b) == IF a > b THEN a ELSE b

\* Mutant: the oracle is believed above a dollar as well.
usdIn_oracle(amount, price) == mulScalarTruncate(price, amount)
usdIn(amount, price) == mulScalarTruncate(Smaller(price, expScale), amount)
usdOut(amount, price) == mulScalarTruncate(Larger(price, expScale), amount)

\* A fee that would round to 0 makes the swap revert.
feeDefined(amount, fee) == fee = 0 \/ amount * fee >= BASIS_POINTS_DIVISOR
feeOf(amount, fee) == (amount * fee) \div BASIS_POINTS_DIVISOR

SwapStableForVAI(receiver, amount, price) ==
  LET usd == usdIn(amount, price)
      fee == feeOf(usd, psm.feeIn)
  IN  /\ amount > 0 /\ ~psm.isPaused /\ feeDefined(usd, psm.feeIn)
      /\ psm.vaiMinted + usd <= psm.vaiMintCap /\ psm.stable + amount <= MaxStable
      /\ psm' = [psm EXCEPT !.vaiMinted = @ + usd, !.stable = @ + amount]
      /\ balanceOf' = [balanceOf EXCEPT ![receiver] = @ + (usd - fee), ![treasury] = @ + fee]
      /\ UNCHANGED <<userPoolId, debts, accrual, controller, blockNumber>>

SwapVAIForStable(sender, amount, price) ==
  LET usd == usdOut(amount, price)
      fee == feeOf(usd, psm.feeOut)
  IN  /\ amount > 0 /\ ~psm.isPaused /\ feeDefined(usd, psm.feeOut)
      /\ balanceOf[sender] >= usd + fee
      /\ psm.vaiMinted >= usd /\ psm.stable >= amount
      /\ psm' = [psm EXCEPT !.vaiMinted = @ - usd, !.stable = @ - amount]
      /\ balanceOf' = [balanceOf EXCEPT ![sender] = @ - (usd + fee), ![treasury] = @ + fee]
      /\ UNCHANGED <<userPoolId, debts, accrual, controller, blockNumber>>

\* setFeeIn, setFeeOut, setVAIMintCap, pause and resume.
SetPsm(p) ==
  /\ psm' = p
  /\ UNCHANGED <<balanceOf, userPoolId, debts, accrual, controller, blockNumber>>

SetFeeIn(fee) == SetPsm([psm EXCEPT !.feeIn = fee])
SetFeeOut(fee) == SetPsm([psm EXCEPT !.feeOut = fee])
SetVAIMintCap(cap) == SetPsm([psm EXCEPT !.vaiMintCap = cap])
SetPaused(paused) == psm.isPaused # paused /\ SetPsm([psm EXCEPT !.isPaused = paused])
-----------------------------------------------------------------------------
\* transfer of the VAI token.
Transfer(src, dst, amount) ==
  /\ src # dst /\ balanceOf[src] >= amount
  /\ balanceOf' = [balanceOf EXCEPT ![src] = @ - amount, ![dst] = @ + amount]
  /\ UNCHANGED <<userPoolId, debts, accrual, controller, psm, blockNumber>>

NextBlock ==
  /\ blockNumber < MaxBlock
  /\ blockNumber' = blockNumber + 1
  /\ UNCHANGED <<balanceOf, userPoolId, debts, accrual, controller, psm>>

UserStep ==
  \E a \in Accounts :
    \/ \E amount \in Amounts :
         \/ \E collateral \in Collaterals : MintVAI(a, amount, collateral)
         \/ \E b \in Accounts : RepayVAI(a, b, amount)
         \/ \E b \in Accounts, forced \in BOOLEAN : LiquidateVAI(a, b, amount, forced)
         \/ \E price \in Prices : SwapStableForVAI(a, amount, price)
         \/ \E price \in Prices : SwapVAIForStable(a, amount, price)
    \/ \E pool \in PoolIds : EnterPool(a, pool)

GovernanceStep ==
  \/ \E rate \in Rates : SetBaseRate(rate) \/ SetFloatRate(rate)
  \/ \E cap \in MintCaps : SetMintCap(cap) \/ SetVAIMintCap(cap)
  \/ \E percent \in TreasuryPercents : SetTreasuryPercent(percent)
  \/ \E fee \in Fees : SetFeeIn(fee) \/ SetFeeOut(fee)
  \/ \E paused \in BOOLEAN : SetProtocolPaused(paused) \/ SetPaused(paused)

Next ==
  \/ UserStep \/ GovernanceStep \/ AccrueVAIInterest \/ NextBlock
  \/ \E src, dst \in Holders, amount \in Amounts : Transfer(src, dst, amount)

Spec == Init /\ [][Next]_vars
-----------------------------------------------------------------------------
(* Properties. *)

\* What a debt is computed from can be subtracted: otherwise every hook that
\* asks for the liquidity of the account reverts, its liquidation included.
DebtsComputable ==
  \A a \in Accounts :
    /\ pastVAIInterest[a] <= mintedVAIs[a]
    /\ getVAIMinterInterestIndex(a) <= vaiMintIndex

\* Every VAI in circulation is the principal of somebody's debt, or has been
\* swapped in; interest circulates, but neither mints nor burns.
SupplyIsOwed ==
  Total(balanceOf) = Total([a \in Accounts |-> principal(a)]) + psm.vaiMinted

\* The stablecoins PegStability holds cover the VAI it has minted, at
\* whatever prices it was swapped.
PegCovered == psm.vaiMinted <= psm.stable

\* Only members of the core pool, whose liquidity counts VAI, owe any.
VAIOnlyInCorePool ==
  \A a \in Accounts : mintedVAIs[a] > 0 => userPoolId[a] = CORE_POOL_ID

\* The debt of an account, brought to the index of the step, changes but by
\* what is minted, exactly, or by what is paid for it, within the roundings.  A
\* payment may lower it by one unit more, or by one less; and by less again by
\* the interest on one unit, as the principal is burnt by a truncated share,
\* and what was not burnt keeps its interest.
followsPayments(a) ==
  LET before == getVAIRepayAmount(a, vaiMintIndex')
      after == getVAIRepayAmount(a, vaiMintIndex)'
      held(f) == Total(f) - f[treasury]
      paid == held(balanceOf) - held(balanceOf')
      growth == vaiMintIndex' - getVAIMinterInterestIndex(a)
      unitInterest == (growth + expScale - 1) \div expScale
  IN  \/ after = before
      \/ after > before /\ after - before = Total(balanceOf') - Total(balanceOf)
      \/ after < before /\ before - after \in (paid - (1 + unitInterest)) .. (paid + 1)

\* Nobody's debt changes in any other way: a repayment that drops interest, or
\* a mint that counts it twice, is found here however the debt is composed.
DebtsFollowPayments == [][\A a \in Accounts : followsPayments(a)]_vars
=============================================================================
