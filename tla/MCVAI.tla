-------------------------------- MODULE MCVAI --------------------------------
(* Two accounts that mint, repay and liquidate while the rate is above 0 and *)
(* governance changes it; one account that also swaps, with fees, while the  *)
(* price of the stablecoin moves around the dollar.                          *)
EXTENDS VAI

CONSTANTS alice, bob

VARIABLE scenario

MCAccounts == {alice, bob}

MCPsm(feeIn, feeOut, cap) ==
  [vaiMinted |-> 0, stable |-> 0, vaiMintCap |-> cap, isPaused |-> FALSE,
   feeIn |-> feeIn, feeOut |-> feeOut]

MCInit ==
  \/ scenario = "debts" /\ InitWith(<<2, 10>>, 15, MCPsm(0, 0, 0))
  \/ scenario = "pools" /\ InitWith(<<2, 0>>, 6, MCPsm(0, 0, 0))
  \/ scenario = "swaps" /\ InitWith(<<2, 0>>, 8, MCPsm(0, 0, 6))

\* alice owes, and bob, who has VAI of his own, pays for her or liquidates her.
DebtsNext ==
  \/ \E amount \in Amounts, collateral \in Collaterals :
       MintVAI(alice, amount, collateral) \/ (amount = 5 /\ MintVAI(bob, amount, collateral))
  \/ \E a \in Accounts, amount \in Amounts : RepayVAI(a, alice, amount)
  \/ \E amount \in Amounts, forced \in BOOLEAN : LiquidateVAI(bob, alice, amount, forced)
  \/ AccrueVAIInterest \/ NextBlock

PoolsNext ==
  \/ \E a \in Accounts, collateral \in Collaterals : MintVAI(a, 2, collateral)
  \/ \E a \in Accounts, amount \in Amounts : RepayVAI(a, alice, amount)
  \/ \E pool \in PoolIds : EnterPool(alice, pool)
  \/ Transfer(treasury, alice, 2)
  \/ \E rate \in Rates : SetBaseRate(rate) \/ SetFloatRate(rate)
  \/ \E percent \in TreasuryPercents : SetTreasuryPercent(percent)
  \/ \E paused \in BOOLEAN : SetProtocolPaused(paused)
  \/ (blockNumber = 1 /\ NextBlock)

SwapsNext ==
  \/ \E amount \in Amounts, price \in Prices :
       SwapStableForVAI(alice, amount, price) \/ SwapVAIForStable(alice, amount, price)
  \/ \E collateral \in Collaterals : MintVAI(alice, 2, collateral)
  \/ RepayVAI(alice, alice, 2)
  \/ SetFeeIn(1) \/ SetFeeOut(1) \/ SetMintCap(6) \/ SetVAIMintCap(8)
  \/ \E paused \in BOOLEAN : SetPaused(paused)
  \/ (blockNumber = 1 /\ NextBlock)

MCNext ==
  /\ UNCHANGED scenario
  /\ \/ scenario = "debts" /\ DebtsNext
     \/ scenario = "pools" /\ PoolsNext
     \/ scenario = "swaps" /\ SwapsNext

MCSpec == MCInit /\ [][MCNext]_<<vars, scenario>>
=============================================================================
