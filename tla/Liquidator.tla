------------------------------ MODULE Liquidator ------------------------------
(***************************************************************************)
(* Liquidator.sol, through which liquidations go: it splits the seized     *)
(* vTokens between the caller and the protocol, redeems the protocol's     *)
(* part at once, or, when the market cannot pay, queues the market and     *)
(* tries again in chunks after every later liquidation; and                *)
(* BUSDLiquidator.sol, a caller that splits what it gets once more,        *)
(* between its own caller and the treasury.                                *)
(*                                                                         *)
(* External: the markets, whose cash others take and bring back, with one  *)
(* vToken for one underlying, and prices of 1.  Who may liquidate whom is  *)
(* arbitrary: restrictions, and VAI that must be repaid first, only refuse *)
(* calls.                                                                  *)
(***************************************************************************)
EXTENDS Exponential, Sequences, Functions

CONSTANTS
  VTokens,
  Amounts,                          \* of debt repaid
  Incentives,                       \* of collateral, as the comptroller gives them
  TreasuryPercents, ChunkLengths,   \* arguments of the setters
  LiquidatorShares,
  MaxCash, MaxHeld, MaxRepay        \* bounds of the model

ASSUME LiquidatorAssumption ==
  /\ Amounts \subseteq Nat /\ MaxCash \in Nat
  /\ \A incentive \in Incentives : incentive \in Nat /\ incentive >= expScale
  /\ TreasuryPercents \cup LiquidatorShares \subseteq 0 .. expScale
  /\ ChunkLengths \subseteq Nat \ {0}

VARIABLES
  treasuryPercent, pendingRedeemChunkLength,
  liquidatorShare,   \* of BUSDLiquidator
  pendingRedeem,
  held,           \* the balance of the contract in every market
  cash            \* what every market can pay

queue == <<pendingRedeem, held, cash>>
settings == <<treasuryPercent, pendingRedeemChunkLength, liquidatorShare>>
vars == <<settings, queue>>

TypeOK ==
  /\ treasuryPercent \in 0 .. expScale /\ pendingRedeemChunkLength \in Nat
  /\ liquidatorShare \in 0 .. expScale
  /\ pendingRedeem \in Seq(VTokens)
  /\ held \in [VTokens -> Nat] /\ cash \in [VTokens -> Nat]

\* initialize leaves the chunk length at 0: nothing queued is redeemed.
Init ==
  /\ treasuryPercent \in TreasuryPercents /\ pendingRedeemChunkLength = 0
  /\ liquidatorShare \in LiquidatorShares
  /\ pendingRedeem = <<>>
  /\ held = [v \in VTokens |-> 0]
  /\ cash \in [VTokens -> 0 .. MaxCash]
-----------------------------------------------------------------------------
(* Redemptions, on the record q of the queue and its balances. *)

theQueue == [pendingRedeem |-> pendingRedeem, held |-> held, cash |-> cash]

BecomesQueue(q) ==
  pendingRedeem' = q.pendingRedeem /\ held' = q.held /\ cash' = q.cash

\* _redeemUnderlying catches every failure.
canRedeem(q, v, amount) == amount <= q.cash[v]

\* The underlying goes on to the protocol share reserve.
redeem(q, v, amount) ==
  [q EXCEPT !.held[v] = @ - amount, !.cash[v] = @ - amount]

\* Mutant: the entry after the index is removed.
removed_next(s, index) ==
  IF index = Len(s) THEN SubSeq(s, 1, Len(s) - 1)
  ELSE [i \in 1 .. Len(s) - 1 |-> IF i = index + 1 THEN s[Len(s)] ELSE s[i]]

\* The last entry takes the place of the removed one.
removed(s, index) ==
  [i \in 1 .. Len(s) - 1 |-> IF i = index THEN s[Len(s)] ELSE s[i]]

\* Mutant: the first entry of a chunk is left out.
chunkOf_butFirst(s) ==
  LET range == IF Len(s) >= pendingRedeemChunkLength THEN pendingRedeemChunkLength ELSE Len(s)
  IN  IF range = 0 THEN 0 ELSE range - 1

\* How many entries are looked at.
chunkOf(s) ==
  IF Len(s) >= pendingRedeemChunkLength THEN pendingRedeemChunkLength ELSE Len(s)

\* One turn of the loop of _reduceReservesInternal.
reduceEntry(q, index) ==
  LET v == q.pendingRedeem[index]
  IN  IF canRedeem(q, v, q.held[v])
        THEN [redeem(q, v, q.held[v]) EXCEPT !.pendingRedeem = removed(@, index)]
        ELSE q

\* From the end of the chunk to the front, while entries leave it.
reduceReserves(q) ==
  LET range == chunkOf(q.pendingRedeem)
      after[n \in 0 .. range] ==
        IF n = 0 THEN q ELSE reduceEntry(after[n - 1], range - n + 1)
  IN  after[range]
-----------------------------------------------------------------------------
(* Liquidations. *)

\* The part of an amount by which it exceeds what was repaid.
bonusOf(amount, incentive) == (amount * (incentive - expScale)) \div incentive

\* _splitLiquidationIncentive: a part of the bonus, never of the repaid value.
ourShare(amount, incentive) == mulScalarTruncate(treasuryPercent, bonusOf(amount, incentive))

\* Mutant: BUSDLiquidator takes the incentive that the borrower paid for the
\* one it got.
effectiveIncentive_whole(incentive) == incentive

\* What is left of the incentive after the first split.
effectiveIncentive(incentive) ==
  expScale + mulScalarTruncate(incentive - expScale, expScale - treasuryPercent)

\* _computeShares of BUSDLiquidator: what the treasury takes of the rest.
treasuryShare(amount, incentive) ==
  mulScalarTruncate(expScale - liquidatorShare, bonusOf(amount, effectiveIncentive(incentive)))

queued(s, v) == IF v \in Range(s) THEN s ELSE Append(s, v)

\* _distributeLiquidationIncentive, for the part of the protocol.
withShare(q, v, ours) ==
  LET r == [q EXCEPT !.held[v] = @ + ours]
  IN  IF canRedeem(r, v, ours) THEN redeem(r, v, ours)
      ELSE [r EXCEPT !.pendingRedeem = queued(@, v)]

\* What the market seizes, by the incentive of the collateral.
seizeTokens(repayAmount, incentive) == mulScalarTruncate(incentive, repayAmount)

\* liquidateBorrow.
LiquidateBorrow(v, repayAmount, incentive) ==
  LET ours == ourShare(seizeTokens(repayAmount, incentive), incentive)
  IN  /\ held[v] + ours <= MaxHeld
      /\ BecomesQueue(reduceReserves(withShare(theQueue, v, ours)))
      /\ UNCHANGED settings

ReduceReserves == BecomesQueue(reduceReserves(theQueue)) /\ UNCHANGED settings

SetTreasuryPercent(percent) ==
  /\ treasuryPercent' = percent
  /\ UNCHANGED <<pendingRedeemChunkLength, liquidatorShare, queue>>

SetPendingRedeemChunkLength(length) ==
  /\ pendingRedeemChunkLength' = length
  /\ UNCHANGED <<treasuryPercent, liquidatorShare, queue>>

SetLiquidatorShare(share) ==
  /\ liquidatorShare' = share
  /\ UNCHANGED <<treasuryPercent, pendingRedeemChunkLength, queue>>

\* Others borrow from a market, repay, or pause and resume it.
SetCash(v, amount) ==
  cash' = [cash EXCEPT ![v] = amount] /\ UNCHANGED <<settings, pendingRedeem, held>>

\* vTokens that somebody sends to the contract wait for the next share of
\* the same market that is queued.
Donate(v) ==
  /\ held[v] = 0 /\ held' = [held EXCEPT ![v] = 1]
  /\ UNCHANGED <<settings, pendingRedeem, cash>>

Next ==
  \/ \E v \in VTokens, amount \in Amounts, incentive \in Incentives :
       LiquidateBorrow(v, amount, incentive)
  \/ ReduceReserves
  \/ \E percent \in TreasuryPercents : SetTreasuryPercent(percent)
  \/ \E length \in ChunkLengths : SetPendingRedeemChunkLength(length)
  \/ \E share \in LiquidatorShares : SetLiquidatorShare(share)
  \/ \E v \in VTokens, amount \in 0 .. MaxCash : SetCash(v, amount)
  \/ \E v \in VTokens : Donate(v)

\* Anyone may call reduceReserves, and every liquidation does.
Fairness == WF_vars(ReduceReserves)

Spec == Init /\ [][Next]_vars /\ Fairness
-----------------------------------------------------------------------------
(* Properties. *)

\* No share of the protocol is forgotten: what stays in the contract after a
\* liquidation is queued, once, and nothing leaves the queue but by being
\* redeemed whole, while entries are moved over each other within one call.
NothingForgotten ==
  [][/\ IsInjective(pendingRedeem')
     /\ \A v \in VTokens :
          /\ held'[v] > held[v] => v \in Range(pendingRedeem') \/ Donate(v)
          /\ v \in Range(pendingRedeem) \ Range(pendingRedeem') => held'[v] = 0]_vars

\* However the roundings fall, and whatever is taken for the protocol and for
\* the treasury, one split after the other, a liquidator gets at least what
\* was repaid.
LiquidatorsNeverLose ==
  \A amount \in 0 .. MaxRepay, incentive \in Incentives :
    LET taken == seizeTokens(amount, incentive)
        got == taken - ourShare(taken, incentive)
    IN  got >= amount /\ got - treasuryShare(got, incentive) >= amount

\* Once every market stays able to pay, the queue is emptied, for every chunk
\* length that governance sets, unless it leaves it at 0.
RedemptionsComplete ==
  <>[](pendingRedeemChunkLength > 0 /\ \A v \in VTokens : held[v] <= cash[v])
    => []<>(pendingRedeem = <<>>)
=============================================================================
