----------------------------- MODULE RateModels -----------------------------
(***************************************************************************)
(* The interest rate models as contracts: what their constructors keep and *)
(* what getBorrowRate answers, and the view that switches from one to      *)
(* another at a checkpoint.                                                *)
(*                                                                         *)
(* A rate is kept per year, beside the blocksPerYear the constructor       *)
(* divides it by: the quotient is exact but for less than one unit of      *)
(* 1e-18 per block.  A utilization is a mantissa, and above Mantissa when  *)
(* reserves have been lent or redeemed: nothing keeps them in the market.  *)
(***************************************************************************)
EXTENDS MarketConfig, FiniteSetsExt

\* A deployed model: what its constructor was given.
rateModel(params, perYear) == [params |-> params, blocksPerYear |-> perYear]

\* What constructors take: the model with two kinks computes in signed numbers.
Curves ==
  [model : {"whitepaper"}, baseRatePerYear : Nat, multiplierPerYear : Nat]
  \cup [model : {"jump"}, baseRatePerYear : Nat, multiplierPerYear : Nat,
        jumpMultiplierPerYear : Nat, kink : Nat]
  \cup [model : {"two-kinks"}, baseRatePerYear : Int, multiplierPerYear : Int,
        kink : Int, multiplierPerYear2 : Int, baseRatePerYear2 : Int,
        kink2 : Int, jumpMultiplierPerYear : Int]

\* (x * y) \div Mantissa, without the large product.
mul(x, y) == (x \div Mantissa) * y + ((x % Mantissa) * y) \div Mantissa

\* What a market tells its model.
Books == [cash : Nat, borrows : Nat, reserves : Nat]

\* The subtraction and the division of utilizationRate revert on other books.
rateDefined(b) == b.borrows = 0 \/ b.cash + b.borrows > b.reserves

\* Only the model with two kinks stops at 1.
utilizationRate(p, b) ==
  LET rate == (b.borrows * Mantissa) \div (b.cash + b.borrows - b.reserves)
  IN CASE b.borrows = 0 -> 0
       [] b.borrows # 0 /\ p.model = "two-kinks" -> Min({rate, Mantissa})
       [] b.borrows # 0 /\ p.model # "two-kinks" -> rate

whitePaperRate(p, util) == mul(util, p.multiplierPerYear) + p.baseRatePerYear

\* Above the kink the rate starts from the base again.
jumpRate_restart(p, util) ==
  IF util <= p.kink
    THEN mul(util, p.multiplierPerYear) + p.baseRatePerYear
    ELSE mul(util - p.kink, p.jumpMultiplierPerYear) + p.baseRatePerYear

jumpRate(p, util) ==
  IF util <= p.kink
    THEN mul(util, p.multiplierPerYear) + p.baseRatePerYear
    ELSE mul(util - p.kink, p.jumpMultiplierPerYear)
         + mul(p.kink, p.multiplierPerYear) + p.baseRatePerYear

\* Quotients here truncate downwards, and _minCap keeps the rate from being
\* negative.
twoKinksRate(p, util) ==
  LET RATE_1 == mul(p.kink, p.multiplierPerYear) + p.baseRatePerYear
      RATE_2 == mul(p.kink2 - p.kink, p.multiplierPerYear2) + p.baseRatePerYear2
      rate == CASE util < p.kink -> mul(util, p.multiplierPerYear) + p.baseRatePerYear
                [] p.kink <= util /\ util < p.kink2 ->
                     RATE_1 + mul(util - p.kink, p.multiplierPerYear2)
                     + p.baseRatePerYear2
                [] p.kink2 <= util ->
                     RATE_1 + RATE_2 + mul(util - p.kink2, p.jumpMultiplierPerYear)
  IN Max({0, rate})

\* getBorrowRate over a year, where it is defined.
getBorrowRate(p, b) ==
  LET util == utilizationRate(p, b)
  IN CASE p.model = "whitepaper" -> whitePaperRate(p, util)
       [] p.model = "jump" -> jumpRate(p, util)
       [] p.model = "two-kinks" -> twoKinksRate(p, util)

\* getSupplyRate over a year.
getSupplyRate(p, b, reserveFactor) ==
  mul(utilizationRate(p, b), mul(getBorrowRate(p, b), Mantissa - reserveFactor))

\* borrowRateMaxMantissa, 0.0005e16 per block, over a year.
borrowRateMax(perYear) == perYear \div 10
-----------------------------------------------------------------------------
(* CheckpointView. *)

checkpointView(old, new, at) ==
  [DATA_SOURCE_1 |-> old, DATA_SOURCE_2 |-> new, CHECKPOINT_TIMESTAMP |-> at]

isCheckpointView(c) == "DATA_SOURCE_1" \in DOMAIN c

\* The checkpoint is taken the wrong way round.
currentDataSource_swapped(view, timestamp) ==
  IF timestamp < view.CHECKPOINT_TIMESTAMP
    THEN view.DATA_SOURCE_2 ELSE view.DATA_SOURCE_1

currentDataSource(view, timestamp) ==
  IF timestamp < view.CHECKPOINT_TIMESTAMP
    THEN view.DATA_SOURCE_1 ELSE view.DATA_SOURCE_2

\* The model that answers a call to c, a model or a view.
answering(c, timestamp) ==
  IF isCheckpointView(c) THEN currentDataSource(c, timestamp) ELSE c
=============================================================================
