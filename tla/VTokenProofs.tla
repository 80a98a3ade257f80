---------------------------- MODULE VTokenProofs ----------------------------
(***************************************************************************)
(* The safety theorems of one market, for every set of accounts, every     *)
(* scale, every interest rate model and every bound.  The work is done by  *)
(* the lemmas of VTokenMarketProofs; here the actions are put together.    *)
(***************************************************************************)
EXTENDS VToken, Rewards, Sequences, VTokenMarketProofs

\* The inductive invariant: the type invariant with the three invariants that
\* make its arithmetic well defined.
Inv ==
  /\ MarketInv(market)
  /\ Timely(market, blockNumber)
  /\ transferAllowances \in [Accounts -> [Accounts -> Nat \cup {Unlimited}]]
  /\ blockNumber \in Nat

\* The three ways in which a step changes the number of vTokens.
SupplyAction ==
  \E a \in Accounts, n \in Amounts :
    Mint(a, n) \/ Redeem(a, n) \/ RedeemUnderlying(a, n)

\* What a step does to the market, as far as the invariant and the exchange
\* rate are concerned.
MarketStep ==
  /\ MarketInv(market')
  /\ Timely(market', blockNumber)
  /\ SupplyAction \/ (/\ equity(market') >= equity(market)
                      /\ market'.totalSupply = market.totalSupply)

\* Every market that accrueInterest can produce satisfies the invariant, and
\* has at least the equity of the stored one.
LEMMA AccruedFacts ==
  ASSUME Inv, NEW m \in AccruedMarkets
  PROVE  /\ MarketInv(m) /\ Timely(m, blockNumber)
         /\ equity(m) >= equity(market)
         /\ m.totalSupply = market.totalSupply
         /\ m \in Market /\ market \in Market
         /\ equity(m) \in Int /\ equity(market) \in Int
<1>1. PICK rate \in BorrowRates : m = accrueInterest(market, rate, blockNumber)
  BY DEF AccruedMarkets
<1>2. rate \in Nat /\ blockNumber \in Nat
  BY VTokenAssumption DEF Inv
<1>3. /\ MarketInv(m) /\ Timely(m, blockNumber)
      /\ equity(m) >= equity(market)
      /\ m.totalSupply = market.totalSupply
  BY <1>1, <1>2, AccrueInterestFacts DEF Inv
<1>4. m \in Market /\ market \in Market
  BY <1>3 DEF MarketInv, Inv
<1> QED BY <1>3, <1>4, EquityType

\* A market that keeps the invariant, the block counters, the equity and the
\* supply of an accrued market makes a MarketStep.
LEMMA NeutralStep ==
  ASSUME Inv, NEW m \in AccruedMarkets, MarketInv(market'),
         equity(market') >= equity(m), equity(market') \in Int,
         market'.totalSupply = m.totalSupply,
         market'.accrualBlockNumber = m.accrualBlockNumber,
         market'.reduceReservesBlockNumber = m.reduceReservesBlockNumber
  PROVE  MarketStep
  BY AccruedFacts DEF MarketStep, Timely

-----------------------------------------------------------------------------
\* The steps of suppliers.
LEMMA SupplierMarketStep ==
  ASSUME Inv, SupplierStep
  PROVE  MarketStep /\ UNCHANGED <<transferAllowances, blockNumber>>
<1>1. SupplyAction
  BY DEF SupplyAction, SupplierStep
<1>2. PICK a \in Accounts, n \in Amounts :
        Mint(a, n) \/ Redeem(a, n) \/ RedeemUnderlying(a, n)
  BY DEF SupplierStep
<1>3. n \in Nat
  BY VTokenAssumption
<1>4. CASE Mint(a, n)
  <2>1. PICK m \in AccruedMarkets :
          canMint(m) /\ market' = mintFresh(m, a, n)
    BY <1>4 DEF Mint
  <2>2. MarketInv(m) /\ Timely(m, blockNumber)
    BY AccruedFacts
  <2>3. MarketInv(market') /\ Timely(market', blockNumber)
    BY <1>3, <2>1, <2>2, MintFacts DEF Timely
  <2> QED BY <1>1, <1>4, <2>3 DEF MarketStep, Mint
<1>5. CASE Redeem(a, n)
  <2>1. PICK m \in AccruedMarkets :
          /\ canRedeem(m, a, n, redeemAmountFor(m, n))
          /\ market' = redeemFresh(m, a, n, redeemAmountFor(m, n))
    BY <1>5 DEF Redeem
  <2>2. MarketInv(m) /\ Timely(m, blockNumber) /\ m \in Market
    BY AccruedFacts
  <2>3. redeemAmountFor(m, n) \in Nat
    BY <1>3, <2>1, <2>2, ExchangeRateFacts, MulScalarBounds
       DEF redeemAmountFor, canRedeem
  <2>4. MarketInv(market') /\ Timely(market', blockNumber)
    BY <1>3, <2>1, <2>2, <2>3, RedeemFacts DEF Timely
  <2> QED BY <1>1, <1>5, <2>4 DEF MarketStep, Redeem
<1>6. CASE RedeemUnderlying(a, n)
  <2>1. PICK m \in AccruedMarkets :
          /\ exchangeRateDefined(m) /\ exchangeRateStored(m) > 0
          /\ canRedeem(m, a, redeemTokensFor(m, n), n)
          /\ market' = redeemFresh(m, a, redeemTokensFor(m, n), n)
    BY <1>6 DEF RedeemUnderlying
  <2>2. MarketInv(m) /\ Timely(m, blockNumber) /\ m \in Market
    BY AccruedFacts
  <2>3. redeemTokensFor(m, n) \in Nat
    <3>1. exchangeRateStored(m) \in Nat \ {0}
      BY <2>1, <2>2, ExchangeRateFacts
    <3> QED BY <1>3, <3>1, DivScalarBounds DEF redeemTokensFor
  <2>4. MarketInv(market') /\ Timely(market', blockNumber)
    BY <1>3, <2>1, <2>2, <2>3, RedeemFacts DEF Timely
  <2> QED BY <1>1, <1>6, <2>4 DEF MarketStep, RedeemUnderlying
<1> QED BY <1>2, <1>4, <1>5, <1>6

\* The steps of borrowers.
LEMMA BorrowerMarketStep ==
  ASSUME Inv, BorrowerStep
  PROVE  MarketStep /\ UNCHANGED <<transferAllowances, blockNumber>>
<1>1. PICK a \in Accounts :
        \/ \E n \in Amounts : Borrow(a, n) \/ RepayBorrow(a, n)
        \/ RepayBorrowMax(a)
  BY DEF BorrowerStep
<1>2. ASSUME NEW m \in AccruedMarkets, NEW n \in Nat,
             \/ canBorrow(m, n) /\ market' = borrowFresh(m, a, n)
             \/ canRepay(m, a, n) /\ market' = repayBorrowFresh(m, a, n)
      PROVE  MarketStep
  <2>1. MarketInv(m) /\ equity(m) \in Int
    BY AccruedFacts
  <2>2. /\ MarketInv(market') /\ equity(market') = equity(m)
        /\ market'.totalSupply = m.totalSupply
        /\ market'.accrualBlockNumber = m.accrualBlockNumber
        /\ market'.reduceReservesBlockNumber = m.reduceReservesBlockNumber
    BY <1>2, <2>1, BorrowFacts, RepayFacts
  <2> QED BY <2>1, <2>2, NeutralStep
<1>3. ASSUME NEW n \in Amounts, Borrow(a, n) \/ RepayBorrow(a, n)
      PROVE  MarketStep
  BY <1>2, <1>3, VTokenAssumption DEF Borrow, RepayBorrow
<1>4. ASSUME RepayBorrowMax(a) PROVE MarketStep
  <2>1. PICK m \in AccruedMarkets :
          /\ canRepay(m, a, borrowBalanceStored(m, a))
          /\ market' = repayBorrowFresh(m, a, borrowBalanceStored(m, a))
    BY <1>4 DEF RepayBorrowMax
  <2>2. borrowBalanceStored(m, a) \in Nat
    BY AccruedFacts, BorrowBalanceType DEF MarketInv
  <2> QED BY <1>2, <2>1, <2>2
<1>5. MarketStep
  BY <1>1, <1>3, <1>4
<1>6. UNCHANGED <<transferAllowances, blockNumber>>
  BY <1>1, Zenon DEF Borrow, RepayBorrow, RepayBorrowMax
<1> QED BY <1>5, <1>6

\* The steps of liquidators.
LEMMA LiquidatorMarketStep ==
  ASSUME Inv, LiquidatorStep
  PROVE  MarketStep /\ UNCHANGED <<transferAllowances, blockNumber>>
<1>1. PICK l \in Accounts, b \in Accounts, n \in Amounts :
        \/ Seize(l, b, n)
        \/ \E repayAmount \in Amounts : LiquidateBorrow(l, b, repayAmount, n)
  BY DEF LiquidatorStep
<1>2. n \in Nat
  BY VTokenAssumption
<1>3. CASE Seize(l, b, n)
  <2>1. canMove(market, b, l, n) /\ market' = moveTokens(market, b, l, n)
    BY <1>3 DEF Seize
  <2>2. /\ MarketInv(market') /\ equity(market') = equity(market)
        /\ market'.totalSupply = market.totalSupply
        /\ market'.accrualBlockNumber = market.accrualBlockNumber
        /\ market'.reduceReservesBlockNumber = market.reduceReservesBlockNumber
    BY <1>2, <2>1, MoveFacts DEF Inv
  <2>3. equity(market) \in Int
    BY EquityType DEF Inv, MarketInv
  <2> QED BY <1>3, <2>2, <2>3 DEF Seize, MarketStep, Inv, Timely
<1>4. ASSUME NEW r \in Amounts, LiquidateBorrow(l, b, r, n)
      PROVE  MarketStep /\ UNCHANGED <<transferAllowances, blockNumber>>
  <2>1. PICK m \in AccruedMarkets :
          /\ canRepay(m, b, r)
          /\ canMove(repayBorrowFresh(m, b, r), b, l, n)
          /\ market' = moveTokens(repayBorrowFresh(m, b, r), b, l, n)
          /\ UNCHANGED <<transferAllowances, blockNumber>>
    BY <1>4 DEF LiquidateBorrow
  <2> DEFINE s == repayBorrowFresh(m, b, r)
  <2>2. MarketInv(m) /\ equity(m) \in Int /\ r \in Nat
    BY AccruedFacts, VTokenAssumption
  <2>3. /\ MarketInv(s) /\ equity(s) = equity(m)
        /\ s.totalSupply = m.totalSupply
        /\ s.accrualBlockNumber = m.accrualBlockNumber
        /\ s.reduceReservesBlockNumber = m.reduceReservesBlockNumber
    BY <2>1, <2>2, RepayFacts
  <2>4. canMove(s, b, l, n) /\ market' = moveTokens(s, b, l, n)
    BY <2>1
  <2> HIDE DEF s
  <2>5. /\ MarketInv(market') /\ equity(market') = equity(s)
        /\ market'.totalSupply = s.totalSupply
        /\ market'.accrualBlockNumber = s.accrualBlockNumber
        /\ market'.reduceReservesBlockNumber = s.reduceReservesBlockNumber
    BY <1>2, <2>3, <2>4, MoveFacts
  <2>6. MarketStep
    BY <2>2, <2>3, <2>5, NeutralStep
  <2> QED BY <2>1, <2>6
<1> QED BY <1>1, <1>3, <1>4

\* A transfer by the owner or by an approved spender.
LEMMA HolderMarketStep ==
  ASSUME Inv, HolderStep
  PROVE  /\ MarketStep /\ UNCHANGED blockNumber
         /\ transferAllowances' \in
              [Accounts -> [Accounts -> Nat \cup {Unlimited}]]
<1>1. PICK src \in Accounts, dst \in Accounts, n \in Amounts :
        Transfer(src, dst, n)
        \/ \E spender \in Accounts : TransferFrom(spender, src, dst, n)
  BY DEF HolderStep
<1>2. n \in Nat
  BY VTokenAssumption
<1>3. canMove(market, src, dst, n) /\ market' = moveTokens(market, src, dst, n)
  BY <1>1 DEF Transfer, TransferFrom
<1>4. MarketStep /\ UNCHANGED blockNumber
  <2>1. /\ MarketInv(market') /\ equity(market') = equity(market)
        /\ market'.totalSupply = market.totalSupply
        /\ market'.accrualBlockNumber = market.accrualBlockNumber
        /\ market'.reduceReservesBlockNumber = market.reduceReservesBlockNumber
    BY <1>2, <1>3, MoveFacts DEF Inv
  <2>2. equity(market) \in Int
    BY EquityType DEF Inv, MarketInv
  <2>3. UNCHANGED blockNumber
    BY <1>1 DEF Transfer, TransferFrom
  <2> QED BY <2>1, <2>2, <2>3 DEF MarketStep, Inv, Timely
<1>5. CASE Transfer(src, dst, n)
  BY <1>4, <1>5 DEF Transfer, Inv
<1>6. ASSUME NEW spender \in Accounts, TransferFrom(spender, src, dst, n)
      PROVE  transferAllowances' \in
               [Accounts -> [Accounts -> Nat \cup {Unlimited}]]
  <2> DEFINE allowance == transferAllowances[src][spender]
             rest == allowance - n
  <2>1. CASE allowance = Unlimited
    BY <1>6, <2>1 DEF TransferFrom, Inv
  <2>2. CASE allowance # Unlimited
    <3>1. /\ n <= allowance
          /\ transferAllowances' =
               [transferAllowances EXCEPT ![src][spender] = rest]
      BY <1>6, <2>2 DEF TransferFrom
    <3>2. allowance \in Nat \cup {Unlimited}
      BY DEF Inv
    <3>3. allowance \in Nat
      BY <2>2, <3>2
    <3>4. rest \in Nat
      BY <1>2, <3>1, <3>3
    <3> HIDE DEF rest
    <3> QED BY <3>1, <3>4 DEF Inv
  <2> QED BY <2>1, <2>2
<1> QED BY <1>1, <1>4, <1>5, <1>6

\* The steps of governance and of the environment on the market.
LEMMA GovernanceMarketStep ==
  ASSUME Inv, GovernanceStep
  PROVE  MarketStep /\ UNCHANGED <<transferAllowances, blockNumber>>
<1>1. ASSUME NEW n \in Amounts, AddReserves(n) \/ ReduceReserves(n)
      PROVE  MarketStep /\ UNCHANGED <<transferAllowances, blockNumber>>
  <2>1. PICK m \in AccruedMarkets :
          /\ \/ market' = addReservesFresh(m, n)
             \/ market' = m
             \/ market' = reduceReservesFresh(m, n)
          /\ UNCHANGED <<transferAllowances, blockNumber>>
    BY <1>1 DEF AddReserves, ReduceReserves
  <2>2. MarketInv(m) /\ equity(m) \in Int /\ n \in Nat
    BY AccruedFacts, VTokenAssumption
  <2>3. /\ MarketInv(market') /\ equity(market') = equity(m)
        /\ market'.totalSupply = m.totalSupply
        /\ market'.accrualBlockNumber = m.accrualBlockNumber
        /\ market'.reduceReservesBlockNumber = m.reduceReservesBlockNumber
    BY <2>1, <2>2, AddReservesFacts, ReduceReservesFacts
  <2> QED BY <2>1, <2>2, <2>3, NeutralStep
<1>2. ASSUME NEW f \in ReserveFactors, SetReserveFactor(f)
      PROVE  MarketStep /\ UNCHANGED <<transferAllowances, blockNumber>>
  <2>1. PICK m \in AccruedMarkets :
          /\ f <= expScale
          /\ market' = [m EXCEPT !.reserveFactorMantissa = f]
          /\ UNCHANGED <<transferAllowances, blockNumber>>
    BY <1>2 DEF SetReserveFactor
  <2>2. MarketInv(m) /\ equity(m) \in Int
    BY AccruedFacts
  <2>3. f \in 0 .. expScale
    BY <2>1, VTokenAssumption, ExpScaleAssumption
  <2>4. /\ MarketInv(market') /\ equity(market') = equity(m)
        /\ market'.totalSupply = m.totalSupply
        /\ market'.accrualBlockNumber = m.accrualBlockNumber
        /\ market'.reduceReservesBlockNumber = m.reduceReservesBlockNumber
    BY <2>1, <2>2, <2>3, SetterFacts
  <2> QED BY <2>1, <2>2, <2>4, NeutralStep
<1>3. ASSUME NEW d \in BlockDeltas, SetReduceReservesBlockDelta(d)
      PROVE  MarketStep /\ UNCHANGED <<transferAllowances, blockNumber>>
  <2>1. /\ market' = [market EXCEPT !.reduceReservesBlockDelta = d]
        /\ UNCHANGED <<transferAllowances, blockNumber>>
    BY <1>3 DEF SetReduceReservesBlockDelta
  <2>2. d \in Nat
    BY VTokenAssumption
  <2>3. /\ MarketInv(market') /\ equity(market') = equity(market)
        /\ market'.totalSupply = market.totalSupply
        /\ market'.accrualBlockNumber = market.accrualBlockNumber
        /\ market'.reduceReservesBlockNumber = market.reduceReservesBlockNumber
    BY <2>1, <2>2, SetterFacts DEF Inv
  <2>4. equity(market) \in Int
    BY EquityType DEF Inv, MarketInv
  <2> QED BY <2>1, <2>3, <2>4 DEF MarketStep, Inv, Timely
<1> QED BY <1>1, <1>2, <1>3 DEF GovernanceStep

-----------------------------------------------------------------------------
\* Every step keeps the invariant, and what it does to the market is a
\* MarketStep unless the market is unchanged.
LEMMA StepFacts ==
  ASSUME Inv, Next
  PROVE  Inv' /\ (MarketStep \/ UNCHANGED market)
<1>1. CASE AccrueInterest
  <2>1. market' \in AccruedMarkets /\ UNCHANGED <<transferAllowances, blockNumber>>
    BY <1>1 DEF AccrueInterest
  <2>2. MarketStep
    BY <2>1, AccruedFacts DEF MarketStep
  <2> QED BY <2>1, <2>2 DEF MarketStep, Inv
<1>2. CASE SupplierStep
  BY <1>2, SupplierMarketStep DEF MarketStep, Inv
<1>3. CASE BorrowerStep
  BY <1>3, BorrowerMarketStep DEF MarketStep, Inv
<1>4. CASE LiquidatorStep
  BY <1>4, LiquidatorMarketStep DEF MarketStep, Inv
<1>5. CASE HolderStep
  BY <1>5, HolderMarketStep DEF MarketStep, Inv
<1>6. CASE ApproveStep
  <2>1. PICK src \in Accounts, spender \in Accounts, n \in Allowances :
          /\ transferAllowances' =
               [transferAllowances EXCEPT ![src][spender] = n]
          /\ UNCHANGED <<market, blockNumber>>
    BY <1>6 DEF ApproveStep, Approve
  <2>2. n \in Nat \cup {Unlimited}
    BY VTokenAssumption
  <2> QED BY <2>1, <2>2 DEF Inv
<1>7. CASE GovernanceStep
  BY <1>7, GovernanceMarketStep DEF MarketStep, Inv
<1>8. CASE NextBlock
  <2>1. /\ blockNumber' = blockNumber + 1 /\ blockNumber \in Nat
        /\ UNCHANGED <<market, transferAllowances>>
        /\ market.accrualBlockNumber \in Nat
    BY <1>8 DEF NextBlock, Inv, MarketInv, Market
  <2> QED BY <2>1 DEF Inv, Timely
<1>9. ASSUME NEW n \in Amounts, Donate(n)
      PROVE  Inv' /\ MarketStep
  <2>1. /\ market' = [market EXCEPT !.cash = @ + n]
        /\ UNCHANGED <<transferAllowances, blockNumber>>
    BY <1>9 DEF Donate
  <2>2. n \in Nat
    BY VTokenAssumption
  <2>3. /\ MarketInv(market') /\ equity(market') = equity(market) + n
        /\ market'.totalSupply = market.totalSupply
        /\ market'.accrualBlockNumber = market.accrualBlockNumber
        /\ market'.reduceReservesBlockNumber = market.reduceReservesBlockNumber
    BY <2>1, <2>2, DonateFacts DEF Inv
  <2>4. equity(market) \in Int
    BY EquityType DEF Inv, MarketInv
  <2> QED BY <2>1, <2>2, <2>3, <2>4 DEF MarketStep, Inv, Timely
<1> QED BY <1>1, <1>2, <1>3, <1>4, <1>5, <1>6, <1>7, <1>8, <1>9
       DEF Next, EnvironmentStep

\* The inductive invariant holds in every reachable state.
THEOREM Invariance == Spec => []Inv
<1>1. Init => Inv
  <2> SUFFICES ASSUME Init PROVE Inv
    OBVIOUS
  <2>1. MarketInv(market) /\ Timely(market, blockNumber) /\ blockNumber \in Nat
    BY InitialMarketInv, VTokenAssumption DEF Init
  <2> QED BY <2>1 DEF Inv, Init
<1>2. Inv /\ [Next]_vars => Inv'
  <2> SUFFICES ASSUME Inv, [Next]_vars PROVE Inv'
    OBVIOUS
  <2>1. CASE Next
    BY <2>1, StepFacts
  <2>2. CASE UNCHANGED vars
    BY <2>2 DEF Inv, vars
  <2> QED BY <2>1, <2>2
<1> QED BY <1>1, <1>2, PTL DEF Spec

\* The market, the allowances and the block number keep their types.
THEOREM TypeCorrect == Spec => []TypeOK
<1>1. Inv => TypeOK
  BY DEF Inv, MarketInv, TypeOK
<1> QED BY <1>1, Invariance, PTL

\* totalSupply is the sum of the balances, whatever the calls.
THEOREM TokensConserved == Spec => []TokenConservation
<1>1. Inv => TokenConservation
  BY DEF Inv, MarketInv, TokenConservation
<1> QED BY <1>1, Invariance, PTL

\* Every debt was snapshotted at an index between expScale and the present
\* one, so that the division of borrowBalanceStored is always defined.
THEOREM SnapshotsReached == Spec => []DebtSnapshots
<1>1. Inv => DebtSnapshots
  BY DEF Inv, MarketInv, DebtSnapshots
<1> QED BY <1>1, Invariance, PTL

\* Neither block counter of accrueInterest runs ahead.
THEOREM BlockCounters == Spec => []BlocksOrdered
<1>1. Inv => BlocksOrdered
  BY DEF Inv, Timely, BlocksOrdered
<1> QED BY <1>1, Invariance, PTL

-----------------------------------------------------------------------------
(* The exchange rate.  Prices are compared as products: a state with equity  *)
(* E and supply S is backed at price P when E * expScale >= S * P.           *)

\* The prices before and after the accrual that every entry point starts
\* with: accruing never lowers the price, and both states are backed.
LEMMA AccruedPrice ==
  ASSUME Inv, market.totalSupply > 0, equity(market) >= 0,
         NEW m \in AccruedMarkets
  PROVE  /\ exchangeRateDefined(m)
         /\ SharePrice \in Nat /\ exchangeRateStored(m) \in Nat
         /\ SharePrice <= exchangeRateStored(m)
         /\ SharePrice * market.totalSupply <= equity(market) * expScale
         /\ exchangeRateStored(m) * market.totalSupply <= equity(m) * expScale
<1> DEFINE K == expScale
           S == market.totalSupply
           E == equity(m)
           P == exchangeRateStored(market)
<1>1. /\ m \in Market /\ market \in Market /\ m.totalSupply = S
      /\ E >= equity(market) /\ E \in Int /\ equity(market) \in Int
  BY AccruedFacts
<1>2. exchangeRateDefined(m) /\ exchangeRateDefined(market)
  BY <1>1 DEF exchangeRateDefined
<1>3. P \in Nat /\ P * S <= equity(market) * K
  BY <1>1, <1>2, ExchangeRateFacts
<1>4. exchangeRateStored(m) \in Nat /\ exchangeRateStored(m) * S <= E * K
  BY <1>1, <1>2, ExchangeRateFacts
<1>5. P <= exchangeRateStored(m)
  <2>1. exchangeRateStored(m) = (E * K) \div S
    BY <1>1 DEF exchangeRateStored, getExp
  <2>2. K \in Nat \ {0} /\ S \in Nat \ {0} /\ E \in Nat
    BY <1>1, ExpScaleAssumption DEF Market
  <2> HIDE DEF K, S, E, P
  <2>3. equity(market) * K <= E * K
    BY <1>1, <2>2
  <2>4. P * S <= E * K /\ E * K \in Nat
    BY <1>1, <1>3, <2>2, <2>3
  <2>5. P <= (E * K) \div S
    BY <1>3, <2>2, <2>4, DivGreatest
  <2> QED BY <2>1, <2>5
<1> QED BY <1>2, <1>3, <1>4, <1>5 DEF SharePrice

\* A mint is paid for at the accrued price.
LEMMA MintKeepsPrice ==
  ASSUME Inv, market.totalSupply > 0, equity(market) >= 0,
         NEW a \in Accounts, NEW n \in Amounts, Mint(a, n)
  PROVE  equity(market') * expScale >= market'.totalSupply * SharePrice
<1>1. PICK m \in AccruedMarkets : canMint(m) /\ market' = mintFresh(m, a, n)
  BY DEF Mint
<1> DEFINE K == expScale
           S == market.totalSupply
           E == equity(m)
           P == SharePrice
           Q == exchangeRateStored(m)
           t == mintTokensFor(m, n)
<1>2. MarketInv(m) /\ m.totalSupply = S /\ E \in Int /\ n \in Nat
  BY AccruedFacts, VTokenAssumption
<1>3. /\ equity(market') = E + n /\ market'.totalSupply = S + t
      /\ t \in Nat /\ t * Q <= n * K
  BY <1>1, <1>2, MintFacts
<1>4. P \in Nat /\ Q \in Nat /\ P <= Q /\ Q * S <= E * K
  BY AccruedPrice
<1>5. K \in Nat /\ S \in Nat
  BY ExpScaleAssumption DEF Inv, MarketInv, Market
<1> HIDE DEF K, S, E, P, Q, t
<1>6. (S + t) * P <= (S + t) * Q
  BY <1>3, <1>4, <1>5
<1>7. (S + t) * Q = Q * S + t * Q
  BY <1>3, <1>4, <1>5
<1>8. (E + n) * K = E * K + n * K
  BY <1>2, <1>5
<1>9. E * K \in Int /\ n * K \in Int /\ Q * S \in Int /\ t * Q \in Int
        /\ (S + t) * P \in Int
  BY <1>2, <1>3, <1>4, <1>5
<1>10. (E + n) * K >= (S + t) * P
  BY <1>3, <1>4, <1>6, <1>7, <1>8, <1>9
<1> QED BY <1>3, <1>10 DEF K, S, E, P

\* A redemption by tokens pays out at most what the tokens are worth.
LEMMA RedeemKeepsPrice ==
  ASSUME Inv, market.totalSupply > 0, equity(market) >= 0,
         NEW a \in Accounts, NEW n \in Amounts, Redeem(a, n)
  PROVE  equity(market') * expScale >= market'.totalSupply * SharePrice
<1>1. PICK m \in AccruedMarkets :
        /\ canRedeem(m, a, n, redeemAmountFor(m, n))
        /\ market' = redeemFresh(m, a, n, redeemAmountFor(m, n))
  BY DEF Redeem
<1> DEFINE K == expScale
           S == market.totalSupply
           E == equity(m)
           P == SharePrice
           Q == exchangeRateStored(m)
           u == redeemAmountFor(m, n)
<1>2. MarketInv(m) /\ m.totalSupply = S /\ E \in Int /\ n \in Nat
  BY AccruedFacts, VTokenAssumption
<1>3. P \in Nat /\ Q \in Nat /\ P <= Q /\ Q * S <= E * K
  BY AccruedPrice
<1>4. u \in Nat /\ u * K <= Q * n
  BY <1>2, <1>3, MulScalarBounds DEF redeemAmountFor
<1>5. equity(market') = E - u /\ market'.totalSupply = S - n /\ n <= S
  <2>1. n <= m.totalSupply
    BY <1>1 DEF canRedeem
  <2> QED BY <1>1, <1>2, <1>4, <2>1, RedeemFacts
<1>6. K \in Nat /\ S \in Nat
  BY ExpScaleAssumption DEF Inv, MarketInv, Market
<1> HIDE DEF K, S, E, P, Q, u
<1>7. (S - n) * P <= (S - n) * Q
  <2>1. S - n \in Nat
    BY <1>2, <1>5, <1>6
  <2> QED BY <2>1, <1>3
<1>8. (S - n) * Q = Q * S - Q * n
  BY <1>2, <1>3, <1>6
<1>9. (E - u) * K = E * K - u * K
  BY <1>2, <1>4, <1>6
<1>10. E * K \in Int /\ u * K \in Int /\ Q * S \in Int /\ Q * n \in Int
         /\ (S - n) * P \in Int
  BY <1>2, <1>3, <1>4, <1>6
<1>11. (E - u) * K >= (S - n) * P
  BY <1>3, <1>4, <1>7, <1>8, <1>9, <1>10
<1> QED BY <1>5, <1>11 DEF K, S, E, P

\* A redemption by amount may pay out up to one vToken more than it burns,
\* and pays nothing when it burns nothing.
LEMMA RedeemUnderlyingPrice ==
  ASSUME Inv, market.totalSupply > 0, equity(market) >= 0,
         NEW a \in Accounts, NEW n \in Amounts, RedeemUnderlying(a, n)
  PROVE  /\ market'.totalSupply >= market.totalSupply =>
              equity(market') * expScale >= market'.totalSupply * SharePrice
         /\ market'.totalSupply > 0 =>
              equity(market') * expScale > (market'.totalSupply - 1) * SharePrice
<1>1. PICK m \in AccruedMarkets :
        /\ exchangeRateStored(m) > 0
        /\ canRedeem(m, a, redeemTokensFor(m, n), n)
        /\ market' = redeemFresh(m, a, redeemTokensFor(m, n), n)
  BY DEF RedeemUnderlying
<1> DEFINE K == expScale
           S == market.totalSupply
           E == equity(m)
           P == SharePrice
           Q == exchangeRateStored(m)
           t == redeemTokensFor(m, n)
<1>2. MarketInv(m) /\ m.totalSupply = S /\ E \in Int /\ n \in Nat
  BY AccruedFacts, VTokenAssumption
<1>3. P \in Nat /\ Q \in Nat \ {0} /\ P <= Q /\ Q * S <= E * K
  BY <1>1, AccruedPrice
<1>4. t \in Nat /\ n * K < (t + 1) * Q
  BY <1>2, <1>3, DivScalarBounds DEF redeemTokensFor
<1>5. /\ equity(market') = E - n /\ market'.totalSupply = S - t /\ t <= S
      /\ t # 0 \/ n = 0
  <2>1. t <= m.totalSupply /\ (t # 0 \/ n = 0)
    BY <1>1 DEF canRedeem
  <2> QED BY <1>1, <1>2, <1>4, <2>1, RedeemFacts
<1>6. K \in Nat /\ S \in Nat
  BY ExpScaleAssumption DEF Inv, MarketInv, Market
<1> HIDE DEF K, S, E, P, Q, t
<1>7. ASSUME S - t >= S PROVE (E - n) * K >= (S - t) * P
  <2>1. t = 0 /\ n = 0
    BY <1>4, <1>5, <1>6, <1>7
  <2>2. S * P <= S * Q
    BY <1>3, <1>6
  <2>3. E * K \in Int /\ S * P \in Int /\ Q * S = S * Q
    BY <1>2, <1>3, <1>6
  <2> QED BY <1>2, <1>3, <1>6, <2>1, <2>2, <2>3
<1>8. ASSUME S - t > 0 PROVE (E - n) * K > ((S - t) - 1) * P
  <2>1. ((S - t) - 1) * P <= ((S - t) - 1) * Q
    <3>1. (S - t) - 1 \in Nat
      BY <1>4, <1>6, <1>8
    <3> QED BY <3>1, <1>3
  <2>2. ((S - t) - 1) * Q = Q * S - (t + 1) * Q
    BY <1>3, <1>4, <1>6
  <2>3. (E - n) * K = E * K - n * K
    BY <1>2, <1>6
  <2>4. E * K \in Int /\ n * K \in Int /\ Q * S \in Int /\ (t + 1) * Q \in Int
          /\ ((S - t) - 1) * P \in Int
    BY <1>2, <1>3, <1>4, <1>6
  <2> QED BY <1>3, <1>4, <2>1, <2>2, <2>3, <2>4
<1> QED BY <1>5, <1>7, <1>8 DEF K, S, E, P

\* A step that keeps the supply and does not lower the equity keeps the price.
LEMMA NeutralKeepsPrice ==
  ASSUME Inv, market.totalSupply > 0, equity(market) >= 0,
         equity(market') \in Int, equity(market') >= equity(market),
         market'.totalSupply = market.totalSupply
  PROVE  equity(market') * expScale >= market'.totalSupply * SharePrice
<1> DEFINE K == expScale
           S == market.totalSupply
           E == equity(market)
           F == equity(market')
           P == SharePrice
<1>1. P \in Nat /\ P * S <= E * K
  BY ExchangeRateFacts DEF Inv, MarketInv, exchangeRateDefined, SharePrice
<1>2. K \in Nat /\ S \in Nat /\ E \in Int
  BY ExpScaleAssumption, EquityType DEF Inv, MarketInv, Market
<1> HIDE DEF K, S, E, F, P
<1>3. E * K <= F * K
  BY <1>2 DEF E, F
<1>4. F \in Int
  BY DEF F
<1>5. P * S = S * P /\ E * K \in Int /\ F * K \in Int /\ S * P \in Int
  BY <1>1, <1>2, <1>4
<1>6. F * K >= S * P
  BY <1>1, <1>3, <1>5
<1> QED BY <1>6 DEF K, S, F, P

\* A backed price stays above one vToken less.
LEMMA OneTokenLess ==
  ASSUME NEW P \in Nat \ {0}, NEW S \in Nat, NEW V \in Int, V >= S * P
  PROVE  V > (S - 1) * P
<1>1. (S - 1) * P = S * P - P
  OBVIOUS
<1>2. S * P \in Nat
  OBVIOUS
<1> QED BY <1>1, <1>2

\* The two price properties of one step.
LEMMA PriceStep ==
  ASSUME Inv, [Next]_vars, market.totalSupply > 0, equity(market) >= 0
  PROVE  /\ market'.totalSupply >= market.totalSupply =>
              equity(market') * expScale >= market'.totalSupply * SharePrice
         /\ SharePrice > 0 /\ market'.totalSupply > 0 =>
              equity(market') * expScale > (market'.totalSupply - 1) * SharePrice
<1> DEFINE V == equity(market') * expScale
           S == market'.totalSupply
<1>1. Inv' /\ (MarketStep \/ UNCHANGED market)
  <2>1. CASE Next
    BY <2>1, StepFacts
  <2>2. CASE UNCHANGED vars
    BY <2>2 DEF vars, Inv
  <2> QED BY <2>1, <2>2
<1>2. /\ SharePrice \in Nat /\ S \in Nat /\ equity(market') \in Int
      /\ equity(market) \in Int
  BY <1>1, ExchangeRateFacts, EquityType
     DEF Inv, MarketInv, Market, exchangeRateDefined, SharePrice
<1>3. V \in Int
  BY <1>2, ExpScaleAssumption
<1>4. ASSUME V >= S * SharePrice
      PROVE  SharePrice > 0 => V > (S - 1) * SharePrice
  <2> HIDE DEF V, S
  <2> QED BY <1>2, <1>3, <1>4, OneTokenLess
<1>5. CASE ~SupplyAction
  <2>1. equity(market') >= equity(market) /\ S = market.totalSupply
    BY <1>1, <1>2, <1>5 DEF MarketStep
  <2>2. V >= S * SharePrice
    BY <1>2, <2>1, NeutralKeepsPrice
  <2> QED BY <1>4, <2>2
<1>6. ASSUME NEW a \in Accounts, NEW n \in Amounts, Mint(a, n) \/ Redeem(a, n)
      PROVE  V >= S * SharePrice
  BY <1>6, MintKeepsPrice, RedeemKeepsPrice
<1>7. ASSUME NEW a \in Accounts, NEW n \in Amounts, RedeemUnderlying(a, n)
      PROVE  /\ S >= market.totalSupply => V >= S * SharePrice
             /\ S > 0 => V > (S - 1) * SharePrice
  BY <1>7, RedeemUnderlyingPrice
<1>8. CASE SupplyAction
  <2>1. PICK a \in Accounts, n \in Amounts :
          Mint(a, n) \/ Redeem(a, n) \/ RedeemUnderlying(a, n)
    BY <1>8 DEF SupplyAction
  <2> DEFINE Kept == /\ S >= market.totalSupply => V >= S * SharePrice
                     /\ SharePrice > 0 /\ S > 0 => V > (S - 1) * SharePrice
  <2> HIDE DEF V, S
  <2>2. ASSUME Mint(a, n) \/ Redeem(a, n) PROVE Kept
    BY <1>4, <1>6, <2>2
  <2>3. ASSUME RedeemUnderlying(a, n) PROVE Kept
    BY <1>7, <2>3
  <2>4. /\ S >= market.totalSupply => V >= S * SharePrice
        /\ SharePrice > 0 /\ S > 0 => V > (S - 1) * SharePrice
    BY <2>1, <2>2, <2>3
  <2> QED BY <2>4 DEF V, S
<1> QED BY <1>5, <1>8

\* Nobody can dilute the holders of vTokens: in every market, at every scale
\* and rate, a step that burns no vTokens never lowers the exchange rate.
THEOREM RateKept == Spec => RateKeptUnlessBurnt
<1>1. Inv /\ [Next]_vars =>
        [market.totalSupply > 0 /\ equity(market) >= 0
           /\ market.totalSupply' >= market.totalSupply
         => BackedAtOldPrice(market.totalSupply')]_vars
  BY PriceStep DEF BackedAtOldPrice
<1> QED BY <1>1, Invariance, PTL DEF Spec, RateKeptUnlessBurnt

\* A burn costs the holders who stay less than the value of one vToken.
THEOREM BurnBounded == Spec => BurnCostsBelowOneToken
<1>1. Inv /\ [Next]_vars =>
        [market.totalSupply > 0 /\ equity(market) >= 0 /\ SharePrice > 0
           /\ market.totalSupply' > 0
         => equity(market)' * expScale > (market.totalSupply' - 1) * SharePrice]_vars
  BY PriceStep
<1> QED BY <1>1, Invariance, PTL DEF Spec, BurnCostsBelowOneToken

\* A redemption by a number of vTokens never lowers the exchange rate.
THEOREM RedeemHarmless == Spec => RedeemKeepsRate
<1>1. Inv /\ [Next]_vars =>
        [\A a \in Accounts, n \in Amounts :
           Redeem(a, n) /\ market.totalSupply > 0 /\ equity(market) >= 0
             => BackedAtOldPrice(market.totalSupply')]_vars
  BY RedeemKeepsPrice DEF BackedAtOldPrice
<1> QED BY <1>1, Invariance, PTL DEF Spec, RedeemKeepsRate

-----------------------------------------------------------------------------
(* The bound on the borrow index.                                          *)

\* f has the values of Powers(base) up to m.
PowersUpto(base, m, f) ==
  f = [n \in 0 .. m |-> IF n = 0 THEN 1 ELSE base * f[n - 1]]

\* Two such functions agree where both are defined.
LEMMA PowersUnique ==
  ASSUME NEW base \in Nat, NEW m \in Nat, NEW k \in Nat, NEW f, NEW g,
         PowersUpto(base, m, f), PowersUpto(base, k, g),
         NEW n \in Nat, n <= m, n <= k
  PROVE  f[n] = g[n]
<1> DEFINE bad == {i \in 0 .. n : f[i] # g[i]}
<1>1. /\ \A i \in 0 .. m : f[i] = IF i = 0 THEN 1 ELSE base * f[i - 1]
      /\ \A i \in 0 .. k : g[i] = IF i = 0 THEN 1 ELSE base * g[i - 1]
  BY Zenon DEF PowersUpto
<1>2. SUFFICES ASSUME bad # {} PROVE FALSE
  OBVIOUS
<1>3. PICK i \in bad : \A j \in bad : i <= j
  <2>1. bad \subseteq Nat
    OBVIOUS
  <2> HIDE DEF bad
  <2> QED BY <1>2, <2>1, LeastNatural
<1>4. i \in 0 .. n /\ f[i] # g[i] /\ i \in 0 .. m /\ i \in 0 .. k
  OBVIOUS
<1>5. i # 0
  BY <1>1, <1>4
<1>6. f[i - 1] = g[i - 1]
  BY <1>3, <1>4, <1>5
<1> HIDE DEF bad
<1> QED BY <1>1, <1>4, <1>5, <1>6

\* There is such a function for every m.
LEMMA PowersUptoExists ==
  ASSUME NEW base \in Nat, NEW m \in Nat
  PROVE  \E f : PowersUpto(base, m, f)
<1> DEFINE bad == {i \in Nat : ~ \E f : PowersUpto(base, i, f)}
<1>1. SUFFICES ASSUME bad # {} PROVE FALSE
  OBVIOUS
<1>2. PICK i \in bad : \A j \in bad : i <= j
  <2>1. bad \subseteq Nat
    OBVIOUS
  <2> HIDE DEF bad
  <2> QED BY <1>1, <2>1, LeastNatural
<1>3. i \in Nat /\ ~ \E f : PowersUpto(base, i, f)
  OBVIOUS
<1>4. CASE i = 0
  <2> DEFINE f == [n \in 0 .. 0 |-> 1]
  <2>1. f = [n \in 0 .. 0 |-> IF n = 0 THEN 1 ELSE base * f[n - 1]]
    OBVIOUS
  <2>2. PowersUpto(base, 0, f)
    BY <2>1 DEF PowersUpto
  <2> QED BY <1>3, <1>4, <2>2
<1>5. CASE i # 0
  <2>1. i - 1 \in Nat /\ ~ (i - 1 \in bad)
    BY <1>2, <1>3, <1>5
  <2>2. PICK g : PowersUpto(base, i - 1, g)
    BY <2>1
  <2> DEFINE f == [n \in 0 .. i |-> IF n < i THEN g[n] ELSE base * g[i - 1]]
  <2>3. \A n \in 0 .. i - 1 : g[n] = IF n = 0 THEN 1 ELSE base * g[n - 1]
    BY <2>2, Zenon DEF PowersUpto
  <2>4. ASSUME NEW n \in 0 .. i
        PROVE  f[n] = IF n = 0 THEN 1 ELSE base * f[n - 1]
    <3>1. CASE n < i
      <4>1. n \in 0 .. i - 1 /\ f[n] = g[n] /\ (n # 0 => f[n - 1] = g[n - 1])
        BY <1>3, <3>1
      <4> HIDE DEF f
      <4> QED BY <2>3, <4>1
    <3>2. CASE n = i
      <4>1. f[n] = base * g[i - 1] /\ f[n - 1] = g[i - 1]
        BY <1>3, <1>5, <3>2
      <4> HIDE DEF f
      <4> QED BY <1>5, <3>2, <4>1
    <3> QED BY <1>3, <3>1, <3>2
  <2>5. f = [n \in 0 .. i |-> f[n]]
    OBVIOUS
  <2> HIDE DEF f
  <2>6. PowersUpto(base, i, f)
    BY <2>4, <2>5, Zenon DEF PowersUpto
  <2> QED BY <1>3, <2>6
<1> QED BY <1>4, <1>5

\* The recursive definition of Powers has a solution, and is its own value.
LEMMA PowersDef ==
  ASSUME NEW base \in Nat
  PROVE  /\ Powers(base)[0] = 1
         /\ \A n \in Nat : Powers(base)[n + 1] = base * Powers(base)[n]
<1> DEFINE upto(n) == CHOOSE g : PowersUpto(base, n, g)
           f == [n \in Nat |-> upto(n)[n]]
<1>1. ASSUME NEW n \in Nat PROVE PowersUpto(base, n, upto(n))
  BY PowersUptoExists, Zenon
<1>2. ASSUME NEW n \in Nat
      PROVE  f[n] = IF n = 0 THEN 1 ELSE base * f[n - 1]
  <2> DEFINE g == upto(n)
  <2>1. PowersUpto(base, n, g)
    BY <1>1
  <2>2. f[n] = g[n]
    OBVIOUS
  <2> HIDE DEF g
  <2>3. g[n] = IF n = 0 THEN 1 ELSE base * g[n - 1]
    <3>1. \A i \in 0 .. n : g[i] = IF i = 0 THEN 1 ELSE base * g[i - 1]
      BY <2>1, Zenon DEF PowersUpto
    <3> QED BY <3>1
  <2>4. CASE n = 0
    <3> HIDE DEF f
    <3> QED BY <2>2, <2>3, <2>4
  <2>5. CASE n # 0
    <3>1. n - 1 \in Nat /\ n - 1 <= n /\ n - 1 <= n - 1
      BY <2>5
    <3>2. f[n - 1] = upto(n - 1)[n - 1]
      BY <3>1
    <3>3. PowersUpto(base, n - 1, upto(n - 1))
      BY <1>1, <3>1
    <3> HIDE DEF f, upto
    <3>4. upto(n - 1)[n - 1] = g[n - 1]
      BY <2>1, <3>1, <3>3, PowersUnique
    <3> QED BY <2>2, <2>3, <2>5, <3>2, <3>4
  <2> QED BY <2>4, <2>5
<1>3. f = [n \in Nat |-> f[n]]
  OBVIOUS
<1> HIDE DEF f
<1>4. f = [n \in Nat |-> IF n = 0 THEN 1 ELSE base * f[n - 1]]
  BY <1>2, <1>3, Zenon
<1> DEFINE p == CHOOSE h : h = [n \in Nat |-> IF n = 0 THEN 1 ELSE base * h[n - 1]]
<1>5. p = [n \in Nat |-> IF n = 0 THEN 1 ELSE base * p[n - 1]]
  BY <1>4, Zenon
<1>6. Powers(base) = p
  BY SMT DEF Powers
<1> HIDE DEF p
<1>7. \A n \in Nat : p[n] = IF n = 0 THEN 1 ELSE base * p[n - 1]
  BY <1>5, Zenon
<1>8. p[0] = 1
  BY <1>7
<1>9. ASSUME NEW n \in Nat PROVE p[n + 1] = base * p[n]
  <2>1. n + 1 \in Nat /\ n + 1 # 0 /\ n + 1 - 1 = n
    OBVIOUS
  <2> QED BY <1>7, <2>1
<1> QED BY <1>6, <1>8, <1>9, Zenon

\* Powers are numbers, and no smaller than 1 for a base that is not zero.
LEMMA PowersType ==
  ASSUME NEW base \in Nat \ {0}
  PROVE  \A n \in Nat : Powers(base)[n] \in Nat \ {0}
<1> DEFINE p == Powers(base)
           S == {n \in Nat : p[n] \in Nat \ {0}}
<1>1. p[0] = 1 /\ \A n \in Nat : p[n + 1] = base * p[n]
  BY PowersDef
<1> HIDE DEF p
<1>2. 0 \in S
  BY <1>1
<1>3. ASSUME NEW n \in Nat, n \in S PROVE n + 1 \in S
  <2>1. p[n] \in Nat \ {0} /\ p[n + 1] = base * p[n] /\ n + 1 \in Nat
    BY <1>1, <1>3
  <2>2. base * p[n] \in Nat \ {0}
    BY <2>1
  <2> QED BY <2>1, <2>2
<1> HIDE DEF S
<1>4. \A n \in Nat : n \in S
  BY <1>2, <1>3, SetInduction
<1> QED BY <1>4 DEF S, p

\* The power of a sum of exponents.
LEMMA PowersSum ==
  ASSUME NEW base \in Nat \ {0}, NEW k \in Nat
  PROVE  \A n \in Nat : Powers(base)[k + n] = Powers(base)[k] * Powers(base)[n]
<1> DEFINE p == Powers(base)
           S == {n \in Nat : p[k + n] = p[k] * p[n]}
<1>1. /\ p[0] = 1 /\ \A n \in Nat : p[n + 1] = base * p[n]
      /\ \A n \in Nat : p[n] \in Nat \ {0}
  BY PowersDef, PowersType
<1> HIDE DEF p
<1>2. 0 \in S
  <2>1. k + 0 = k /\ p[k] * 1 = p[k]
    BY <1>1
  <2> QED BY <1>1, <2>1
<1>3. ASSUME NEW n \in Nat, n \in S PROVE n + 1 \in S
  <2>1. p[k + n] = p[k] * p[n] /\ p[n + 1] = base * p[n] /\ n + 1 \in Nat
        /\ k + n \in Nat /\ p[k] \in Nat /\ p[n] \in Nat
    BY <1>1, <1>3
  <2>2. k + (n + 1) = (k + n) + 1
    OBVIOUS
  <2>3. p[k + (n + 1)] = base * (p[k] * p[n])
    BY <1>1, <2>1, <2>2
  <2>4. base * (p[k] * p[n]) = p[k] * (base * p[n])
    <3> DEFINE x == p[k]
               y == p[n]
    <3>1. x \in Nat /\ y \in Nat
      BY <2>1
    <3> HIDE DEF x, y
    <3>2. base * (x * y) = x * (base * y)
      BY <3>1
    <3> QED BY <3>2 DEF x, y
  <2> QED BY <2>1, <2>3, <2>4
<1> HIDE DEF S
<1>4. \A n \in Nat : n \in S
  BY <1>2, <1>3, SetInduction
<1> QED BY <1>4 DEF S, p

\* Simple interest stays below compound interest: (e + x * n) * e ^ n is at
\* most e * (e + x) ^ n.
LEMMA Bernoulli ==
  ASSUME NEW e \in Nat \ {0}, NEW x \in Nat
  PROVE  \A n \in Nat :
           /\ Powers(e)[n] <= Powers(e + x)[n]
           /\ (e + x * n) * Powers(e)[n] <= e * Powers(e + x)[n]
<1> DEFINE p == Powers(e)
           q == Powers(e + x)
           S == {n \in Nat : p[n] <= q[n] /\ (e + x * n) * p[n] <= e * q[n]}
<1>1. e + x \in Nat \ {0}
  OBVIOUS
<1>2. /\ p[0] = 1 /\ \A n \in Nat : p[n + 1] = e * p[n]
      /\ \A n \in Nat : p[n] \in Nat \ {0}
  BY PowersDef, PowersType
<1>3. /\ q[0] = 1 /\ \A n \in Nat : q[n + 1] = (e + x) * q[n]
      /\ \A n \in Nat : q[n] \in Nat \ {0}
  BY <1>1, PowersDef, PowersType
<1> HIDE DEF p, q
<1>4. 0 \in S
  BY <1>2, <1>3
<1>5. ASSUME NEW n \in Nat, n \in S PROVE n + 1 \in S
  <2> DEFINE a == p[n]
             b == q[n]
             c == x * n
  <2>1. /\ a \in Nat /\ b \in Nat /\ a <= b /\ (e + c) * a <= e * b
        /\ p[n + 1] = e * a /\ q[n + 1] = (e + x) * b /\ n + 1 \in Nat
    BY <1>2, <1>3, <1>5
  <2>2. c \in Nat /\ x * (n + 1) = c + x
    OBVIOUS
  <2> HIDE DEF a, b, c
  <2>3. e * a <= e * b /\ x * a <= x * b /\ x * a \in Nat /\ x * b \in Nat
    <3>1. a * e <= b * e /\ a * x <= b * x
      BY <2>1, MulMonotone
    <3> QED BY <2>1, <3>1
  <2>4. (e + x) * b = e * b + x * b /\ e * b \in Nat
    BY <2>1
  <2>5. e * a <= (e + x) * b
    BY <2>1, <2>3, <2>4
  <2>6. (e + (c + x)) * a = (e + c) * a + x * a /\ (e + c) * a \in Nat
    BY <2>1, <2>2
  <2>7. (e + (c + x)) * a <= (e + x) * b /\ (e + (c + x)) * a \in Nat
    BY <2>1, <2>3, <2>4, <2>6
  <2>8. e * ((e + (c + x)) * a) <= e * ((e + x) * b)
    <3> DEFINE u == (e + (c + x)) * a
               v == (e + x) * b
    <3>1. u \in Nat /\ v \in Nat /\ u <= v
      BY <2>1, <2>7
    <3> HIDE DEF u, v
    <3>2. u * e <= v * e
      BY <3>1, MulMonotone
    <3>3. e * u <= e * v
      BY <3>1, <3>2
    <3> QED BY <3>3 DEF u, v
  <2>9. (e + (c + x)) * (e * a) = e * ((e + (c + x)) * a)
    BY <2>1, <2>2
  <2>10. (e + x * (n + 1)) * p[n + 1] <= e * q[n + 1]
    BY <2>1, <2>2, <2>8, <2>9
  <2> QED BY <2>1, <2>5, <2>10
<1> HIDE DEF S
<1>6. \A n \in Nat : n \in S
  BY <1>4, <1>5, SetInduction
<1> QED BY <1>6 DEF S, p, q

\* Only accrueInterest writes the index and the block it was reached in.
SameIndex(m, r) ==
  r.borrowIndex = m.borrowIndex /\ r.accrualBlockNumber = m.accrualBlockNumber

LEMMA IndexKept ==
  ASSUME NEW m \in Market, NEW a, NEW b, NEW n, NEW k
  PROVE  /\ SameIndex(m, m)
         /\ SameIndex(m, mintFresh(m, a, n))
         /\ SameIndex(m, redeemFresh(m, a, n, k))
         /\ SameIndex(m, borrowFresh(m, a, n))
         /\ SameIndex(m, repayBorrowFresh(m, a, n))
         /\ SameIndex(m, moveTokens(m, a, b, n))
         /\ SameIndex(m, moveTokens(repayBorrowFresh(m, a, k), a, b, n))
         /\ SameIndex(m, addReservesFresh(m, n))
         /\ SameIndex(m, reduceReservesFresh(m, n))
         /\ SameIndex(m, [m EXCEPT !.reserveFactorMantissa = n])
         /\ SameIndex(m, [m EXCEPT !.reduceReservesBlockDelta = n])
         /\ SameIndex(m, [m EXCEPT !.cash = @ + n])
<1>1. SameIndex(m, m)
  BY DEF SameIndex
<1>2. SameIndex(m, mintFresh(m, a, n))
  BY DEF SameIndex, mintFresh, Market
<1>3. SameIndex(m, redeemFresh(m, a, n, k))
  BY DEF SameIndex, redeemFresh, Market
<1>4. SameIndex(m, borrowFresh(m, a, n))
  BY DEF SameIndex, borrowFresh, Market
<1>5. SameIndex(m, repayBorrowFresh(m, a, n))
  BY DEF SameIndex, repayBorrowFresh, Market
<1>6. SameIndex(m, moveTokens(m, a, b, n))
  BY DEF SameIndex, moveTokens, Market
<1>7. SameIndex(m, moveTokens(repayBorrowFresh(m, a, k), a, b, n))
  BY DEF SameIndex, moveTokens, repayBorrowFresh, Market
<1>8. SameIndex(m, addReservesFresh(m, n)) /\ SameIndex(m, reduceReservesFresh(m, n))
  BY DEF SameIndex, addReservesFresh, reduceReservesFresh, Market
<1>9. /\ SameIndex(m, [m EXCEPT !.reserveFactorMantissa = n])
      /\ SameIndex(m, [m EXCEPT !.reduceReservesBlockDelta = n])
      /\ SameIndex(m, [m EXCEPT !.cash = @ + n])
  BY DEF SameIndex, Market
<1> QED BY <1>1, <1>2, <1>3, <1>4, <1>5, <1>6, <1>7, <1>8, <1>9

\* Whatever a step does, it leaves the index where it was or where one
\* accrual puts it.
LEMMA IndexStep ==
  ASSUME Inv, Next
  PROVE  \/ SameIndex(market, market')
         \/ \E m \in AccruedMarkets : SameIndex(m, market')
<1> DEFINE Accrued == \E m \in AccruedMarkets : SameIndex(m, market')
<1>1. market \in Market /\ \A m \in AccruedMarkets : m \in Market
  BY AccruedFacts DEF Inv, MarketInv
<1>2. CASE AccrueInterest
  <2>1. market' \in AccruedMarkets /\ SameIndex(market', market')
    BY <1>2 DEF AccrueInterest, SameIndex
  <2> QED BY <2>1
<1>3. CASE SupplierStep
  <2>1. PICK a \in Accounts, n \in Amounts :
          Mint(a, n) \/ Redeem(a, n) \/ RedeemUnderlying(a, n)
    BY <1>3 DEF SupplierStep
  <2>2. PICK m \in AccruedMarkets :
          \/ market' = mintFresh(m, a, n)
          \/ market' = redeemFresh(m, a, n, redeemAmountFor(m, n))
          \/ market' = redeemFresh(m, a, redeemTokensFor(m, n), n)
    BY <2>1 DEF Mint, Redeem, RedeemUnderlying
  <2>3. CASE market' = mintFresh(m, a, n)
    BY <1>1, <2>3, IndexKept
  <2>4. ASSUME NEW j, NEW k, market' = redeemFresh(m, a, j, k)
        PROVE  SameIndex(m, market')
    <3>1. SameIndex(m, redeemFresh(m, a, j, k))
      BY <1>1, IndexKept
    <3> QED BY <2>4, <3>1
  <2> QED BY <2>2, <2>3, <2>4
<1>4. CASE BorrowerStep
  <2>1. PICK a \in Accounts, m \in AccruedMarkets :
          \/ \E n \in Amounts : market' = borrowFresh(m, a, n)
          \/ \E n : market' = repayBorrowFresh(m, a, n)
    BY <1>4 DEF BorrowerStep, Borrow, RepayBorrow, RepayBorrowMax
  <2>2. ASSUME NEW n
        PROVE  SameIndex(m, borrowFresh(m, a, n)) /\ SameIndex(m, repayBorrowFresh(m, a, n))
    BY <1>1, IndexKept
  <2>3. SameIndex(m, market')
    BY <2>1, <2>2
  <2> QED BY <2>3
<1>5. CASE LiquidatorStep
  <2>1. PICK c \in Accounts, b \in Accounts, n \in Amounts :
          \/ Seize(c, b, n)
          \/ \E k \in Amounts : LiquidateBorrow(c, b, k, n)
    BY <1>5 DEF LiquidatorStep
  <2>2. CASE Seize(c, b, n)
    BY <1>1, <2>2, IndexKept DEF Seize
  <2>3. CASE \E k \in Amounts : LiquidateBorrow(c, b, k, n)
    <3>1. PICK k \in Amounts, m \in AccruedMarkets :
            market' = moveTokens(repayBorrowFresh(m, b, k), b, c, n)
      BY <2>3 DEF LiquidateBorrow
    <3>2. SameIndex(m, market')
      BY <1>1, <3>1, IndexKept
    <3> QED BY <3>2
  <2> QED BY <2>1, <2>2, <2>3
<1>6. CASE HolderStep
  <2>1. PICK a \in Accounts, b \in Accounts, n \in Amounts :
          market' = moveTokens(market, a, b, n)
    BY <1>6 DEF HolderStep, Transfer, TransferFrom
  <2> QED BY <1>1, <2>1, IndexKept
<1>7. CASE ApproveStep
  <2>1. market' = market
    BY <1>7 DEF ApproveStep, Approve
  <2> QED BY <2>1 DEF SameIndex
<1>8. CASE GovernanceStep
  <2>1. CASE \E n \in Amounts : AddReserves(n)
    <3>1. PICK n \in Amounts, m \in AccruedMarkets : market' = addReservesFresh(m, n)
      BY <2>1 DEF AddReserves
    <3>2. SameIndex(m, market')
      BY <1>1, <3>1, IndexKept
    <3> QED BY <3>2
  <2>2. CASE \E n \in Amounts : ReduceReserves(n)
    <3>1. PICK n \in Amounts, m \in AccruedMarkets :
            market' = m \/ market' = reduceReservesFresh(m, n)
      BY <2>2 DEF ReduceReserves
    <3>2. SameIndex(m, market')
      BY <1>1, <3>1, IndexKept
    <3> QED BY <3>2
  <2>3. CASE \E f \in ReserveFactors : SetReserveFactor(f)
    <3>1. PICK f \in ReserveFactors, m \in AccruedMarkets :
            market' = [m EXCEPT !.reserveFactorMantissa = f]
      BY <2>3 DEF SetReserveFactor
    <3>2. SameIndex(m, market')
      BY <1>1, <3>1, IndexKept
    <3> QED BY <3>2
  <2>4. CASE \E d \in BlockDeltas : SetReduceReservesBlockDelta(d)
    BY <1>1, <2>4, IndexKept DEF SetReduceReservesBlockDelta
  <2> QED BY <1>8, <2>1, <2>2, <2>3, <2>4 DEF GovernanceStep
<1>9. CASE EnvironmentStep
  <2>1. CASE NextBlock
    BY <2>1 DEF NextBlock, SameIndex
  <2>2. CASE \E n \in Amounts : Donate(n)
    BY <1>1, <2>2, IndexKept DEF Donate
  <2> QED BY <1>9, <2>1, <2>2 DEF EnvironmentStep
<1> QED BY <1>2, <1>3, <1>4, <1>5, <1>6, <1>7, <1>8, <1>9 DEF Next

\* The bound, in a market that was initialised in StartBlock or later.
IndexInv == market.accrualBlockNumber >= StartBlock /\ InterestBounded

\* One accrual keeps the bound: the interest of the blocks since the last one
\* is simple interest, at a rate that accrueInterest has capped.
LEMMA AccrualBounded ==
  ASSUME Inv, IndexInv, NEW m \in AccruedMarkets
  PROVE  /\ m.accrualBlockNumber >= StartBlock
         /\ LET blocks == m.accrualBlockNumber - StartBlock
            IN  m.borrowIndex * Powers(expScale)[blocks]
                  <= expScale * Powers(expScale + borrowRateMaxMantissa)[blocks]
<1> DEFINE x == borrowRateMaxMantissa
           p == Powers(expScale)
           q == Powers(expScale + x)
<1>1. PICK rate \in BorrowRates :
        canAccrue(market, rate, blockNumber) /\ m = accrueInterest(market, rate, blockNumber)
  BY DEF AccruedMarkets
<1>2. /\ market \in Market /\ blockNumber \in Nat /\ rate \in Nat /\ x \in Nat
      /\ expScale \in Nat \ {0} /\ StartBlock \in Nat
      /\ market.accrualBlockNumber <= blockNumber
      /\ market.accrualBlockNumber \in Nat /\ market.borrowIndex \in Nat
  BY VTokenAssumption, MarketAssumption, ExpScaleAssumption
     DEF Inv, MarketInv, Timely, Market
<1>3. CASE market.accrualBlockNumber = blockNumber
  <2>1. m = market
    BY <1>1, <1>3 DEF accrueInterest
  <2> QED BY <2>1 DEF IndexInv, InterestBounded
<1>4. CASE market.accrualBlockNumber # blockNumber
  <2> DEFINE k == market.accrualBlockNumber - StartBlock
             d == blockNumber - market.accrualBlockNumber
             i == market.borrowIndex
             j == m.borrowIndex
             grown == mulScalarTruncate(rate * d, i)
  <2>1. k \in Nat /\ d \in Nat /\ i \in Nat /\ rate * d \in Nat
    BY <1>2 DEF IndexInv
  <2>2. rate <= x
    BY <1>1, <1>4 DEF canAccrue
  <2>3. m.accrualBlockNumber = blockNumber /\ j = grown + i
    <3> DEFINE w == withInterest(market, rate, blockNumber)
    <3>1. w.accrualBlockNumber = blockNumber /\ w.borrowIndex = grown + i
      BY <1>2 DEF withInterest, mulScalarTruncateAddUInt, mulScalarTruncate, Market
    <3>2. DOMAIN w = DOMAIN market
      BY DEF withInterest
    <3>3. m = withReservesReduced(w, blockNumber)
      BY <1>1, <1>4 DEF accrueInterest
    <3>4. /\ DOMAIN w = {"cash", "totalBorrows", "totalReserves", "totalSupply",
               "borrowIndex", "reserveFactorMantissa", "accountTokens", "principal",
               "interestIndex", "accrualBlockNumber", "reduceReservesBlockNumber",
               "reduceReservesBlockDelta"}
      BY <1>2, <3>2 DEF Market
    <3> HIDE DEF w
    <3>5. m.accrualBlockNumber = w.accrualBlockNumber /\ m.borrowIndex = w.borrowIndex
      BY <3>3, <3>4 DEF withReservesReduced, reduceReservesFresh
    <3> QED BY <3>1, <3>5
  <2>4. m.accrualBlockNumber - StartBlock = k + d /\ m.accrualBlockNumber >= StartBlock
    <3>1. m.accrualBlockNumber = blockNumber
      BY <2>3
    <3>2. blockNumber - StartBlock = k + d /\ blockNumber >= StartBlock
      BY <1>2 DEF IndexInv
    <3> QED BY <3>1, <3>2
  <2>5. grown \in Nat /\ grown * expScale <= (rate * d) * i
    BY <2>1, MulScalarBounds
  <2>6. i * p[k] <= expScale * q[k]
    BY DEF IndexInv, InterestBounded
  <2>7. /\ p[k] \in Nat \ {0} /\ p[d] \in Nat \ {0} /\ p[k + d] = p[k] * p[d]
        /\ q[k] \in Nat \ {0} /\ q[d] \in Nat \ {0} /\ q[k + d] = q[k] * q[d]
    <3>1. expScale + x \in Nat \ {0}
      BY <1>2
    <3> QED BY <1>2, <2>1, <3>1, PowersType, PowersSum
  <2>8. (expScale + x * d) * p[d] <= expScale * q[d]
    BY <1>2, <2>1, Bernoulli
  <2> HIDE DEF p, q, k, d, i, j, grown, x
  <2>9. j * p[k + d] <= expScale * q[k + d]
    <3> DEFINE e == expScale
               pk == p[k]
               pd == p[d]
               qk == q[k]
               qd == q[d]
               s == e + x * d
    <3>1. /\ e \in Nat \ {0} /\ pk \in Nat /\ pd \in Nat /\ qk \in Nat /\ qd \in Nat
          /\ s \in Nat /\ i * pk <= e * qk /\ s * pd <= e * qd /\ j = grown + i
          /\ grown \in Nat /\ i \in Nat
      BY <1>2, <2>1, <2>3, <2>5, <2>6, <2>7, <2>8
    <3>2. j * e <= s * i
      <4>1. rate * d <= x * d /\ x * d \in Nat
        BY <1>2, <2>1, <2>2, MulMonotone
      <4> DEFINE rd == rate * d
                 xd == x * d
      <4>2. rd \in Nat /\ xd \in Nat /\ rd <= xd /\ grown * e <= rd * i
        BY <2>1, <2>5, <4>1
      <4> HIDE DEF rd, xd
      <4>3. rd * i <= xd * i
        BY <3>1, <4>2, MulMonotone
      <4>4. grown * e <= xd * i
        BY <3>1, <4>2, <4>3
      <4>5. (grown + i) * e = grown * e + e * i /\ (e + xd) * i = e * i + xd * i
        BY <3>1, <4>2
      <4>6. (grown + i) * e <= (e + xd) * i
        BY <3>1, <4>2, <4>4, <4>5
      <4> QED BY <3>1, <4>6 DEF xd
    <3> HIDE DEF e, pk, pd, qk, qd, s
    <3>3. j \in Nat
      BY <3>1
    <3>4. (j * e) * (pk * pd) <= (s * i) * (pk * pd)
      <4>1. j * e \in Nat /\ s * i \in Nat /\ pk * pd \in Nat
        BY <3>1, <3>3
      <4> QED BY <3>2, <4>1, MulMonotone
    <3>5. (s * i) * (pk * pd) = (i * pk) * (s * pd)
      BY <3>1
    <3>6. (i * pk) * (s * pd) <= (e * qk) * (e * qd)
      <4>1. i * pk \in Nat /\ s * pd \in Nat /\ e * qk \in Nat /\ e * qd \in Nat
        BY <3>1
      <4> DEFINE u == i * pk
                 v == s * pd
                 y == e * qk
                 z == e * qd
      <4>2. u \in Nat /\ v \in Nat /\ y \in Nat /\ z \in Nat /\ u <= y /\ v <= z
        BY <3>1, <4>1
      <4> HIDE DEF u, v, y, z
      <4>3. u * v <= y * v /\ v * y <= z * y
        BY <4>2, MulMonotone
      <4>4. u * v <= y * z
        BY <4>2, <4>3
      <4> QED BY <4>4 DEF u, v, y, z
    <3>7. (j * e) * (pk * pd) = (j * (pk * pd)) * e
      BY <3>1, <3>3
    <3>8. (e * qk) * (e * qd) = (e * (qk * qd)) * e
      BY <3>1
    <3>9. /\ j * (pk * pd) \in Nat /\ e * (qk * qd) \in Nat
          /\ (i * pk) * (s * pd) \in Nat
      BY <3>1, <3>3
    <3>10. (j * (pk * pd)) * e <= (e * (qk * qd)) * e
      <4> DEFINE a1 == (j * e) * (pk * pd)
                 a2 == (s * i) * (pk * pd)
                 a3 == (e * qk) * (e * qd)
      <4>1. a1 \in Nat /\ a2 \in Nat /\ a3 \in Nat
        BY <3>1, <3>3
      <4>2. a1 <= a2 /\ a2 <= a3
        BY <3>4, <3>5, <3>6
      <4> HIDE DEF a1, a2, a3
      <4>3. a1 <= a3
        BY <4>1, <4>2
      <4> QED BY <3>7, <3>8, <4>3 DEF a1, a3
    <3>11. j * (pk * pd) <= e * (qk * qd)
      <4> DEFINE u == j * (pk * pd)
                 v == e * (qk * qd)
      <4>1. u \in Nat /\ v \in Nat /\ u * e <= v * e
        BY <3>9, <3>10
      <4> HIDE DEF u, v
      <4>2. u <= v
        BY <3>1, <4>1, MulCancel
      <4> QED BY <4>2 DEF u, v
    <3> QED BY <2>7, <3>11 DEF pk, pd, qk, qd, e
  <2> QED BY <2>4, <2>9 DEF p, q, j, x
<1> QED BY <1>3, <1>4

\* The borrow index never exceeds what the highest rate compounds to in the
\* blocks that have passed: no entry point charges a block twice.
THEOREM InterestAlwaysBounded == Spec => []InterestBounded
<1>1. Init => IndexInv
  <2> SUFFICES ASSUME Init PROVE IndexInv
    OBVIOUS
  <2>1. market.borrowIndex = expScale /\ market.accrualBlockNumber = StartBlock
    BY DEF Init, initialMarket
  <2>2. /\ StartBlock \in Nat /\ expScale \in Nat \ {0}
        /\ expScale + borrowRateMaxMantissa \in Nat
    BY VTokenAssumption, MarketAssumption, ExpScaleAssumption
  <2>3. Powers(expScale)[0] = 1 /\ Powers(expScale + borrowRateMaxMantissa)[0] = 1
    BY <2>2, PowersDef
  <2>4. StartBlock - StartBlock = 0 /\ StartBlock >= StartBlock
    BY <2>2
  <2>5. expScale * 1 <= expScale * 1
    BY <2>2
  <2> QED BY <2>1, <2>3, <2>4, <2>5 DEF IndexInv, InterestBounded
<1>2. Inv /\ IndexInv /\ [Next]_vars => IndexInv'
  <2> SUFFICES ASSUME Inv, IndexInv, [Next]_vars PROVE IndexInv'
    OBVIOUS
  <2>1. CASE SameIndex(market, market')
    BY <2>1 DEF IndexInv, InterestBounded, SameIndex
  <2>2. CASE \E m \in AccruedMarkets : SameIndex(m, market')
    <3>1. PICK m \in AccruedMarkets : SameIndex(m, market')
      BY <2>2
    <3> QED BY <3>1, AccrualBounded DEF IndexInv, InterestBounded, SameIndex
  <2>3. CASE UNCHANGED vars
    BY <2>3 DEF IndexInv, InterestBounded, vars
  <2> QED BY <2>1, <2>2, <2>3, IndexStep
<1>3. IndexInv => InterestBounded
  BY DEF IndexInv
<1> QED BY <1>1, <1>2, <1>3, Invariance, PTL DEF Spec


-----------------------------------------------------------------------------
(* The rewards of suppliers and borrowers (RewardFlywheel.tla), paid for   *)
(* balances and debts of the markets above.                                *)

CONSTANTS xvsVToken, Speeds, Fundings, HolderLists      \* those of RewardFlywheel
VARIABLE isListed

XVS == INSTANCE RewardFlywheel

\* The markets of the flywheel are those of VTokenMarket.
LEMMA SameMarkets ==
  /\ XVS!Market = Market
  /\ \A f : XVS!Total(f) = Total(f)
  /\ \A b : XVS!initialMarket(b) = initialMarket(b)
  /\ \A m, a : XVS!borrowBalanceStored(m, a) = borrowBalanceStored(m, a)
  /\ \A m, r, b : XVS!canAccrue(m, r, b) <=> canAccrue(m, r, b)
  /\ \A m, r, b : XVS!accrueInterest(m, r, b) = accrueInterest(m, r, b)
  /\ \A m : XVS!canMint(m) <=> canMint(m)
  /\ \A m, a, n : XVS!mintFresh(m, a, n) = mintFresh(m, a, n)
  /\ \A m, a, n, k : XVS!canRedeem(m, a, n, k) <=> canRedeem(m, a, n, k)
  /\ \A m, a, n, k : XVS!redeemFresh(m, a, n, k) = redeemFresh(m, a, n, k)
  /\ \A m, n : XVS!redeemAmountFor(m, n) = redeemAmountFor(m, n)
  /\ \A m, a, b, n : XVS!canMove(m, a, b, n) <=> canMove(m, a, b, n)
  /\ \A m, a, b, n : XVS!moveTokens(m, a, b, n) = moveTokens(m, a, b, n)
  /\ \A m, n : XVS!canBorrow(m, n) <=> canBorrow(m, n)
  /\ \A m, a, n : XVS!borrowFresh(m, a, n) = borrowFresh(m, a, n)
  /\ \A m, a, n : XVS!canRepay(m, a, n) <=> canRepay(m, a, n)
  /\ \A m, a, n : XVS!repayBorrowFresh(m, a, n) = repayBorrowFresh(m, a, n)
<1>1. XVS!Market = Market
  BY DEF XVS!Market, Market
<1>2. \A f : XVS!Total(f) = Total(f)
  BY Zenon DEF XVS!Total, Total, XVS!Units, Units, XVS!Cardinality, XVS!IsFiniteSet,
               Cardinality, IsFiniteSet
<1>3. \A b : XVS!initialMarket(b) = initialMarket(b)
  BY DEF XVS!initialMarket, initialMarket
<1>4. /\ \A x : XVS!truncate(x) = truncate(x)
      /\ \A x, y : XVS!getExp(x, y) = getExp(x, y)
      /\ \A x, y : XVS!mulScalarTruncate(x, y) = mulScalarTruncate(x, y)
      /\ \A x, y, z : XVS!mulScalarTruncateAddUInt(x, y, z) = mulScalarTruncateAddUInt(x, y, z)
      /\ \A x, y : XVS!divScalarByExpTruncate(x, y) = divScalarByExpTruncate(x, y)
  BY DEF XVS!truncate, truncate, XVS!getExp, getExp, XVS!mulScalarTruncate,
         mulScalarTruncate, XVS!mulScalarTruncateAddUInt, mulScalarTruncateAddUInt,
         XVS!divScalarByExpTruncate, divScalarByExpTruncate
<1>5. /\ \A m : XVS!equity(m) = equity(m)
      /\ \A m : XVS!exchangeRateDefined(m) <=> exchangeRateDefined(m)
      /\ \A m : XVS!exchangeRateStored(m) = exchangeRateStored(m)
  BY <1>4 DEF XVS!equity, equity, XVS!exchangeRateDefined, exchangeRateDefined,
              XVS!exchangeRateStored, exchangeRateStored
<1>6. \A m, a : XVS!borrowBalanceStored(m, a) = borrowBalanceStored(m, a)
  BY DEF XVS!borrowBalanceStored, borrowBalanceStored
<1>7. \A m, r, b : XVS!canAccrue(m, r, b) <=> canAccrue(m, r, b)
  BY <1>5 DEF XVS!canAccrue, canAccrue, XVS!borrowRateDefined, borrowRateDefined
<1>8. \A m, n : XVS!reduceReservesFresh(m, n) = reduceReservesFresh(m, n)
  BY DEF XVS!reduceReservesFresh, reduceReservesFresh
<1>9. \A m, r, b : XVS!withInterest(m, r, b) = withInterest(m, r, b)
  BY <1>4 DEF XVS!withInterest, withInterest
<1>10. \A m, b : XVS!withReservesReduced(m, b) = withReservesReduced(m, b)
  BY <1>8 DEF XVS!withReservesReduced, withReservesReduced
<1>11. \A m, r, b : XVS!accrueInterest(m, r, b) = accrueInterest(m, r, b)
  BY <1>9, <1>10 DEF XVS!accrueInterest, accrueInterest
<1>12. \A m : XVS!canMint(m) <=> canMint(m)
  BY <1>5 DEF XVS!canMint, canMint
<1>13. \A m, n : XVS!mintTokensFor(m, n) = mintTokensFor(m, n)
  BY <1>4, <1>5 DEF XVS!mintTokensFor, mintTokensFor
<1>14. \A m, a, n : XVS!mintFresh(m, a, n) = mintFresh(m, a, n)
  BY <1>13 DEF XVS!mintFresh, mintFresh
<1>15. \A m, a, n, k : XVS!canRedeem(m, a, n, k) <=> canRedeem(m, a, n, k)
  BY <1>5 DEF XVS!canRedeem, canRedeem
<1>16. \A m, a, n, k : XVS!redeemFresh(m, a, n, k) = redeemFresh(m, a, n, k)
  BY DEF XVS!redeemFresh, redeemFresh
<1>17. \A m, n : XVS!redeemAmountFor(m, n) = redeemAmountFor(m, n)
  BY <1>4, <1>5 DEF XVS!redeemAmountFor, redeemAmountFor
<1>18. \A m, a, b, n : XVS!canMove(m, a, b, n) <=> canMove(m, a, b, n)
  BY DEF XVS!canMove, canMove
<1>19. \A m, a, b, n : XVS!moveTokens(m, a, b, n) = moveTokens(m, a, b, n)
  BY DEF XVS!moveTokens, moveTokens
<1>20. \A m, n : XVS!canBorrow(m, n) <=> canBorrow(m, n)
  BY DEF XVS!canBorrow, canBorrow
<1>21. \A m, a, n : XVS!borrowFresh(m, a, n) = borrowFresh(m, a, n)
  BY <1>6 DEF XVS!borrowFresh, borrowFresh
<1>22. \A m, a, n : XVS!canRepay(m, a, n) <=> canRepay(m, a, n)
  BY <1>6 DEF XVS!canRepay, canRepay
<1>23. \A m, a, n : XVS!repayBorrowFresh(m, a, n) = repayBorrowFresh(m, a, n)
  BY <1>6 DEF XVS!repayBorrowFresh, repayBorrowFresh
<1> QED BY <1>1, <1>2, <1>3, <1>6, <1>7, <1>11, <1>12, <1>14, <1>15, <1>16,
           <1>17, <1>18, <1>19, <1>20, <1>21, <1>22, <1>23

\* So are its promises those of Rewards.
LEMMA SameRewards ==
  /\ XVS!claimed = claimed /\ XVS!earned = earned
  /\ XVS!NeverOverpaid <=> NeverOverpaid
<1>1. XVS!venusInitialIndex = venusInitialIndex /\ XVS!Sides = Sides
  BY DEF XVS!venusInitialIndex, venusInitialIndex, XVS!Sides, Sides
<1>2. \A m, x : XVS!unscaled(m, x) = unscaled(m, x)
  BY DEF XVS!unscaled, unscaled
<1>3. /\ \A side, m : XVS!sizeOf(side, m) = sizeOf(side, m)
      /\ \A side, m, a : XVS!shareOf(side, m, a) = shareOf(side, m, a)
  BY <1>2, SameMarkets DEF XVS!sizeOf, sizeOf, XVS!shareOf, shareOf
<1>4. \A state, speed, size : XVS!moveIndex(state, speed, size) = moveIndex(state, speed, size)
  BY DEF XVS!moveIndex, moveIndex
<1>5. \A f, side, v, m : XVS!updateIndex(f, side, v, m) = updateIndex(f, side, v, m)
  BY <1>3, <1>4 DEF XVS!updateIndex, updateIndex
<1>6. \A S : XVS!Min(S) = Min(S)
  BY Zenon DEF XVS!Min, Min
<1>7. \A f : XVS!releaseToVault(f) = releaseToVault(f)
  BY <1>6 DEF XVS!releaseToVault, releaseToVault
<1>8. \A i, j : XVS!deltaIndex(i, j) = deltaIndex(i, j)
  BY <1>1 DEF XVS!deltaIndex, deltaIndex
<1>9. \A f, ms, sides, vTokens, accounts :
        XVS!distribute(f, ms, sides, vTokens, accounts) = distribute(f, ms, sides, vTokens, accounts)
  <2> SUFFICES ASSUME NEW f, NEW ms, NEW sides, NEW vTokens, NEW accounts
               PROVE  XVS!distribute(f, ms, sides, vTokens, accounts)
                        = distribute(f, ms, sides, vTokens, accounts)
    BY Zenon
  <2> DEFINE T == sides \X vTokens
             base == IF T = {} THEN f ELSE releaseToVault(f)
             one == [side \in XVS!Sides |-> [v \in VTokens |->
                       IF <<side, v>> \in T THEN XVS!updateIndex(f, side, v, ms[v])
                                            ELSE f.state[side][v]]]
             state == [side \in Sides |-> [v \in VTokens |->
                         IF <<side, v>> \in T THEN updateIndex(f, side, v, ms[v])
                                              ELSE f.state[side][v]]]
             due1(a, k) == (XVS!shareOf(k[1], ms[k[2]], a)
                              * XVS!deltaIndex(one[k[1]][k[2]].index,
                                               f.accountIndex[k[1]][k[2]][a]))
                           \div doubleScale
             due2(a, k) == (shareOf(k[1], ms[k[2]], a)
                              * deltaIndex(state[k[1]][k[2]].index,
                                           f.accountIndex[k[1]][k[2]][a]))
                           \div doubleScale
  <2>1. one = state
    BY <1>1, <1>5
  <2> HIDE DEF one, state, T
  <2>2. \A a, k : due1(a, k) = due2(a, k)
    BY <1>3, <1>8, <2>1
  <2> HIDE DEF due1, due2
  <2>3. \A a : [k \in T |-> due1(a, k)] = [k \in T |-> due2(a, k)]
    BY <2>2
  <2>4. \A a : XVS!Total([k \in T |-> due1(a, k)]) = Total([k \in T |-> due2(a, k)])
    BY <2>3, SameMarkets
  <2> DEFINE accrued1 == [a \in Accounts |->
               IF a \in accounts THEN base.accrued[a] + XVS!Total([k \in T |-> due1(a, k)])
                                 ELSE base.accrued[a]]
             accrued2 == [a \in Accounts |->
               IF a \in accounts THEN base.accrued[a] + Total([k \in T |-> due2(a, k)])
                                 ELSE base.accrued[a]]
             indices(S, st) == [side \in S |-> [v \in VTokens |-> [a \in Accounts |->
               IF <<side, v>> \in T /\ a \in accounts THEN st[side][v].index
                                                      ELSE base.accountIndex[side][v][a]]]]
  <2>5. accrued1 = accrued2
    BY <2>4
  <2>6. XVS!distribute(f, ms, sides, vTokens, accounts)
          = [base EXCEPT !.state = one, !.accountIndex = indices(XVS!Sides, one),
                         !.accrued = accrued1]
    BY <1>7 DEF XVS!distribute, one, due1, T
  <2>7. distribute(f, ms, sides, vTokens, accounts)
          = [base EXCEPT !.state = state, !.accountIndex = indices(Sides, state),
                         !.accrued = accrued2]
    BY DEF distribute, state, due2, T
  <2> HIDE DEF indices, accrued1, accrued2, base
  <2> QED BY <1>1, <2>1, <2>5, <2>6, <2>7
<1>10. XVS!claimed = claimed
  BY <1>1, <1>9 DEF XVS!claimed, claimed
<1>11. XVS!earned = earned
  BY <1>10 DEF XVS!earned, earned
<1>12. XVS!NeverOverpaid <=> NeverOverpaid
  BY <1>1, <1>10, <1>11, SameMarkets DEF XVS!NeverOverpaid, NeverOverpaid
<1> QED BY <1>10, <1>11, <1>12

-----------------------------------------------------------------------------
(* What has been promised, and to whom. *)

\* A market whose debts, before any interest is added, are counted in full.
Sound(m) ==
  /\ MarketInv(m)
  /\ m.borrowIndex = expScale => Total(m.principal) <= m.totalBorrows

Keys == XVS!Sides \X VTokens

weight(ms, k, a) == XVS!shareOf(k[1], ms[k[2]], a)
delta(f, k, a) ==
  XVS!deltaIndex(f.state[k[1]][k[2]].index, f.accountIndex[k[1]][k[2]][a])

\* What the index of each market and side owes all accounts together, and
\* what its speed has released since it was moved.
Unpaid(f, ms) ==
  [k \in Keys |-> Total([a \in Accounts |-> weight(ms, k, a) * delta(f, k, a)])]
Coming(f, block) ==
  [k \in Keys |-> f.speed[k[1]][k[2]] * (block - f.state[k[1]][k[2]].block) * doubleScale]

\* No borrow rewards on debts with interest.
Quiet(f, ms) ==
  \A v \in VTokens : \/ ms[v].borrowIndex = expScale
                     \/ f.state["borrow"][v].index <= doubleScale

\* What was paid, what has accrued, what is owed and what is still to come is
\* no more than the speeds have released.
Ledger(f, ms, rec, block, p) ==
  doubleScale * (Total(rec) + Total(f.accrued))
    + Total(Unpaid(f, ms)) + Total(Coming(f, block)) <= doubleScale * p

\* The markets that were never listed have no index and no speed, and nobody
\* is ahead of an index.
FlywheelOK(f, block, listed) ==
  /\ f \in XVS!Flywheel
  /\ \A side \in XVS!Sides, v \in VTokens :
       /\ f.state[side][v].block <= block
       /\ v \in listed => f.state[side][v].index >= doubleScale
       /\ v \notin listed => f.state[side][v].index = 0 /\ f.speed[side][v] = 0
       /\ \A a \in Accounts :
            \/ f.accountIndex[side][v][a] = 0
            \/ f.accountIndex[side][v][a] \in doubleScale .. f.state[side][v].index

MarketsOK(ms, block) ==
  /\ ms \in [VTokens -> Market]
  /\ \A v \in VTokens : Sound(ms[v]) /\ Timely(ms[v], block)

\* Where the index of a market would be moved to.
movedIndex(f, k, ms, block) ==
  LET state == f.state[k[1]][k[2]]
      speed == f.speed[k[1]][k[2]]
      size  == XVS!sizeOf(k[1], ms[k[2]])
  IN  IF block = state.block \/ speed = 0 \/ size = 0 THEN state.index
      ELSE state.index + ((block - state.block) * speed * doubleScale) \div size

\* What one account would be paid in one market now.
pending(f, k, ms, block, a) ==
  (weight(ms, k, a)
     * XVS!deltaIndex(movedIndex(f, k, ms, block), f.accountIndex[k[1]][k[2]][a]))
  \div doubleScale

\* What each account has been paid, and would be paid now.
EarnedBy(f, ms, rec, block) ==
  [a \in Accounts |->
     rec[a] + f.accrued[a] + Total([k \in Keys |-> pending(f, k, ms, block, a)])]

\* Since was, nobody has earned or lost anything, unless interest was added.
Snapshot(f, ms, rec, block) ==
  [earned |-> EarnedBy(f, ms, rec, block), index |-> [v \in VTokens |-> ms[v].borrowIndex]]
Kept(f, ms, rec, block, was) ==
  /\ \A v \in VTokens : was.index[v] \in Nat /\ ms[v].borrowIndex >= was.index[v]
  /\ (\A v \in VTokens : ms[v].borrowIndex = was.index[v])
       => EarnedBy(f, ms, rec, block) = was.earned

\* The inductive invariant, in the middle of a step that began at was.
Good(f, ms, rec, block, listed, p, was) ==
  /\ FlywheelOK(f, block, listed) /\ MarketsOK(ms, block)
  /\ rec \in [Accounts -> Nat] /\ block \in Nat /\ listed \subseteq VTokens /\ p \in Nat
  /\ Quiet(f, ms) => Ledger(f, ms, rec, block, p)
  /\ Kept(f, ms, rec, block, was)

LEMMA SameEarned ==
  ASSUME NEW f, NEW g, NEW ms, NEW ns, NEW rec, NEW rec1, NEW block,
         \A a \in Accounts : rec1[a] + g.accrued[a] = rec[a] + f.accrued[a],
         \A k \in Keys, a \in Accounts :
           pending(g, k, ns, block, a) = pending(f, k, ms, block, a)
  PROVE  EarnedBy(g, ns, rec1, block) = EarnedBy(f, ms, rec, block)
<1>1. \A a \in Accounts : [k \in Keys |-> pending(g, k, ns, block, a)]
                           = [k \in Keys |-> pending(f, k, ms, block, a)]
  OBVIOUS
<1> QED BY <1>1 DEF EarnedBy

LEMMA StillKept ==
  ASSUME NEW f, NEW g, NEW ms, NEW ns, NEW rec, NEW rec1, NEW block, NEW was,
         Kept(f, ms, rec, block, was), MarketsOK(ms, block), MarketsOK(ns, block),
         \A v \in VTokens : ns[v].borrowIndex >= ms[v].borrowIndex,
         (\A v \in VTokens : ns[v].borrowIndex = ms[v].borrowIndex)
           => EarnedBy(g, ns, rec1, block) = EarnedBy(f, ms, rec, block)
  PROVE  Kept(g, ns, rec1, block, was)
<1>1. \A v \in VTokens : ms[v].borrowIndex \in Nat /\ ns[v].borrowIndex \in Nat
  BY DEF MarketsOK, Market
<1>2. \A v \in VTokens : was.index[v] \in Nat /\ ms[v].borrowIndex >= was.index[v]
  BY DEF Kept
<1>3. \A v \in VTokens : ns[v].borrowIndex >= was.index[v]
  BY <1>1, <1>2
<1>4. ASSUME \A v \in VTokens : ns[v].borrowIndex = was.index[v]
      PROVE  EarnedBy(g, ns, rec1, block) = was.earned
  <2>1. \A v \in VTokens : ns[v].borrowIndex = ms[v].borrowIndex
    BY <1>1, <1>2, <1>4
  <2>2. \A v \in VTokens : ms[v].borrowIndex = was.index[v]
    BY <1>4, <2>1
  <2> QED BY <2>1, <2>2 DEF Kept
<1> QED BY <1>2, <1>3, <1>4 DEF Kept

\* A step may begin anywhere.
LEMMA SnapshotKept ==
  ASSUME NEW f, NEW ms, NEW rec, NEW block, MarketsOK(ms, block)
  PROVE  Kept(f, ms, rec, block, Snapshot(f, ms, rec, block))
<1> DEFINE was == Snapshot(f, ms, rec, block)
<1>1. was.earned = EarnedBy(f, ms, rec, block)
  BY DEF Snapshot
<1>2. \A v \in VTokens : was.index[v] = ms[v].borrowIndex
  BY DEF Snapshot
<1>3. \A v \in VTokens : ms[v].borrowIndex \in Nat
  BY DEF MarketsOK, Market
<1> HIDE DEF was
<1>4. Kept(f, ms, rec, block, was)
  BY <1>1, <1>2, <1>3 DEF Kept
<1> QED BY <1>4 DEF was

LEMMA Reset ==
  ASSUME NEW f, NEW ms, NEW rec, NEW block, NEW listed, NEW p, NEW was,
         Good(f, ms, rec, block, listed, p, was)
  PROVE  Good(f, ms, rec, block, listed, p, Snapshot(f, ms, rec, block))
<1>1. Kept(f, ms, rec, block, Snapshot(f, ms, rec, block))
  BY SnapshotKept DEF Good
<1> QED BY <1>1 DEF Good

\* The constants of the flywheel.
LEMMA FlywheelConstants ==
  ASSUME XVS!FlywheelAssumption
  PROVE  /\ IsFiniteSet(VTokens) /\ xvsVToken \in VTokens
         /\ doubleScale \in Nat \ {0} /\ IsFiniteSet(Accounts)
         /\ XVS!venusInitialIndex = doubleScale
         /\ BorrowRates \subseteq Nat /\ Amounts \subseteq Nat
         /\ Speeds \subseteq Nat /\ Fundings \subseteq Nat
         /\ HolderLists \subseteq Seq(Accounts)
         /\ XVS!Sides = {"supply", "borrow"} /\ IsFiniteSet(Keys)
         /\ expScale \in Nat \ {0}
<1>1. IsFiniteSet(VTokens)
  BY DEF XVS!FlywheelAssumption, XVS!IsFiniteSet, IsFiniteSet
<1>2. IsFiniteSet({"supply", "borrow"})
  <2>1. IsFiniteSet({"supply"})
    BY FS_Singleton
  <2>2. {"supply", "borrow"} = {"supply"} \cup {"borrow"}
    OBVIOUS
  <2>3. IsFiniteSet({"supply"} \cup {"borrow"})
    BY <2>1, FS_AddElement
  <2> QED BY <2>2, <2>3
<1>3. IsFiniteSet(Keys)
  BY <1>1, <1>2, FS_Product DEF Keys, XVS!Sides
<1> QED BY <1>1, <1>3, MarketAssumption, ExpScaleAssumption
       DEF XVS!FlywheelAssumption, XVS!venusInitialIndex, XVS!Sides

\* A reward inc is shared by the weights w among those it differs by d from:
\* who is in A is paid in whole units, the others are owed.
Sharing(D, A, scale, w, d, inc, gain, paid, owed, before) ==
  /\ IsFiniteSet(D) /\ scale \in Nat \ {0}
  /\ w \in [D -> Nat] /\ d \in [D -> Nat] /\ inc \in Nat /\ gain \in Nat
  /\ inc * Total(w) <= gain
  /\ paid = [a \in D |-> IF a \in A THEN (w[a] * (d[a] + inc)) \div scale ELSE 0]
  /\ owed = [a \in D |-> IF a \in A THEN 0 ELSE w[a] * (d[a] + inc)]
  /\ before = [a \in D |-> w[a] * d[a]]

\* It costs no more than what was owed and what came.
LEMMA PayOut ==
  ASSUME NEW D, NEW A, NEW scale, NEW w, NEW d, NEW inc, NEW gain,
         NEW paid, NEW owed, NEW before,
         Sharing(D, A, scale, w, d, inc, gain, paid, owed, before)
  PROVE  /\ paid \in [D -> Nat] /\ owed \in [D -> Nat] /\ before \in [D -> Nat]
         /\ scale * Total(paid) + Total(owed) <= Total(before) + gain
<1> USE DEF Sharing
<1>1. ASSUME NEW a \in D
      PROVE  /\ w[a] \in Nat /\ d[a] \in Nat /\ d[a] + inc \in Nat
             /\ w[a] * (d[a] + inc) \in Nat
             /\ w[a] * (d[a] + inc) = w[a] * d[a] + inc * w[a]
             /\ w[a] * d[a] \in Nat /\ inc * w[a] \in Nat
             /\ (w[a] * (d[a] + inc)) \div scale \in Nat
             /\ scale * ((w[a] * (d[a] + inc)) \div scale) <= w[a] * (d[a] + inc)
  <2>1. w[a] \in Nat /\ d[a] \in Nat
    OBVIOUS
  <2> DEFINE x == w[a]
             y == d[a]
  <2>2. x \in Nat /\ y \in Nat
    BY <2>1
  <2> HIDE DEF x, y
  <2>3. /\ y + inc \in Nat /\ x * (y + inc) \in Nat /\ x * (y + inc) = x * y + inc * x
        /\ x * y \in Nat /\ inc * x \in Nat
    BY <2>2
  <2> DEFINE z == x * (y + inc)
  <2>4. z \in Nat
    BY <2>3
  <2> HIDE DEF z
  <2>5. z \div scale \in Nat /\ (z \div scale) * scale <= z
    BY <2>4, DivBounds
  <2>6. scale * (z \div scale) <= z
    BY <2>4, <2>5
  <2> QED BY <2>2, <2>3, <2>5, <2>6 DEF x, y, z
<1>2. paid \in [D -> Nat] /\ owed \in [D -> Nat] /\ before \in [D -> Nat]
  BY <1>1
<1> DEFINE spent == [a \in D |-> scale * paid[a]]
           more == [a \in D |-> inc * w[a]]
           lhs == [a \in D |-> spent[a] + owed[a]]
           rhs == [a \in D |-> before[a] + more[a]]
<1>3. spent \in [D -> Nat] /\ more \in [D -> Nat]
  BY <1>1, <1>2
<1>4. lhs \in [D -> Nat] /\ rhs \in [D -> Nat] /\ \A a \in D : lhs[a] <= rhs[a]
  <2>1. ASSUME NEW a \in D PROVE lhs[a] <= rhs[a]
    <3>1. CASE a \in A
      <4>1. lhs[a] = scale * ((w[a] * (d[a] + inc)) \div scale) + 0
        BY <3>1
      <4>2. rhs[a] = w[a] * d[a] + inc * w[a]
        OBVIOUS
      <4> QED BY <1>1, <4>1, <4>2
    <3>2. CASE a \notin A
      <4>1. lhs[a] = scale * 0 + w[a] * (d[a] + inc)
        BY <3>2
      <4>2. rhs[a] = w[a] * d[a] + inc * w[a]
        OBVIOUS
      <4> QED BY <1>1, <4>1, <4>2
    <3> QED BY <3>1, <3>2
  <2>2. ASSUME NEW a \in D PROVE lhs[a] \in Nat /\ rhs[a] \in Nat
    <3>1. spent[a] \in Nat /\ owed[a] \in Nat /\ before[a] \in Nat /\ more[a] \in Nat
      BY <1>2, <1>3
    <3> HIDE DEF spent, more
    <3> QED BY <3>1
  <2> QED BY <2>1, <2>2
<1>5. Total(lhs) <= Total(rhs)
  <2> HIDE DEF lhs, rhs
  <2> QED BY <1>4, TotalMonotone
<1>6. Total(lhs) = Total(spent) + Total(owed)
  <2> HIDE DEF spent
  <2> QED BY <1>2, <1>3, TotalSum
<1>7. Total(rhs) = Total(before) + Total(more)
  <2> HIDE DEF more
  <2> QED BY <1>2, <1>3, TotalSum
<1>8. Total(spent) = scale * Total(paid) /\ Total(more) = inc * Total(w)
  <2>0. \A f \in [D -> Nat], k \in Nat : Total([x \in D |-> k * f[x]]) = k * Total(f)
    BY TotalTimes
  <2>1. Total(spent) = scale * Total(paid)
    BY <1>2, <2>0
  <2>2. Total(more) = inc * Total(w)
    BY TotalTimes
  <2> QED BY <2>1, <2>2
<1>9. Total(owed) \in Nat /\ Total(before) \in Nat /\ Total(paid) \in Nat
  BY <1>2, TotalBounds
<1> HIDE DEF lhs, rhs, spent, more
<1>10. scale * Total(paid) + Total(owed) <= Total(before) + inc * Total(w)
  BY <1>5, <1>6, <1>7, <1>8
<1>11. inc * Total(w) \in Nat /\ scale * Total(paid) \in Nat
  <2>1. Total(w) \in Nat
    BY TotalBounds
  <2> QED BY <1>9, <2>1
<1> QED BY <1>2, <1>9, <1>10, <1>11

-----------------------------------------------------------------------------
(* What calls do to the balances and debts that rewards are shared by. *)

\* Accrual keeps the supply and the snapshots; without interest it keeps the
\* total of the debts too.
LEMMA AccrueKeeps ==
  ASSUME NEW m, Sound(m), NEW rate \in Nat, NEW block \in Nat, Timely(m, block)
  PROVE  LET r == accrueInterest(m, rate, block)
         IN  /\ Sound(r) /\ Timely(r, block) /\ r \in Market
             /\ r.borrowIndex >= m.borrowIndex
             /\ r.accountTokens = m.accountTokens /\ r.totalSupply = m.totalSupply
             /\ r.principal = m.principal /\ r.interestIndex = m.interestIndex
             /\ r.borrowIndex = m.borrowIndex => r.totalBorrows = m.totalBorrows
<1> DEFINE r == accrueInterest(m, rate, block)
           w == withInterest(m, rate, block)
           factor == rate * (block - m.accrualBlockNumber)
<1>1. MarketInv(m) /\ m \in Market /\ m.borrowIndex >= expScale
      /\ m.borrowIndex \in Nat /\ m.totalBorrows \in Nat /\ expScale \in Nat \ {0}
      /\ m.accrualBlockNumber \in Nat /\ m.accrualBlockNumber <= block
      /\ m.principal \in [Accounts -> Nat]
  BY ExpScaleAssumption DEF Sound, MarketInv, snapshotsReached, Market, Timely
<1>2. MarketInv(r) /\ Timely(r, block) /\ r.borrowIndex >= m.borrowIndex
      /\ r.totalSupply = m.totalSupply
  BY <1>1, AccrueInterestFacts
<1>3. r \in Market /\ r.borrowIndex \in Nat /\ r.totalBorrows \in Nat
  BY <1>2 DEF MarketInv, Market
<1>4. /\ r.accountTokens = m.accountTokens /\ r.principal = m.principal
      /\ r.interestIndex = m.interestIndex
      /\ r = m \/ (/\ r.borrowIndex = mulScalarTruncate(factor, m.borrowIndex) + m.borrowIndex
                   /\ r.totalBorrows = m.totalBorrows + mulScalarTruncate(factor, m.totalBorrows))
  <2>1. CASE m.accrualBlockNumber = block
    BY <2>1 DEF accrueInterest
  <2>2. CASE m.accrualBlockNumber # block
    <3>1. /\ w.accountTokens = m.accountTokens /\ w.principal = m.principal
          /\ w.interestIndex = m.interestIndex
          /\ w.borrowIndex = mulScalarTruncate(factor, m.borrowIndex) + m.borrowIndex
          /\ w.totalBorrows = m.totalBorrows + mulScalarTruncate(factor, m.totalBorrows)
      BY <1>1 DEF withInterest, mulScalarTruncateAddUInt, mulScalarTruncate, Market
    <3>2. DOMAIN w = {"cash", "totalBorrows", "totalReserves", "totalSupply",
               "borrowIndex", "reserveFactorMantissa", "accountTokens", "principal",
               "interestIndex", "accrualBlockNumber", "reduceReservesBlockNumber",
               "reduceReservesBlockDelta"}
      BY <1>1 DEF withInterest, Market
    <3>3. r = withReservesReduced(w, block)
      BY <2>2 DEF accrueInterest
    <3> HIDE DEF w, r
    <3>4. /\ r.accountTokens = w.accountTokens /\ r.principal = w.principal
          /\ r.interestIndex = w.interestIndex /\ r.borrowIndex = w.borrowIndex
          /\ r.totalBorrows = w.totalBorrows
      BY <3>2, <3>3 DEF withReservesReduced, reduceReservesFresh
    <3> QED BY <3>1, <3>4
  <2> QED BY <2>1, <2>2
<1>5. factor \in Nat
  BY <1>1
<1>6. mulScalarTruncate(factor, m.totalBorrows) \in Nat
  BY <1>1, <1>5, MulScalarBounds
<1> HIDE DEF r, w, factor
<1>7. ASSUME r.borrowIndex = m.borrowIndex PROVE r.totalBorrows = m.totalBorrows
  <2>1. CASE r = m
    BY <2>1
  <2>2. CASE r # m
    <3>1. mulScalarTruncate(factor, m.borrowIndex) = 0
      <4>1. mulScalarTruncate(factor, m.borrowIndex) \in Nat
        BY <1>1, <1>5, MulScalarBounds
      <4> QED BY <1>1, <1>4, <1>7, <2>2, <4>1
    <3>2. factor * m.borrowIndex < 0 * expScale + expScale
      BY <1>1, <1>5, <3>1, MulScalarBounds
    <3>3. factor = 0
      <4>1. SUFFICES ASSUME factor >= 1 PROVE FALSE
        BY <1>5
      <4>2. 1 * m.borrowIndex <= factor * m.borrowIndex
        BY <1>1, <1>5, <4>1, MulMonotone
      <4>3. factor * m.borrowIndex \in Nat
        BY <1>1, <1>5
      <4> QED BY <1>1, <3>2, <4>2, <4>3
    <3>4. mulScalarTruncate(factor, m.totalBorrows) = 0
      <4>1. mulScalarTruncate(0, m.totalBorrows) * expScale <= 0 * m.totalBorrows
            /\ mulScalarTruncate(0, m.totalBorrows) \in Nat
        BY <1>1, MulScalarBounds
      <4> QED BY <1>1, <3>3, <4>1
    <3> QED BY <1>1, <1>4, <2>2, <3>4
  <2> QED BY <2>1, <2>2
<1>8. r.totalBorrows >= m.totalBorrows
  BY <1>1, <1>4, <1>6
<1>9. Sound(r)
  <2>1. ASSUME r.borrowIndex = expScale PROVE Total(r.principal) <= r.totalBorrows
    <3>1. m.borrowIndex = expScale
      BY <1>1, <1>2, <2>1
    <3>2. Total(m.principal) <= m.totalBorrows
      BY <3>1 DEF Sound
    <3>3. Total(m.principal) \in Nat
      BY <1>1, MarketAssumption, TotalBounds
    <3> QED BY <1>1, <1>3, <1>4, <1>8, <3>2, <3>3
  <2> QED BY <1>2, <2>1 DEF Sound
<1>10. /\ Sound(r) /\ Timely(r, block) /\ r \in Market /\ r.borrowIndex >= m.borrowIndex
       /\ r.accountTokens = m.accountTokens /\ r.totalSupply = m.totalSupply
       /\ r.principal = m.principal /\ r.interestIndex = m.interestIndex
       /\ r.borrowIndex = m.borrowIndex => r.totalBorrows = m.totalBorrows
  BY <1>2, <1>3, <1>4, <1>7, <1>9
<1> QED BY <1>10 DEF r

\* Only the market and the accounts of a call change, and only on one side.
SameDebts(m, r) ==
  /\ r.borrowIndex = m.borrowIndex /\ r.totalBorrows = m.totalBorrows
  /\ r.principal = m.principal /\ r.interestIndex = m.interestIndex
SameSupply(m, r) == r.accountTokens = m.accountTokens /\ r.totalSupply = m.totalSupply

LEMMA MintKeeps ==
  ASSUME NEW m, Sound(m), canMint(m), NEW minter \in Accounts, NEW amount \in Nat,
         NEW block \in Nat, Timely(m, block)
  PROVE  LET r == mintFresh(m, minter, amount)
         IN  /\ Sound(r) /\ Timely(r, block) /\ r \in Market /\ SameDebts(m, r)
             /\ \A a \in Accounts \ {minter} : r.accountTokens[a] = m.accountTokens[a]
<1> DEFINE r == mintFresh(m, minter, amount)
<1>1. MarketInv(m) /\ m \in Market /\ m.accountTokens \in [Accounts -> Nat]
  BY DEF Sound, MarketInv, Market
<1>2. /\ MarketInv(r) /\ r.borrowIndex = m.borrowIndex
      /\ r.accrualBlockNumber = m.accrualBlockNumber
      /\ r.reduceReservesBlockNumber = m.reduceReservesBlockNumber
  BY <1>1, MintFacts
<1>3. /\ r.totalBorrows = m.totalBorrows /\ r.principal = m.principal
      /\ r.interestIndex = m.interestIndex
      /\ \A a \in Accounts \ {minter} : r.accountTokens[a] = m.accountTokens[a]
  BY <1>1 DEF mintFresh, Market
<1> HIDE DEF r
<1>4. Sound(r) /\ Timely(r, block) /\ r \in Market /\ SameDebts(m, r)
  BY <1>2, <1>3 DEF Sound, Timely, MarketInv, SameDebts
<1> QED BY <1>3, <1>4 DEF r

LEMMA RedeemKeeps ==
  ASSUME NEW m, Sound(m), NEW redeemer \in Accounts, NEW tokens \in Nat,
         NEW amount \in Nat, canRedeem(m, redeemer, tokens, amount),
         NEW block \in Nat, Timely(m, block)
  PROVE  LET r == redeemFresh(m, redeemer, tokens, amount)
         IN  /\ Sound(r) /\ Timely(r, block) /\ r \in Market /\ SameDebts(m, r)
             /\ \A a \in Accounts \ {redeemer} : r.accountTokens[a] = m.accountTokens[a]
<1> DEFINE r == redeemFresh(m, redeemer, tokens, amount)
<1>1. MarketInv(m) /\ m \in Market /\ m.accountTokens \in [Accounts -> Nat]
  BY DEF Sound, MarketInv, Market
<1>2. /\ MarketInv(r) /\ r.borrowIndex = m.borrowIndex
      /\ r.accrualBlockNumber = m.accrualBlockNumber
      /\ r.reduceReservesBlockNumber = m.reduceReservesBlockNumber
  BY <1>1, RedeemFacts
<1>3. /\ r.totalBorrows = m.totalBorrows /\ r.principal = m.principal
      /\ r.interestIndex = m.interestIndex
      /\ \A a \in Accounts \ {redeemer} : r.accountTokens[a] = m.accountTokens[a]
  BY <1>1 DEF redeemFresh, Market
<1> HIDE DEF r
<1>4. Sound(r) /\ Timely(r, block) /\ r \in Market /\ SameDebts(m, r)
  BY <1>2, <1>3 DEF Sound, Timely, MarketInv, SameDebts
<1> QED BY <1>3, <1>4 DEF r

LEMMA MoveKeeps ==
  ASSUME NEW m, Sound(m), NEW src \in Accounts, NEW dst \in Accounts,
         NEW tokens \in Nat, canMove(m, src, dst, tokens),
         NEW block \in Nat, Timely(m, block)
  PROVE  LET r == moveTokens(m, src, dst, tokens)
         IN  /\ Sound(r) /\ Timely(r, block) /\ r \in Market /\ SameDebts(m, r)
             /\ r.totalSupply = m.totalSupply
             /\ \A a \in Accounts \ {src, dst} : r.accountTokens[a] = m.accountTokens[a]
<1> DEFINE r == moveTokens(m, src, dst, tokens)
<1>1. MarketInv(m) /\ m \in Market /\ m.accountTokens \in [Accounts -> Nat]
  BY DEF Sound, MarketInv, Market
<1>2. /\ MarketInv(r) /\ r.borrowIndex = m.borrowIndex
      /\ r.accrualBlockNumber = m.accrualBlockNumber
      /\ r.reduceReservesBlockNumber = m.reduceReservesBlockNumber
      /\ r.totalSupply = m.totalSupply
  BY <1>1, MoveFacts
<1>3. /\ r.totalBorrows = m.totalBorrows /\ r.principal = m.principal
      /\ r.interestIndex = m.interestIndex
      /\ \A a \in Accounts \ {src, dst} : r.accountTokens[a] = m.accountTokens[a]
  BY <1>1 DEF moveTokens, Market
<1> HIDE DEF r
<1>4. Sound(r) /\ Timely(r, block) /\ r \in Market /\ SameDebts(m, r)
  BY <1>2, <1>3 DEF Sound, Timely, MarketInv, SameDebts
<1> QED BY <1>2, <1>3, <1>4 DEF r

\* Before any interest a debt is its principal.
LEMMA DebtIsPrincipal ==
  ASSUME NEW m, MarketInv(m), m.borrowIndex = expScale, NEW a \in Accounts
  PROVE  borrowBalanceStored(m, a) = m.principal[a] /\ m.principal[a] \in Nat
<1>1. m \in Market /\ m.principal[a] \in Nat /\ expScale \in Nat \ {0}
  BY ExpScaleAssumption DEF MarketInv, Market
<1>2. CASE m.principal[a] = 0
  BY <1>1, <1>2 DEF borrowBalanceStored
<1>3. CASE m.principal[a] # 0
  <2>1. m.interestIndex[a] \in expScale .. expScale
    BY <1>1, <1>3 DEF MarketInv, snapshotsReached
  <2>2. m.interestIndex[a] = expScale
    BY <1>1, <2>1
  <2> DEFINE p == m.principal[a]
  <2>3. p \in Nat /\ borrowBalanceStored(m, a) = (p * expScale) \div expScale
    BY <1>1, <1>3, <2>2 DEF borrowBalanceStored
  <2> HIDE DEF p
  <2>4. (p * expScale) \div expScale = p
    BY <1>1, <2>3
  <2> QED BY <1>1, <2>3, <2>4 DEF p
<1> QED BY <1>2, <1>3

LEMMA BorrowKeeps ==
  ASSUME NEW m, Sound(m), NEW borrower \in Accounts, NEW amount \in Nat,
         canBorrow(m, amount), NEW block \in Nat, Timely(m, block)
  PROVE  LET r == borrowFresh(m, borrower, amount)
         IN  /\ Sound(r) /\ Timely(r, block) /\ r \in Market /\ SameSupply(m, r)
             /\ r.borrowIndex = m.borrowIndex
             /\ \A a \in Accounts \ {borrower} :
                  r.principal[a] = m.principal[a] /\ r.interestIndex[a] = m.interestIndex[a]
<1> DEFINE r == borrowFresh(m, borrower, amount)
           p == borrowBalanceStored(m, borrower) + amount
<1>1. MarketInv(m) /\ m \in Market /\ m.principal \in [Accounts -> Nat]
      /\ m.interestIndex \in [Accounts -> Nat] /\ m.totalBorrows \in Nat
  BY DEF Sound, MarketInv, Market
<1>2. /\ MarketInv(r) /\ r.borrowIndex = m.borrowIndex
      /\ r.accrualBlockNumber = m.accrualBlockNumber
      /\ r.reduceReservesBlockNumber = m.reduceReservesBlockNumber
      /\ r.totalSupply = m.totalSupply
  BY <1>1, BorrowFacts
<1>3. /\ r.accountTokens = m.accountTokens
      /\ r.totalBorrows = m.totalBorrows + amount
      /\ r.principal = [m.principal EXCEPT ![borrower] = p]
      /\ \A a \in Accounts \ {borrower} :
           r.principal[a] = m.principal[a] /\ r.interestIndex[a] = m.interestIndex[a]
  BY <1>1 DEF borrowFresh, Market
<1>4. ASSUME r.borrowIndex = expScale PROVE Total(r.principal) <= r.totalBorrows
  <2>1. p = m.principal[borrower] + amount /\ m.principal[borrower] \in Nat
    BY <1>1, <1>2, <1>4, DebtIsPrincipal
  <2>2. Total(m.principal) <= m.totalBorrows /\ Total(m.principal) \in Nat
    BY <1>1, <1>2, <1>4, MarketAssumption, TotalBounds DEF Sound
  <2>3. p \in Nat
    BY <2>1
  <2> HIDE DEF p, r
  <2>4. Total([m.principal EXCEPT ![borrower] = p])
          = Total(m.principal) - m.principal[borrower] + p
    BY <1>1, <2>3, MarketAssumption, TotalExcept
  <2> QED BY <1>1, <1>3, <2>1, <2>2, <2>4
<1> HIDE DEF r, p
<1>5. Sound(r) /\ Timely(r, block) /\ r \in Market /\ SameSupply(m, r)
  BY <1>2, <1>3, <1>4 DEF Sound, Timely, MarketInv, SameSupply
<1> QED BY <1>2, <1>3, <1>5 DEF r

LEMMA RepayKeeps ==
  ASSUME NEW m, Sound(m), NEW borrower \in Accounts, NEW amount \in Nat,
         canRepay(m, borrower, amount), NEW block \in Nat, Timely(m, block)
  PROVE  LET r == repayBorrowFresh(m, borrower, amount)
         IN  /\ Sound(r) /\ Timely(r, block) /\ r \in Market /\ SameSupply(m, r)
             /\ r.borrowIndex = m.borrowIndex
             /\ \A a \in Accounts \ {borrower} :
                  r.principal[a] = m.principal[a] /\ r.interestIndex[a] = m.interestIndex[a]
<1> DEFINE r == repayBorrowFresh(m, borrower, amount)
           p == borrowBalanceStored(m, borrower) - amount
<1>1. MarketInv(m) /\ m \in Market /\ m.principal \in [Accounts -> Nat]
      /\ m.interestIndex \in [Accounts -> Nat] /\ m.totalBorrows \in Nat
  BY DEF Sound, MarketInv, Market
<1>2. /\ MarketInv(r) /\ r.borrowIndex = m.borrowIndex
      /\ r.accrualBlockNumber = m.accrualBlockNumber
      /\ r.reduceReservesBlockNumber = m.reduceReservesBlockNumber
      /\ r.totalSupply = m.totalSupply
  BY <1>1, RepayFacts
<1>3. /\ r.accountTokens = m.accountTokens
      /\ r.totalBorrows = m.totalBorrows - amount
      /\ r.principal = [m.principal EXCEPT ![borrower] = p]
      /\ \A a \in Accounts \ {borrower} :
           r.principal[a] = m.principal[a] /\ r.interestIndex[a] = m.interestIndex[a]
  BY <1>1 DEF repayBorrowFresh, Market
<1>4. ASSUME r.borrowIndex = expScale PROVE Total(r.principal) <= r.totalBorrows
  <2>1. p = m.principal[borrower] - amount /\ m.principal[borrower] \in Nat
        /\ amount <= m.principal[borrower]
    BY <1>1, <1>2, <1>4, DebtIsPrincipal DEF canRepay
  <2>2. Total(m.principal) <= m.totalBorrows /\ Total(m.principal) \in Nat
    BY <1>1, <1>2, <1>4, MarketAssumption, TotalBounds DEF Sound
  <2>3. p \in Nat
    BY <2>1
  <2> HIDE DEF p, r
  <2>4. Total([m.principal EXCEPT ![borrower] = p])
          = Total(m.principal) - m.principal[borrower] + p
    BY <1>1, <2>3, MarketAssumption, TotalExcept
  <2> QED BY <1>1, <1>3, <2>1, <2>2, <2>4
<1> HIDE DEF r, p
<1>5. Sound(r) /\ Timely(r, block) /\ r \in Market /\ SameSupply(m, r)
  BY <1>2, <1>3, <1>4 DEF Sound, Timely, MarketInv, SameSupply
<1> QED BY <1>2, <1>3, <1>5 DEF r

-----------------------------------------------------------------------------
(* Weights and indices. *)

\* What a reward is shared by: the balances add up to the supply, and the
\* debts to no more than their total as long as no interest is added.
LEMMA WeightFacts ==
  ASSUME NEW m, Sound(m), NEW side \in XVS!Sides
  PROVE  /\ \A a \in Accounts : XVS!shareOf(side, m, a) \in Nat
         /\ XVS!sizeOf(side, m) \in Nat
         /\ side = "supply" \/ m.borrowIndex = expScale
              => Total([a \in Accounts |-> XVS!shareOf(side, m, a)]) <= XVS!sizeOf(side, m)
<1>1. /\ MarketInv(m) /\ m \in Market /\ expScale \in Nat \ {0}
      /\ m.borrowIndex \in Nat \ {0} /\ m.accountTokens \in [Accounts -> Nat]
      /\ m.totalSupply \in Nat /\ m.totalBorrows \in Nat
      /\ m.principal \in [Accounts -> Nat]
      /\ m.totalSupply = Total(m.accountTokens)
  BY ExpScaleAssumption DEF Sound, MarketInv, snapshotsReached, tokensConserved, Market
<1>2. CASE side = "supply"
  <2>1. /\ \A a \in Accounts : XVS!shareOf(side, m, a) = m.accountTokens[a]
        /\ XVS!sizeOf(side, m) = m.totalSupply
    BY <1>2 DEF XVS!shareOf, XVS!sizeOf
  <2>2. [a \in Accounts |-> XVS!shareOf(side, m, a)] = m.accountTokens
    BY <1>1, <2>1
  <2> QED BY <1>1, <2>1, <2>2
<1>3. CASE side = "borrow"
  <2>1. /\ \A a \in Accounts : XVS!shareOf(side, m, a) = XVS!unscaled(m, borrowBalanceStored(m, a))
        /\ XVS!sizeOf(side, m) = XVS!unscaled(m, m.totalBorrows)
    BY <1>3, SameMarkets DEF XVS!shareOf, XVS!sizeOf
  <2>2. \A x \in Nat : XVS!unscaled(m, x) \in Nat
    <3> SUFFICES ASSUME NEW x \in Nat PROVE XVS!unscaled(m, x) \in Nat
      OBVIOUS
    <3>1. x * expScale \in Nat
      BY <1>1
    <3> QED BY <1>1, <3>1, DivBounds DEF XVS!unscaled
  <2>3. \A a \in Accounts : borrowBalanceStored(m, a) \in Nat
    BY <1>1, BorrowBalanceType DEF MarketInv
  <2>4. ASSUME m.borrowIndex = expScale
        PROVE  Total([a \in Accounts |-> XVS!shareOf(side, m, a)]) <= XVS!sizeOf(side, m)
    <3>1. \A x \in Nat : XVS!unscaled(m, x) = x
      <4> SUFFICES ASSUME NEW x \in Nat PROVE XVS!unscaled(m, x) = x
        OBVIOUS
      <4>1. (x * expScale) \div expScale = x
        BY <1>1
      <4> QED BY <2>4, <4>1 DEF XVS!unscaled
    <3>2. \A a \in Accounts : XVS!shareOf(side, m, a) = m.principal[a]
      BY <1>1, <2>1, <2>3, <2>4, <3>1, DebtIsPrincipal
    <3>3. [a \in Accounts |-> XVS!shareOf(side, m, a)] = m.principal
      BY <1>1, <3>2
    <3>4. Total(m.principal) <= m.totalBorrows
      BY <2>4 DEF Sound
    <3> QED BY <1>1, <2>1, <3>1, <3>3, <3>4
  <2> QED BY <1>1, <1>3, <2>1, <2>2, <2>3, <2>4
<1> QED BY <1>2, <1>3 DEF XVS!Sides

\* Nobody is ahead of an index, who is at it is owed nothing, and before the
\* first reward nobody is.
LEMMA DeltaFacts ==
  ASSUME doubleScale \in Nat \ {0}, NEW i \in Nat, NEW from \in Nat,
         from = 0 \/ from \in doubleScale .. i
  PROVE  /\ XVS!deltaIndex(i, from) \in Nat
         /\ XVS!deltaIndex(i, i) = 0
         /\ i = 0 \/ i = doubleScale => XVS!deltaIndex(i, from) = 0
         /\ i >= doubleScale => \A inc \in Nat :
              XVS!deltaIndex(i + inc, from) = XVS!deltaIndex(i, from) + inc
  BY DEF XVS!deltaIndex, XVS!venusInitialIndex

\* What the comptroller releases to the vault does not touch the rewards.
LEMMA ReleaseFields ==
  ASSUME XVS!FlywheelAssumption, NEW f \in XVS!Flywheel, currentBlock \in Nat
  PROVE  LET g == XVS!releaseToVault(f)
         IN  /\ g \in XVS!Flywheel
             /\ g.state = f.state /\ g.speed = f.speed
             /\ g.accountIndex = f.accountIndex /\ g.accrued = f.accrued
<1> DEFINE cap == venusVAIVaultRate * (currentBlock - f.releaseStartBlock)
           S == {f.xvs, cap}
           amount == XVS!Min(S)
           g == XVS!releaseToVault(f)
<1>1. f.xvs \in Nat /\ f.releaseStartBlock \in Nat /\ venusVAIVaultRate \in Nat
      /\ minReleaseAmount \in Nat
  BY DEF XVS!Flywheel, XVS!FlywheelAssumption
<1>2. CASE \/ f.releaseStartBlock = 0 \/ currentBlock < f.releaseStartBlock
           \/ f.xvs = 0 \/ amount < minReleaseAmount
  <2>1. g = f
    BY <1>2 DEF XVS!releaseToVault
  <2> QED BY <2>1
<1>3. CASE ~ (\/ f.releaseStartBlock = 0 \/ currentBlock < f.releaseStartBlock
              \/ f.xvs = 0 \/ amount < minReleaseAmount)
  <2>1. g = [f EXCEPT !.releaseStartBlock = currentBlock, !.xvs = @ - amount]
    BY <1>3 DEF XVS!releaseToVault
  <2>2. cap \in Nat
    BY <1>1, <1>3
  <2>3. amount \in S /\ \A y \in S : amount <= y
    <3> HIDE DEF cap
    <3>1. \E x \in S : \A y \in S : x <= y
      BY <1>1, <2>2
    <3> QED BY <3>1 DEF XVS!Min
  <2> HIDE DEF cap, amount, g
  <2>4. amount \in Nat /\ amount <= f.xvs
    BY <1>1, <2>2, <2>3
  <2>5. f.xvs - amount \in Nat
    BY <1>1, <2>4
  <2>6. /\ g \in XVS!Flywheel /\ g.state = f.state /\ g.speed = f.speed
        /\ g.accountIndex = f.accountIndex /\ g.accrued = f.accrued
    BY <2>1, <2>5 DEF XVS!Flywheel
  <2> QED BY <2>6 DEF g
<1> QED BY <1>2, <1>3

\* Where updateIndex puts an index.
LEMMA UpdateFields ==
  ASSUME XVS!FlywheelAssumption, NEW f, currentBlock \in Nat, NEW listed,
         FlywheelOK(f, currentBlock, listed),
         NEW side \in XVS!Sides, NEW v \in VTokens, NEW ms, Sound(ms[v])
  PROVE  LET u == XVS!updateIndex(f, side, v, ms[v])
         IN  /\ u \in XVS!State
             /\ u.index = movedIndex(f, <<side, v>>, ms, currentBlock)
             /\ u.index >= f.state[side][v].index
             /\ u.block = currentBlock
<1> DEFINE st == f.state[side][v]
           sp == f.speed[side][v]
           size == XVS!sizeOf(side, ms[v])
           gain == (currentBlock - st.block) * sp * doubleScale
           u == XVS!updateIndex(f, side, v, ms[v])
<1>1. /\ st \in XVS!State /\ st.index \in Nat /\ st.block \in Nat /\ sp \in Nat
      /\ st.block <= currentBlock /\ doubleScale \in Nat \ {0}
  BY FlywheelConstants DEF FlywheelOK, XVS!Flywheel, XVS!State
<1>2. size \in Nat
  BY WeightFacts
<1>3. u = IF currentBlock = st.block THEN st
          ELSE [index |-> IF sp = 0 \/ size = 0 THEN st.index ELSE st.index + gain \div size,
                block |-> currentBlock]
  BY DEF XVS!updateIndex, XVS!moveIndex
<1>4. movedIndex(f, <<side, v>>, ms, currentBlock)
        = IF currentBlock = st.block \/ sp = 0 \/ size = 0 THEN st.index
          ELSE st.index + gain \div size
  BY DEF movedIndex
<1>5. gain \in Nat
  <2> DEFINE n == currentBlock - st.block
  <2>1. n \in Nat /\ sp \in Nat /\ doubleScale \in Nat
    BY <1>1
  <2> HIDE DEF n, sp
  <2>2. n * sp * doubleScale \in Nat
    BY <2>1
  <2> QED BY <2>2 DEF n
<1> HIDE DEF st, sp, size, gain, u
<1>6. size # 0 => gain \div size \in Nat
  BY <1>2, <1>5, DivBounds
<1>7. /\ u \in XVS!State
      /\ u.index = movedIndex(f, <<side, v>>, ms, currentBlock)
      /\ u.index >= st.index /\ u.block = currentBlock
  <2>1. CASE currentBlock = st.block
    BY <1>1, <1>3, <1>4, <2>1 DEF XVS!State
  <2>2. CASE currentBlock # st.block /\ (sp = 0 \/ size = 0)
    BY <1>1, <1>3, <1>4, <2>2 DEF XVS!State
  <2>3. CASE currentBlock # st.block /\ ~ (sp = 0 \/ size = 0)
    BY <1>1, <1>3, <1>4, <1>6, <2>3 DEF XVS!State
  <2> QED BY <2>1, <2>2, <2>3
<1> QED BY <1>7 DEF u, st

\* The key of a side of a market.
LEMMA KeyParts ==
  ASSUME NEW k \in Keys
  PROVE  k[1] \in XVS!Sides /\ k[2] \in VTokens /\ k = <<k[1], k[2]>>
  BY DEF Keys

\* The weights and differences of a key.
LEMMA KeyFacts ==
  ASSUME XVS!FlywheelAssumption, NEW f, NEW ms, NEW block, NEW listed,
         FlywheelOK(f, block, listed), NEW k \in Keys, Sound(ms[k[2]])
  PROVE  /\ \A a \in Accounts : weight(ms, k, a) \in Nat /\ delta(f, k, a) \in Nat
         /\ f.state[k[1]][k[2]].index \in Nat /\ f.state[k[1]][k[2]].block \in Nat
         /\ f.speed[k[1]][k[2]] \in Nat
         /\ \A a \in Accounts : f.accountIndex[k[1]][k[2]][a] \in Nat
         /\ f.state[k[1]][k[2]].index = 0 \/ f.state[k[1]][k[2]].index >= doubleScale
<1>1. k[1] \in XVS!Sides /\ k[2] \in VTokens
  BY KeyParts
<1>2. f \in XVS!Flywheel /\ doubleScale \in Nat \ {0}
  BY FlywheelConstants DEF FlywheelOK
<1>3. /\ f.state[k[1]][k[2]].index \in Nat /\ f.state[k[1]][k[2]].block \in Nat
      /\ f.speed[k[1]][k[2]] \in Nat
      /\ \A a \in Accounts : f.accountIndex[k[1]][k[2]][a] \in Nat
  BY <1>1, <1>2 DEF XVS!Flywheel, XVS!State
<1>4. \A a \in Accounts : \/ f.accountIndex[k[1]][k[2]][a] = 0
                          \/ f.accountIndex[k[1]][k[2]][a] \in doubleScale .. f.state[k[1]][k[2]].index
  BY <1>1 DEF FlywheelOK
<1>5. f.state[k[1]][k[2]].index = 0 \/ f.state[k[1]][k[2]].index >= doubleScale
  BY <1>1 DEF FlywheelOK
<1>6. \A a \in Accounts : delta(f, k, a) \in Nat
  BY <1>2, <1>3, <1>4, DeltaFacts DEF delta
<1>7. \A a \in Accounts : weight(ms, k, a) \in Nat
  BY <1>1, WeightFacts DEF weight
<1> QED BY <1>3, <1>5, <1>6, <1>7

\* The fields of a flywheel after a distribution in the markets of T.
Distributed(f, g, ms, T, accounts) ==
  /\ g \in XVS!Flywheel /\ g.speed = f.speed
  /\ \A side \in XVS!Sides, v \in VTokens :
       g.state[side][v] = IF <<side, v>> \in T THEN XVS!updateIndex(f, side, v, ms[v])
                                               ELSE f.state[side][v]
  /\ \A side \in XVS!Sides, v \in VTokens, a \in Accounts :
       g.accountIndex[side][v][a] = IF <<side, v>> \in T /\ a \in accounts
                                      THEN g.state[side][v].index
                                      ELSE f.accountIndex[side][v][a]
  /\ \A a \in Accounts :
       g.accrued[a] = IF a \in accounts
         THEN f.accrued[a] + Total([k \in T |-> pending(f, k, ms, currentBlock, a)])
         ELSE f.accrued[a]
  /\ \A k \in T, a \in Accounts : pending(f, k, ms, currentBlock, a) \in Nat

LEMMA DistributeFields ==
  ASSUME XVS!FlywheelAssumption, NEW f, NEW listed, currentBlock \in Nat,
         FlywheelOK(f, currentBlock, listed), listed \subseteq VTokens,
         NEW sides \in SUBSET XVS!Sides, NEW vTokens \in SUBSET listed,
         NEW accounts \in SUBSET Accounts, NEW ms, \A v \in vTokens : Sound(ms[v])
  PROVE  Distributed(f, XVS!distribute(f, ms, sides, vTokens, accounts), ms,
                     sides \X vTokens, accounts)
<1> DEFINE T == sides \X vTokens
           base == IF T = {} THEN f ELSE XVS!releaseToVault(f)
           state == [side \in XVS!Sides |-> [v \in VTokens |->
                       IF <<side, v>> \in T THEN XVS!updateIndex(f, side, v, ms[v])
                                            ELSE f.state[side][v]]]
           share(a, k) == (XVS!shareOf(k[1], ms[k[2]], a)
                             * XVS!deltaIndex(state[k[1]][k[2]].index,
                                              f.accountIndex[k[1]][k[2]][a]))
                          \div doubleScale
           accountIndex == [side \in XVS!Sides |-> [v \in VTokens |-> [a \in Accounts |->
                              IF <<side, v>> \in T /\ a \in accounts
                                THEN state[side][v].index
                                ELSE f.accountIndex[side][v][a]]]]
           accrued == [a \in Accounts |->
                         IF a \in accounts THEN f.accrued[a] + Total([k \in T |-> share(a, k)])
                                           ELSE f.accrued[a]]
           g == XVS!distribute(f, ms, sides, vTokens, accounts)
<1>1. f \in XVS!Flywheel /\ doubleScale \in Nat \ {0}
  BY FlywheelConstants DEF FlywheelOK
<1>2. /\ base \in XVS!Flywheel /\ base.state = f.state /\ base.speed = f.speed
      /\ base.accountIndex = f.accountIndex /\ base.accrued = f.accrued
  BY <1>1, ReleaseFields
<1>3. g = [base EXCEPT !.state = state, !.accountIndex = accountIndex, !.accrued = accrued]
  <2>1. g = [base EXCEPT
         !.state = state,
         !.accountIndex = [side \in XVS!Sides |-> [v \in VTokens |-> [a \in Accounts |->
            IF <<side, v>> \in T /\ a \in accounts THEN state[side][v].index
                                                         ELSE base.accountIndex[side][v][a]]]],
         !.accrued = [a \in Accounts |->
            IF a \in accounts THEN base.accrued[a] + Total([k \in T |-> share(a, k)])
                              ELSE base.accrued[a]]]
    BY SameMarkets DEF XVS!distribute
  <2> HIDE DEF base, state, share, g
  <2> QED BY <1>2, <2>1
<1> HIDE DEF base, g
<1>4. \A side \in XVS!Sides, v \in VTokens :
        /\ state[side][v] = IF <<side, v>> \in T THEN XVS!updateIndex(f, side, v, ms[v])
                                                 ELSE f.state[side][v]
        /\ state[side][v] \in XVS!State
        /\ <<side, v>> \in T =>
             /\ state[side][v].index = movedIndex(f, <<side, v>>, ms, currentBlock)
             /\ state[side][v].index >= f.state[side][v].index
  <2> SUFFICES ASSUME NEW side \in XVS!Sides, NEW v \in VTokens
               PROVE  /\ state[side][v] = IF <<side, v>> \in T
                                            THEN XVS!updateIndex(f, side, v, ms[v])
                                            ELSE f.state[side][v]
                      /\ state[side][v] \in XVS!State
                      /\ <<side, v>> \in T =>
                           /\ state[side][v].index = movedIndex(f, <<side, v>>, ms, currentBlock)
                           /\ state[side][v].index >= f.state[side][v].index
    BY Zenon
  <2>1. state[side][v] = IF <<side, v>> \in T THEN XVS!updateIndex(f, side, v, ms[v])
                                              ELSE f.state[side][v]
    OBVIOUS
  <2>2. f.state[side][v] \in XVS!State
    BY <1>1 DEF XVS!Flywheel
  <2> HIDE DEF state
  <2>3. CASE <<side, v>> \in T
    <3>1. Sound(ms[v])
      BY <2>3
    <3>2. /\ XVS!updateIndex(f, side, v, ms[v]) \in XVS!State
          /\ XVS!updateIndex(f, side, v, ms[v]).index = movedIndex(f, <<side, v>>, ms, currentBlock)
          /\ XVS!updateIndex(f, side, v, ms[v]).index >= f.state[side][v].index
      BY <3>1, UpdateFields
    <3> QED BY <2>1, <2>3, <3>2
  <2> QED BY <2>1, <2>2, <2>3
<1>5. \A k \in T, a \in Accounts :
        share(a, k) = pending(f, k, ms, currentBlock, a) /\ pending(f, k, ms, currentBlock, a) \in Nat
  <2> SUFFICES ASSUME NEW k \in T, NEW a \in Accounts
               PROVE  /\ share(a, k) = pending(f, k, ms, currentBlock, a)
                      /\ pending(f, k, ms, currentBlock, a) \in Nat
    BY Zenon
  <2>1. k \in Keys /\ k = <<k[1], k[2]>> /\ k[1] \in XVS!Sides /\ k[2] \in VTokens
        /\ k[2] \in vTokens /\ Sound(ms[k[2]])
    BY DEF Keys
  <2> DEFINE i == movedIndex(f, k, ms, currentBlock)
             from == f.accountIndex[k[1]][k[2]][a]
             w == weight(ms, k, a)
             d == XVS!deltaIndex(i, from)
  <2>2. state[k[1]][k[2]].index = i /\ i \in Nat /\ i >= f.state[k[1]][k[2]].index
    <3> HIDE DEF state
    <3>1. state[k[1]][k[2]].index = i /\ i >= f.state[k[1]][k[2]].index
      BY <1>4, <2>1
    <3>2. state[k[1]][k[2]].index \in Nat
      BY <1>4, <2>1 DEF XVS!State
    <3> QED BY <3>1, <3>2
  <2>3. /\ from \in Nat /\ w \in Nat
        /\ from = 0 \/ from \in doubleScale .. f.state[k[1]][k[2]].index
        /\ f.state[k[1]][k[2]].index \in Nat
    <3>1. from \in Nat /\ w \in Nat /\ f.state[k[1]][k[2]].index \in Nat
      BY <2>1, KeyFacts
    <3>2. from = 0 \/ from \in doubleScale .. f.state[k[1]][k[2]].index
      BY <2>1 DEF FlywheelOK
    <3> QED BY <3>1, <3>2
  <2>4. from = 0 \/ from \in doubleScale .. i
    BY <1>1, <2>2, <2>3
  <2>5. d \in Nat
    <3> HIDE DEF i, from
    <3> QED BY <1>1, <2>2, <2>3, <2>4, DeltaFacts
  <2>6. (w * d) \div doubleScale \in Nat
    <3> HIDE DEF w, d
    <3>1. w * d \in Nat
      BY <2>3, <2>5
    <3> QED BY <1>1, <3>1, DivBounds
  <2>7. pending(f, k, ms, currentBlock, a) = (w * d) \div doubleScale
    BY DEF pending
  <2>8. share(a, k) = (w * d) \div doubleScale
    BY <2>2 DEF weight
  <2> QED BY <2>6, <2>7, <2>8
<1> HIDE DEF state
<1>6. state \in [XVS!Sides -> [VTokens -> XVS!State]]
  <2>1. state = [side \in XVS!Sides |-> [v \in VTokens |-> state[side][v]]]
    BY DEF state
  <2> QED BY <1>4, <2>1
<1>7. accountIndex \in [XVS!Sides -> [VTokens -> [Accounts -> Nat]]]
  <2>1. \A side \in XVS!Sides, v \in VTokens, a \in Accounts :
          f.accountIndex[side][v][a] \in Nat
    BY <1>1 DEF XVS!Flywheel
  <2>2. \A side \in XVS!Sides, v \in VTokens : state[side][v].index \in Nat
    <3>1. \A side \in XVS!Sides, v \in VTokens : state[side][v] \in XVS!State
      BY <1>4
    <3> QED BY <3>1 DEF XVS!State
  <2> HIDE DEF T
  <2> QED BY <2>1, <2>2
<1>8. IsFiniteSet(T) /\ T \subseteq Keys
  <2>1. T \subseteq Keys
    BY DEF Keys
  <2> QED BY <2>1, FlywheelConstants, FS_Subset
<1>9. \A a \in Accounts :
        /\ [k \in T |-> share(a, k)] = [k \in T |-> pending(f, k, ms, currentBlock, a)]
        /\ [k \in T |-> share(a, k)] \in [T -> Nat]
        /\ Total([k \in T |-> share(a, k)]) \in Nat
  <2> SUFFICES ASSUME NEW a \in Accounts
               PROVE  /\ [k \in T |-> share(a, k)] = [k \in T |-> pending(f, k, ms, currentBlock, a)]
                      /\ [k \in T |-> share(a, k)] \in [T -> Nat]
                      /\ Total([k \in T |-> share(a, k)]) \in Nat
    BY Zenon
  <2> DEFINE s == [k \in T |-> share(a, k)]
  <2>1. s = [k \in T |-> pending(f, k, ms, currentBlock, a)] /\ s \in [T -> Nat]
    <3> HIDE DEF share, T
    <3> QED BY <1>5
  <2>2. Total(s) \in Nat
    <3> HIDE DEF s, T
    <3> QED BY <1>8, <2>1, TotalBounds
  <2> QED BY <2>1, <2>2
<1> HIDE DEF share
<1>10. accrued \in [Accounts -> Nat]
  <2>1. \A a \in Accounts : f.accrued[a] \in Nat
    BY <1>1 DEF XVS!Flywheel
  <2> HIDE DEF T
  <2> QED BY <1>9, <2>1
<1>11. g \in XVS!Flywheel /\ g.speed = f.speed /\ g.state = state
       /\ g.accountIndex = accountIndex /\ g.accrued = accrued
  <2> HIDE DEF accrued, accountIndex
  <2> QED BY <1>2, <1>3, <1>6, <1>7, <1>10 DEF XVS!Flywheel
<1>12. \A side \in XVS!Sides, v \in VTokens, a \in Accounts :
         g.accountIndex[side][v][a] = IF <<side, v>> \in T /\ a \in accounts
                                        THEN g.state[side][v].index
                                        ELSE f.accountIndex[side][v][a]
  BY <1>11
<1>13. \A a \in Accounts :
         g.accrued[a] = IF a \in accounts
           THEN f.accrued[a] + Total([k \in T |-> pending(f, k, ms, currentBlock, a)])
           ELSE f.accrued[a]
  <2> HIDE DEF T
  <2> QED BY <1>9, <1>11
<1>14. \A side \in XVS!Sides, v \in VTokens :
         g.state[side][v] = IF <<side, v>> \in T THEN XVS!updateIndex(f, side, v, ms[v])
                                                 ELSE f.state[side][v]
  BY <1>4, <1>11
<1>15. Distributed(f, g, ms, T, accounts)
  <2> HIDE DEF T
  <2> QED BY <1>5, <1>11, <1>12, <1>13, <1>14 DEF Distributed
<1> QED BY <1>15 DEF g

\* What is paid out to whom, from which key.
paidOut(f, ms, T, accounts) ==
  [x \in Accounts \X Keys |->
     IF x[2] \in T /\ x[1] \in accounts THEN pending(f, x[2], ms, currentBlock, x[1]) ELSE 0]

\* g is f after the indices of T were moved and paid to some accounts.
Moved(f, g, ms, T, accounts) ==
  /\ g \in XVS!Flywheel /\ g.speed = f.speed
  /\ \A k \in Keys :
       IF k \in T
         THEN /\ g.state[k[1]][k[2]].index = movedIndex(f, k, ms, currentBlock)
              /\ g.state[k[1]][k[2]].block = currentBlock
         ELSE g.state[k[1]][k[2]] = f.state[k[1]][k[2]]
  /\ \A k \in Keys, a \in Accounts :
       g.accountIndex[k[1]][k[2]][a] = IF k \in T /\ a \in accounts
                                         THEN g.state[k[1]][k[2]].index
                                         ELSE f.accountIndex[k[1]][k[2]][a]
  /\ \A a \in Accounts :
       g.accrued[a] = f.accrued[a]
         + Total([k \in Keys |-> paidOut(f, ms, T, accounts)[<<a, k>>]])

LEMMA PaidOutType ==
  ASSUME XVS!FlywheelAssumption, NEW f, NEW listed, currentBlock \in Nat,
         FlywheelOK(f, currentBlock, listed), NEW ms, MarketsOK(ms, currentBlock),
         NEW T \in SUBSET Keys, NEW accounts \in SUBSET Accounts
  PROVE  /\ \A k \in Keys, a \in Accounts : pending(f, k, ms, currentBlock, a) \in Nat
         /\ paidOut(f, ms, T, accounts) \in [Accounts \X Keys -> Nat]
<1>1. \A k \in Keys, a \in Accounts : pending(f, k, ms, currentBlock, a) \in Nat
  <2> SUFFICES ASSUME NEW k \in Keys, NEW a \in Accounts
               PROVE  pending(f, k, ms, currentBlock, a) \in Nat
    BY Zenon
  <2>1. k = <<k[1], k[2]>> /\ k[1] \in XVS!Sides /\ k[2] \in VTokens
    BY KeyParts
  <2>2. Sound(ms[k[2]])
    BY <2>1 DEF MarketsOK
  <2> DEFINE i == movedIndex(f, k, ms, currentBlock)
             from == f.accountIndex[k[1]][k[2]][a]
             w == weight(ms, k, a)
             d == XVS!deltaIndex(i, from)
             u == XVS!updateIndex(f, k[1], k[2], ms[k[2]])
  <2>3. u \in XVS!State /\ u.index = movedIndex(f, <<k[1], k[2]>>, ms, currentBlock)
        /\ u.index >= f.state[k[1]][k[2]].index
    BY <2>1, <2>2, UpdateFields
  <2>4. i \in Nat /\ i >= f.state[k[1]][k[2]].index
    BY <2>1, <2>3 DEF XVS!State
  <2>5. from \in Nat /\ w \in Nat /\ f.state[k[1]][k[2]].index \in Nat
    BY <2>2, KeyFacts
  <2>6. from = 0 \/ from \in doubleScale .. f.state[k[1]][k[2]].index
    BY <2>1 DEF FlywheelOK
  <2>7. doubleScale \in Nat \ {0}
    BY FlywheelConstants
  <2>8. from = 0 \/ from \in doubleScale .. i
    <3> HIDE DEF i, from
    <3> QED BY <2>4, <2>5, <2>6, <2>7
  <2>9. d \in Nat
    <3> HIDE DEF i, from
    <3> QED BY <2>4, <2>5, <2>7, <2>8, DeltaFacts
  <2>10. pending(f, k, ms, currentBlock, a) = (w * d) \div doubleScale
    BY DEF pending
  <2> HIDE DEF w, d
  <2>11. w * d \in Nat
    BY <2>5, <2>9
  <2> QED BY <2>7, <2>10, <2>11, DivBounds
<1> QED BY <1>1 DEF paidOut

\* Keys that contribute nothing do not count.
SameRow(T, row, some) ==
  /\ T \subseteq Keys /\ row \in [Keys -> Nat] /\ some \in [T -> Nat]
  /\ \A k \in T : row[k] = some[k]
  /\ \A k \in Keys \ T : row[k] = 0

LEMMA RowTotal ==
  ASSUME NEW T, NEW row, NEW some, SameRow(T, row, some)
  PROVE  Total(row) = Total(some)
<1>1. T \subseteq Keys
  BY DEF SameRow
<1>2. row \in [Keys -> Nat]
  BY DEF SameRow
<1>3. some \in [T -> Nat]
  BY DEF SameRow
<1>4. \A k \in T : row[k] = some[k]
  BY DEF SameRow
<1>5. \A k \in Keys \ T : row[k] = 0
  BY DEF SameRow
<1> QED BY <1>1, <1>2, <1>3, <1>4, <1>5, TotalExtend

LEMMA DistributeMoves ==
  ASSUME XVS!FlywheelAssumption, NEW f, NEW listed, currentBlock \in Nat,
         FlywheelOK(f, currentBlock, listed), listed \subseteq VTokens,
         NEW ms, MarketsOK(ms, currentBlock),
         NEW sides \in SUBSET XVS!Sides, NEW vTokens \in SUBSET listed,
         NEW accounts \in SUBSET Accounts, NEW hs, \A v \in vTokens : hs[v] = ms[v]
  PROVE  Moved(f, XVS!distribute(f, hs, sides, vTokens, accounts), ms,
               sides \X vTokens, accounts)
<1> DEFINE g == XVS!distribute(f, hs, sides, vTokens, accounts)
           T == sides \X vTokens
           p == paidOut(f, ms, T, accounts)
<1>1. /\ \A v \in VTokens : Sound(ms[v])
      /\ \A v \in vTokens : Sound(hs[v])
  BY DEF MarketsOK
<1>2. T \in SUBSET Keys
  BY DEF Keys
<1>3. Distributed(f, g, ms, T, accounts)
  <2>1. Distributed(f, g, hs, T, accounts)
    BY <1>1, DistributeFields
  <2>2. \A k \in T : k[2] \in vTokens /\ hs[k[2]] = ms[k[2]]
    OBVIOUS
  <2>3. \A side \in XVS!Sides, v \in VTokens : <<side, v>> \in T => hs[v] = ms[v]
    OBVIOUS
  <2> HIDE DEF T, g
  <2>4. \A k \in T, a \in Accounts :
          pending(f, k, hs, currentBlock, a) = pending(f, k, ms, currentBlock, a)
    BY <2>2 DEF pending, movedIndex, weight
  <2>5. \A a \in Accounts : [k \in T |-> pending(f, k, hs, currentBlock, a)]
                             = [k \in T |-> pending(f, k, ms, currentBlock, a)]
    BY <2>4
  <2> QED BY <2>1, <2>3, <2>4, <2>5 DEF Distributed
<1> HIDE DEF g
<1>4. ASSUME NEW k \in Keys
      PROVE  IF k \in T
               THEN /\ g.state[k[1]][k[2]].index = movedIndex(f, k, ms, currentBlock)
                    /\ g.state[k[1]][k[2]].block = currentBlock
               ELSE g.state[k[1]][k[2]] = f.state[k[1]][k[2]]
  <2>1. k = <<k[1], k[2]>> /\ k[1] \in XVS!Sides /\ k[2] \in VTokens
    BY KeyParts
  <2>2. g.state[k[1]][k[2]] = IF <<k[1], k[2]>> \in T
                                THEN XVS!updateIndex(f, k[1], k[2], ms[k[2]])
                                ELSE f.state[k[1]][k[2]]
    BY <1>3, <2>1 DEF Distributed
  <2>3. /\ XVS!updateIndex(f, k[1], k[2], ms[k[2]]).index
             = movedIndex(f, <<k[1], k[2]>>, ms, currentBlock)
        /\ XVS!updateIndex(f, k[1], k[2], ms[k[2]]).block = currentBlock
    BY <1>1, <2>1, UpdateFields
  <2> HIDE DEF T
  <2> QED BY <2>1, <2>2, <2>3
<1>5. ASSUME NEW k \in Keys, NEW a \in Accounts
      PROVE  g.accountIndex[k[1]][k[2]][a] = IF k \in T /\ a \in accounts
                                               THEN g.state[k[1]][k[2]].index
                                               ELSE f.accountIndex[k[1]][k[2]][a]
  <2>1. k = <<k[1], k[2]>> /\ k[1] \in XVS!Sides /\ k[2] \in VTokens
    BY KeyParts
  <2> HIDE DEF T
  <2> QED BY <1>3, <2>1 DEF Distributed
<1>6. ASSUME NEW a \in Accounts
      PROVE  g.accrued[a] = f.accrued[a] + Total([k \in Keys |-> p[<<a, k>>]])
  <2> DEFINE row == [k \in Keys |-> p[<<a, k>>]]
             some == [k \in T |-> pending(f, k, ms, currentBlock, a)]
  <2>1. p \in [Accounts \X Keys -> Nat]
    BY <1>2, PaidOutType
  <2>2. \A k \in Keys : p[<<a, k>>] = IF k \in T /\ a \in accounts
                                        THEN pending(f, k, ms, currentBlock, a) ELSE 0
    BY DEF paidOut
  <2> HIDE DEF p
  <2>3. row \in [Keys -> Nat] /\ \A k \in Keys : row[k] = p[<<a, k>>]
    BY <2>1
  <2>4. some \in [T -> Nat] /\ \A k \in T : some[k] = pending(f, k, ms, currentBlock, a)
    <3> HIDE DEF T
    <3> QED BY <1>3 DEF Distributed
  <2> HIDE DEF row, some, T
  <2>5. f.accrued[a] \in Nat
    BY DEF FlywheelOK, XVS!Flywheel
  <2>6. CASE a \in accounts
    <3>1. Total(row) = Total(some)
      <4>1. \A k \in T : row[k] = some[k]
        BY <1>2, <2>2, <2>3, <2>4, <2>6
      <4>2. \A k \in Keys \ T : row[k] = 0
        BY <2>2, <2>3
      <4>3. SameRow(T, row, some)
        BY <1>2, <2>3, <2>4, <4>1, <4>2 DEF SameRow
      <4> QED BY <4>3, RowTotal
    <3> QED BY <1>3, <2>6, <3>1 DEF row, some, Distributed
  <2>7. CASE a \notin accounts
    <3>1. \A k \in Keys : row[k] = 0
      BY <2>2, <2>3, <2>7
    <3>2. Total(row) = 0
      BY <2>3, <3>1, TotalZero
    <3>3. g.accrued[a] = f.accrued[a]
      BY <1>3, <2>7 DEF Distributed
    <3> QED BY <2>5, <3>2, <3>3 DEF row
  <2> QED BY <2>6, <2>7
<1>7. Moved(f, g, ms, T, accounts)
  <2> HIDE DEF T
  <2> QED BY <1>3, <1>4, <1>5, <1>6 DEF Moved, Distributed
<1> QED BY <1>7 DEF g

LEMMA LedgerTypes ==
  ASSUME XVS!FlywheelAssumption, NEW f, NEW listed, NEW block, block \in Nat,
         FlywheelOK(f, block, listed), NEW ms, MarketsOK(ms, block)
  PROVE  /\ Unpaid(f, ms) \in [Keys -> Nat] /\ Total(Unpaid(f, ms)) \in Nat
         /\ Coming(f, block) \in [Keys -> Nat] /\ Total(Coming(f, block)) \in Nat
         /\ f.accrued \in [Accounts -> Nat] /\ Total(f.accrued) \in Nat
         /\ \A k \in Keys : [a \in Accounts |-> weight(ms, k, a) * delta(f, k, a)]
                              \in [Accounts -> Nat]
<1>1. ASSUME NEW k \in Keys
      PROVE  [a \in Accounts |-> weight(ms, k, a) * delta(f, k, a)] \in [Accounts -> Nat]
  <2>1. Sound(ms[k[2]])
    BY KeyParts DEF MarketsOK
  <2>2. \A a \in Accounts : weight(ms, k, a) \in Nat /\ delta(f, k, a) \in Nat
    BY <2>1, KeyFacts
  <2>3. \A x, y \in Nat : x * y \in Nat
    OBVIOUS
  <2>4. \A a \in Accounts : weight(ms, k, a) * delta(f, k, a) \in Nat
    BY <2>2, <2>3
  <2> QED BY <2>4
<1>2. Unpaid(f, ms) \in [Keys -> Nat]
  <2>1. \A k \in Keys : Total([a \in Accounts |-> weight(ms, k, a) * delta(f, k, a)]) \in Nat
    BY <1>1, FlywheelConstants, TotalBounds
  <2> QED BY <2>1 DEF Unpaid
<1>3. Coming(f, block) \in [Keys -> Nat]
  <2>1. ASSUME NEW k \in Keys
        PROVE  f.speed[k[1]][k[2]] * (block - f.state[k[1]][k[2]].block) * doubleScale \in Nat
    <3> DEFINE sp == f.speed[k[1]][k[2]]
               n == block - f.state[k[1]][k[2]].block
    <3>1. Sound(ms[k[2]]) /\ k[1] \in XVS!Sides /\ k[2] \in VTokens
      BY KeyParts DEF MarketsOK
    <3>2. sp \in Nat /\ f.state[k[1]][k[2]].block \in Nat
      BY <3>1, KeyFacts
    <3>3. f.state[k[1]][k[2]].block <= block
      BY <3>1 DEF FlywheelOK
    <3>4. n \in Nat /\ doubleScale \in Nat
      BY <3>2, <3>3, FlywheelConstants
    <3> HIDE DEF sp, n
    <3>5. sp * n * doubleScale \in Nat
      BY <3>2, <3>4
    <3> QED BY <3>5 DEF sp, n
  <2> QED BY <2>1 DEF Coming
<1>4. f.accrued \in [Accounts -> Nat]
  BY DEF FlywheelOK, XVS!Flywheel
<1>5. IsFiniteSet(Keys) /\ IsFiniteSet(Accounts)
  BY FlywheelConstants
<1>6. /\ Total(Unpaid(f, ms)) \in Nat /\ Total(Coming(f, block)) \in Nat
      /\ Total(f.accrued) \in Nat
  <2>1. Total(Unpaid(f, ms)) \in Nat
    BY <1>2, <1>5, TotalBounds
  <2>2. Total(Coming(f, block)) \in Nat
    BY <1>3, <1>5, TotalBounds
  <2>3. Total(f.accrued) \in Nat
    BY <1>4, <1>5, TotalBounds
  <2> QED BY <2>1, <2>2, <2>3
<1> QED BY <1>1, <1>2, <1>3, <1>4, <1>6

\* How far an index moves: by what its speed has released, shared by everybody
\* who has a share, whenever the index may move at all.
LEMMA KeyGain ==
  ASSUME XVS!FlywheelAssumption, NEW f, NEW listed, currentBlock \in Nat,
         FlywheelOK(f, currentBlock, listed), NEW ms, MarketsOK(ms, currentBlock),
         NEW k \in Keys, k[2] \in listed,
         \/ k[1] = "supply" \/ ms[k[2]].borrowIndex = expScale
         \/ movedIndex(f, k, ms, currentBlock) <= doubleScale
  PROVE  \E inc \in Nat :
           /\ movedIndex(f, k, ms, currentBlock) = f.state[k[1]][k[2]].index + inc
           /\ inc * Total([a \in Accounts |-> weight(ms, k, a)]) <= Coming(f, currentBlock)[k]
<1> DEFINE i == f.state[k[1]][k[2]].index
           n == currentBlock - f.state[k[1]][k[2]].block
           sp == f.speed[k[1]][k[2]]
           size == XVS!sizeOf(k[1], ms[k[2]])
           total == Total([a \in Accounts |-> weight(ms, k, a)])
           gain == Coming(f, currentBlock)[k]
           moved == movedIndex(f, k, ms, currentBlock)
<1>1. Sound(ms[k[2]]) /\ k[1] \in XVS!Sides /\ k[2] \in VTokens
  BY KeyParts DEF MarketsOK
<1>2. i \in Nat /\ sp \in Nat /\ n \in Nat /\ i >= doubleScale /\ doubleScale \in Nat \ {0}
  <2>1. i \in Nat /\ sp \in Nat /\ f.state[k[1]][k[2]].block \in Nat
    BY <1>1, KeyFacts
  <2>2. f.state[k[1]][k[2]].block <= currentBlock /\ i >= doubleScale
    BY <1>1 DEF FlywheelOK
  <2>3. n \in Nat
    BY <2>1, <2>2
  <2>4. doubleScale \in Nat \ {0}
    BY FlywheelConstants
  <2> HIDE DEF i, n, sp
  <2> QED BY <2>1, <2>2, <2>3, <2>4
<1>3. size \in Nat
  BY <1>1, WeightFacts
<1>4. total \in Nat
  <2>1. \A a \in Accounts : weight(ms, k, a) \in Nat
    BY <1>1, KeyFacts
  <2>2. [a \in Accounts |-> weight(ms, k, a)] \in [Accounts -> Nat]
    BY <2>1
  <2>3. \A w \in [Accounts -> Nat] : Total(w) \in Nat
    BY FlywheelConstants, TotalBounds
  <2> QED BY <2>2, <2>3
<1>5. k[1] = "supply" \/ ms[k[2]].borrowIndex = expScale => total <= size
  <2>1. k[1] = "supply" \/ ms[k[2]].borrowIndex = expScale
          => Total([a \in Accounts |-> XVS!shareOf(k[1], ms[k[2]], a)]) <= size
    BY <1>1, WeightFacts
  <2> QED BY <2>1 DEF weight
<1>6. gain = sp * n * doubleScale /\ gain \in Nat
  <2>1. Coming(f, currentBlock) \in [Keys -> Nat]
    BY LedgerTypes
  <2> QED BY <2>1 DEF Coming
<1>7. moved = IF currentBlock = f.state[k[1]][k[2]].block \/ sp = 0 \/ size = 0 THEN i
              ELSE i + (n * sp * doubleScale) \div size
  BY DEF movedIndex
<1>8. n * sp * doubleScale = gain
  <2> HIDE DEF n, sp, gain
  <2>1. n * sp * doubleScale = sp * n * doubleScale
    BY <1>2
  <2> QED BY <1>6, <2>1
<1>9. \/ k[1] = "supply" \/ ms[k[2]].borrowIndex = expScale \/ moved <= doubleScale
  OBVIOUS
<1> SUFFICES \E inc \in Nat : moved = i + inc /\ inc * total <= gain
  OBVIOUS
<1> HIDE DEF i, n, sp, size, total, gain, moved
<1>10. CASE moved = i
  <2>1. moved = i + 0 /\ 0 * total <= gain
    BY <1>2, <1>4, <1>6, <1>10
  <2> QED BY <2>1
<1>11. CASE moved # i
  <2> DEFINE inc == gain \div size
  <2>1. moved = i + inc /\ size # 0
    BY <1>7, <1>8, <1>11
  <2>2. inc \in Nat /\ inc * size <= gain
    BY <1>3, <1>6, <2>1, DivBounds
  <2> HIDE DEF inc
  <2>3. total <= size
    BY <1>2, <1>5, <1>9, <1>11, <2>1, <2>2
  <2>4. total * inc <= size * inc
    BY <1>3, <1>4, <2>2, <2>3, MulMonotone
  <2>5. inc * total <= gain
    <3>1. inc * total = total * inc /\ inc * size = size * inc
      BY <1>3, <1>4, <2>2
    <3>2. inc * total \in Nat /\ inc * size \in Nat
      BY <1>3, <1>4, <2>2
    <3> QED BY <1>6, <2>2, <2>4, <3>1, <3>2
  <2> QED BY <2>1, <2>2, <2>5
<1> QED BY <1>10, <1>11

\* What each key pays, to all accounts together.
cost(f, ms, T, accounts) ==
  [k \in Keys |-> Total([a \in Accounts |-> paidOut(f, ms, T, accounts)[<<a, k>>]])]

\* Paying one key costs no more than what it owed and what came to it.
LEMMA KeyLedger ==
  ASSUME XVS!FlywheelAssumption, NEW f, NEW listed, currentBlock \in Nat,
         FlywheelOK(f, currentBlock, listed), NEW ms, MarketsOK(ms, currentBlock),
         NEW T \in SUBSET Keys, \A k \in T : k[2] \in listed,
         NEW accounts \in SUBSET Accounts,
         NEW g, Moved(f, g, ms, T, accounts), Quiet(g, ms), NEW k \in Keys
  PROVE  doubleScale * cost(f, ms, T, accounts)[k] + Unpaid(g, ms)[k] + Coming(g, currentBlock)[k]
           <= Unpaid(f, ms)[k] + Coming(f, currentBlock)[k]
<1> DEFINE column == [a \in Accounts |-> paidOut(f, ms, T, accounts)[<<a, k>>]]
           w == [a \in Accounts |-> weight(ms, k, a)]
           d == [a \in Accounts |-> delta(f, k, a)]
           before == [a \in Accounts |-> weight(ms, k, a) * delta(f, k, a)]
           owed == [a \in Accounts |-> weight(ms, k, a) * delta(g, k, a)]
           i == f.state[k[1]][k[2]].index
           j == g.state[k[1]][k[2]].index
<1>1. /\ Sound(ms[k[2]]) /\ k[1] \in XVS!Sides /\ k[2] \in VTokens
      /\ doubleScale \in Nat \ {0} /\ IsFiniteSet(Accounts)
  BY KeyParts, FlywheelConstants DEF MarketsOK
<1>2. w \in [Accounts -> Nat] /\ d \in [Accounts -> Nat] /\ i \in Nat
  BY <1>1, KeyFacts
<1>3. /\ Unpaid(f, ms)[k] = Total(before) /\ Unpaid(g, ms)[k] = Total(owed)
      /\ before \in [Accounts -> Nat] /\ Total(before) \in Nat
      /\ Coming(f, currentBlock)[k] \in Nat
  <2>1. Unpaid(f, ms)[k] = Total(before) /\ Unpaid(g, ms)[k] = Total(owed)
    BY DEF Unpaid
  <2>2. before \in [Accounts -> Nat]
    BY LedgerTypes
  <2>3. Unpaid(f, ms) \in [Keys -> Nat] /\ Coming(f, currentBlock) \in [Keys -> Nat]
    BY LedgerTypes
  <2> HIDE DEF before, owed
  <2> QED BY <2>1, <2>2, <2>3
<1>4. column \in [Accounts -> Nat]
  <2>1. paidOut(f, ms, T, accounts) \in [Accounts \X Keys -> Nat]
    BY PaidOutType
  <2> QED BY <2>1
<1>5. \A a \in Accounts :
        column[a] = IF k \in T /\ a \in accounts THEN pending(f, k, ms, currentBlock, a) ELSE 0
  BY DEF paidOut
<1> HIDE DEF column
<1> SUFFICES doubleScale * Total(column) + Unpaid(g, ms)[k] + Coming(g, currentBlock)[k]
               <= Unpaid(f, ms)[k] + Coming(f, currentBlock)[k]
  BY DEF cost, column
<1>6. CASE k \notin T
  <2>1. \A a \in Accounts : column[a] = 0
    BY <1>5, <1>6
  <2>2. Total(column) = 0
    BY <1>4, <2>1, TotalZero
  <2>3. g.state[k[1]][k[2]] = f.state[k[1]][k[2]] /\ g.speed = f.speed
    BY <1>6 DEF Moved
  <2>4. \A a \in Accounts : g.accountIndex[k[1]][k[2]][a] = f.accountIndex[k[1]][k[2]][a]
    BY <1>6 DEF Moved
  <2>5. owed = before
    BY <2>3, <2>4 DEF delta
  <2>6. Coming(g, currentBlock)[k] = Coming(f, currentBlock)[k]
    BY <2>3 DEF Coming
  <2> HIDE DEF owed, before
  <2> QED BY <1>1, <1>3, <1>4, <2>2, <2>5, <2>6
<1>7. CASE k \in T
  <2>1. /\ j = movedIndex(f, k, ms, currentBlock) /\ k[2] \in listed
        /\ g.state[k[1]][k[2]].block = currentBlock /\ g.speed = f.speed
    BY <1>7 DEF Moved
  <2>2. \/ k[1] = "supply" \/ ms[k[2]].borrowIndex = expScale
        \/ movedIndex(f, k, ms, currentBlock) <= doubleScale
    <3>1. \/ ms[k[2]].borrowIndex = expScale
          \/ g.state["borrow"][k[2]].index <= doubleScale
      BY <1>1 DEF Quiet
    <3>2. k[1] = "supply" \/ k[1] = "borrow"
      BY <1>1, FlywheelConstants
    <3> QED BY <2>1, <3>1, <3>2
  <2>3. PICK inc \in Nat : /\ movedIndex(f, k, ms, currentBlock) = i + inc
                           /\ inc * Total(w) <= Coming(f, currentBlock)[k]
    BY <2>1, <2>2, KeyGain
  <2>4. j = i + inc /\ i >= doubleScale
    <3>1. i >= doubleScale
      BY <1>1, <2>1 DEF FlywheelOK
    <3> QED BY <2>1, <2>3, <3>1
  <2>5. \A a \in Accounts :
          /\ f.accountIndex[k[1]][k[2]][a] \in Nat
          /\ \/ f.accountIndex[k[1]][k[2]][a] = 0
             \/ f.accountIndex[k[1]][k[2]][a] \in doubleScale .. i
    <3>1. \A a \in Accounts : f.accountIndex[k[1]][k[2]][a] \in Nat
      BY <1>1, KeyFacts
    <3>2. \A a \in Accounts : \/ f.accountIndex[k[1]][k[2]][a] = 0
                              \/ f.accountIndex[k[1]][k[2]][a] \in doubleScale .. i
      BY <1>1 DEF FlywheelOK
    <3> QED BY <3>1, <3>2
  <2>6. \A a \in Accounts :
          XVS!deltaIndex(i + inc, f.accountIndex[k[1]][k[2]][a]) = d[a] + inc
    <3> SUFFICES ASSUME NEW a \in Accounts
                 PROVE  XVS!deltaIndex(i + inc, f.accountIndex[k[1]][k[2]][a]) = d[a] + inc
      OBVIOUS
    <3> DEFINE from == f.accountIndex[k[1]][k[2]][a]
    <3>1. from \in Nat /\ (from = 0 \/ from \in doubleScale .. i)
      BY <2>5
    <3>2. d[a] = XVS!deltaIndex(i, from)
      BY DEF delta
    <3> HIDE DEF d, i, from
    <3>3. XVS!deltaIndex(i + inc, from) = XVS!deltaIndex(i, from) + inc
      BY <1>1, <1>2, <2>3, <2>4, <3>1, DeltaFacts
    <3> QED BY <3>2, <3>3 DEF from
  <2>7. column = [a \in Accounts |->
                    IF a \in accounts THEN (w[a] * (d[a] + inc)) \div doubleScale ELSE 0]
    <3>1. \A a \in Accounts : pending(f, k, ms, currentBlock, a)
                                = (w[a] * (d[a] + inc)) \div doubleScale
      <4> SUFFICES ASSUME NEW a \in Accounts
                   PROVE  pending(f, k, ms, currentBlock, a)
                            = (w[a] * (d[a] + inc)) \div doubleScale
        OBVIOUS
      <4>1. pending(f, k, ms, currentBlock, a)
              = (w[a] * XVS!deltaIndex(i + inc, f.accountIndex[k[1]][k[2]][a])) \div doubleScale
        BY <2>3 DEF pending
      <4> HIDE DEF w, d, i
      <4> QED BY <2>6, <4>1
    <3> HIDE DEF w, d
    <3> QED BY <1>4, <1>5, <1>7, <3>1
  <2>8. owed = [a \in Accounts |-> IF a \in accounts THEN 0 ELSE w[a] * (d[a] + inc)]
    <3>1. ASSUME NEW a \in Accounts
          PROVE  weight(ms, k, a) * delta(g, k, a)
                   = IF a \in accounts THEN 0 ELSE w[a] * (d[a] + inc)
      <4>1. g.accountIndex[k[1]][k[2]][a] = IF a \in accounts
                                              THEN j ELSE f.accountIndex[k[1]][k[2]][a]
        BY <1>7 DEF Moved
      <4>2. delta(g, k, a) = XVS!deltaIndex(j, g.accountIndex[k[1]][k[2]][a])
        BY DEF delta
      <4>3. w[a] = weight(ms, k, a) /\ w[a] \in Nat
        BY <1>2
      <4> HIDE DEF j, w, d, i
      <4>4. CASE a \in accounts
        <5>1. delta(g, k, a) = XVS!deltaIndex(j, j) /\ j \in Nat
          BY <1>2, <2>3, <2>4, <4>1, <4>2, <4>4
        <5>2. XVS!deltaIndex(j, j) = 0
          BY <5>1 DEF XVS!deltaIndex, XVS!venusInitialIndex
        <5> QED BY <4>3, <4>4, <5>1, <5>2
      <4>5. CASE a \notin accounts
        <5>1. delta(g, k, a) = d[a] + inc
          BY <2>4, <2>6, <4>1, <4>2, <4>5
        <5> QED BY <4>3, <4>5, <5>1
      <4> QED BY <4>4, <4>5
    <3> HIDE DEF w, d
    <3> QED BY <3>1
  <2>9. before = [a \in Accounts |-> w[a] * d[a]]
    OBVIOUS
  <2> DEFINE gain == Coming(f, currentBlock)[k]
  <2> HIDE DEF w, d, owed, before, gain
  <2>10. inc * Total(w) <= gain /\ gain \in Nat
    BY <1>3, <2>3 DEF gain
  <2>15. Sharing(Accounts, accounts, doubleScale, w, d, inc, gain, column, owed, before)
    BY <1>1, <1>2, <2>7, <2>8, <2>9, <2>10 DEF Sharing
  <2>11. doubleScale * Total(column) + Total(owed) <= Total(before) + gain
    BY <2>15, PayOut
  <2>12. Coming(g, currentBlock)[k] = 0
    <3>1. f.speed[k[1]][k[2]] \in Nat
      BY <1>1, KeyFacts
    <3>2. Coming(g, currentBlock)[k]
            = g.speed[k[1]][k[2]] * (currentBlock - g.state[k[1]][k[2]].block) * doubleScale
      BY DEF Coming
    <3>3. Coming(g, currentBlock)[k] = f.speed[k[1]][k[2]] * 0 * doubleScale
      BY <2>1, <3>2
    <3> QED BY <1>1, <3>1, <3>3
  <2>13. Total(owed) \in Nat /\ Total(column) \in Nat
    <3>1. Total(column) \in Nat
      BY <1>1, <1>4, TotalBounds
    <3>2. owed \in [Accounts -> Nat]
      BY <2>15, PayOut
    <3> QED BY <1>1, <3>1, <3>2, TotalBounds
  <2>14. doubleScale * Total(column) \in Nat
    BY <1>1, <2>13
  <2> QED BY <1>3, <1>4, <2>11, <2>12, <2>13, <2>14 DEF gain
<1> QED BY <1>6, <1>7

\* A distribution keeps the flywheel well-formed, and only moves indices up.
LEMMA MovedOK ==
  ASSUME XVS!FlywheelAssumption, NEW f, NEW listed, currentBlock \in Nat,
         FlywheelOK(f, currentBlock, listed), NEW ms, MarketsOK(ms, currentBlock),
         NEW T \in SUBSET Keys, \A k \in T : k[2] \in listed,
         NEW accounts \in SUBSET Accounts, NEW g, Moved(f, g, ms, T, accounts)
  PROVE  /\ FlywheelOK(g, currentBlock, listed)
         /\ \A k \in Keys : g.state[k[1]][k[2]].index >= f.state[k[1]][k[2]].index
         /\ Quiet(g, ms) => Quiet(f, ms)
<1>1. doubleScale \in Nat \ {0} /\ g \in XVS!Flywheel /\ g.speed = f.speed
  BY FlywheelConstants DEF Moved
<1>2. ASSUME NEW k \in Keys
      PROVE  LET i == f.state[k[1]][k[2]].index
                 j == g.state[k[1]][k[2]].index
             IN  /\ i \in Nat /\ j \in Nat /\ j >= i
                 /\ g.state[k[1]][k[2]].block <= currentBlock
                 /\ k[2] \notin listed => j = i
                 /\ \A a \in Accounts :
                      \/ g.accountIndex[k[1]][k[2]][a] = 0
                      \/ g.accountIndex[k[1]][k[2]][a] \in doubleScale .. j
  <2> DEFINE i == f.state[k[1]][k[2]].index
             j == g.state[k[1]][k[2]].index
  <2>1. Sound(ms[k[2]]) /\ k[1] \in XVS!Sides /\ k[2] \in VTokens /\ k = <<k[1], k[2]>>
    BY KeyParts DEF MarketsOK
  <2>2. i \in Nat /\ f.state[k[1]][k[2]].block <= currentBlock
        /\ (k[2] \in listed => i >= doubleScale)
    <3>1. i \in Nat
      BY <2>1, KeyFacts
    <3>2. f.state[k[1]][k[2]].block <= currentBlock /\ (k[2] \in listed => i >= doubleScale)
      BY <2>1 DEF FlywheelOK
    <3> QED BY <3>1, <3>2
  <2>3. /\ j \in Nat /\ j >= i /\ g.state[k[1]][k[2]].block <= currentBlock
        /\ k[2] \notin listed => j = i
    <3>1. CASE k \in T
      <4> DEFINE u == XVS!updateIndex(f, k[1], k[2], ms[k[2]])
      <4>1. u \in XVS!State /\ u.index = movedIndex(f, <<k[1], k[2]>>, ms, currentBlock)
            /\ u.index >= i
        BY <2>1, UpdateFields
      <4>2. j = movedIndex(f, k, ms, currentBlock) /\ g.state[k[1]][k[2]].block = currentBlock
        BY <3>1 DEF Moved
      <4>3. j = u.index /\ u.index \in Nat
        BY <2>1, <4>1, <4>2 DEF XVS!State
      <4> HIDE DEF u, i, j
      <4> QED BY <3>1, <4>1, <4>2, <4>3
    <3>2. CASE k \notin T
      <4>1. g.state[k[1]][k[2]] = f.state[k[1]][k[2]]
        BY <3>2 DEF Moved
      <4> QED BY <2>2, <4>1
    <3> QED BY <3>1, <3>2
  <2>4. ASSUME NEW a \in Accounts
        PROVE  \/ g.accountIndex[k[1]][k[2]][a] = 0
               \/ g.accountIndex[k[1]][k[2]][a] \in doubleScale .. j
    <3> DEFINE from == f.accountIndex[k[1]][k[2]][a]
    <3>1. from \in Nat
      BY <2>1, KeyFacts
    <3>2. from = 0 \/ from \in doubleScale .. i
      BY <2>1 DEF FlywheelOK
    <3>3. g.accountIndex[k[1]][k[2]][a] = IF k \in T /\ a \in accounts THEN j ELSE from
      BY DEF Moved
    <3>4. k \in T => k[2] \in listed
      OBVIOUS
    <3> HIDE DEF i, j, from
    <3>5. from = 0 \/ from \in doubleScale .. j
      BY <1>1, <2>2, <2>3, <3>1, <3>2
    <3>6. k \in T => j \in doubleScale .. j
      BY <1>1, <2>2, <2>3, <3>4
    <3> QED BY <3>3, <3>5, <3>6
  <2> QED BY <2>2, <2>3, <2>4
<1>3. ASSUME NEW side \in XVS!Sides, NEW v \in VTokens
      PROVE  /\ g.state[side][v].block <= currentBlock
             /\ v \in listed => g.state[side][v].index >= doubleScale
             /\ v \notin listed => g.state[side][v].index = 0 /\ g.speed[side][v] = 0
             /\ \A a \in Accounts :
                  \/ g.accountIndex[side][v][a] = 0
                  \/ g.accountIndex[side][v][a] \in doubleScale .. g.state[side][v].index
  <2> DEFINE k == <<side, v>>
  <2>1. k \in Keys /\ k[1] = side /\ k[2] = v
    BY DEF Keys
  <2>2. /\ f.state[side][v].index \in Nat /\ g.state[side][v].index \in Nat
        /\ g.state[side][v].index >= f.state[side][v].index
        /\ g.state[side][v].block <= currentBlock
        /\ v \notin listed => g.state[side][v].index = f.state[side][v].index
        /\ \A a \in Accounts :
             \/ g.accountIndex[side][v][a] = 0
             \/ g.accountIndex[side][v][a] \in doubleScale .. g.state[side][v].index
    <3> HIDE DEF k
    <3> QED BY <1>2, <2>1
  <2>3. /\ v \in listed => f.state[side][v].index >= doubleScale
        /\ v \notin listed => f.state[side][v].index = 0 /\ f.speed[side][v] = 0
    BY DEF FlywheelOK
  <2> QED BY <1>1, <2>2, <2>3
<1>4. FlywheelOK(g, currentBlock, listed)
  BY <1>1, <1>3 DEF FlywheelOK
<1>5. ASSUME Quiet(g, ms) PROVE Quiet(f, ms)
  <2> SUFFICES ASSUME NEW v \in VTokens
               PROVE  ms[v].borrowIndex = expScale \/ f.state["borrow"][v].index <= doubleScale
    BY DEF Quiet
  <2> DEFINE k == <<"borrow", v>>
  <2>1. k \in Keys /\ k[1] = "borrow" /\ k[2] = v
    BY FlywheelConstants DEF Keys
  <2>2. /\ f.state["borrow"][v].index \in Nat /\ g.state["borrow"][v].index \in Nat
        /\ g.state["borrow"][v].index >= f.state["borrow"][v].index
    <3> HIDE DEF k
    <3> QED BY <1>2, <2>1
  <2>3. ms[v].borrowIndex = expScale \/ g.state["borrow"][v].index <= doubleScale
    BY <1>5 DEF Quiet
  <2> QED BY <1>1, <2>2, <2>3
<1> QED BY <1>2, <1>4, <1>5

\* Key by key, and for all of them.
LEMMA LedgerSum ==
  ASSUME NEW K, IsFiniteSet(K), NEW scale \in Nat,
         NEW c \in [K -> Nat], NEW u \in [K -> Nat], NEW v \in [K -> Nat],
         NEW x \in [K -> Nat], NEW y \in [K -> Nat],
         \A k \in K : scale * c[k] + u[k] + v[k] <= x[k] + y[k]
  PROVE  scale * Total(c) + Total(u) + Total(v) <= Total(x) + Total(y)
<1> DEFINE sc == [k \in K |-> scale * c[k]]
           su == [k \in K |-> sc[k] + u[k]]
           l == [k \in K |-> su[k] + v[k]]
           r == [k \in K |-> x[k] + y[k]]
<1>0. sc \in [K -> Nat]
  <2>1. \A m, n \in Nat : m * n \in Nat
    OBVIOUS
  <2>2. \A k \in K : scale * c[k] \in Nat
    BY <2>1
  <2> QED BY <2>2
<1>1. Total(sc) = scale * Total(c)
  BY TotalTimes
<1>2. su \in [K -> Nat] /\ Total(su) = Total(sc) + Total(u)
  <2>1. \A k \in K : sc[k] \in Nat
    BY <1>0
  <2> HIDE DEF sc
  <2>2. su \in [K -> Nat]
    BY <2>1
  <2>3. Total(su) = Total(sc) + Total(u)
    BY <1>0, TotalSum
  <2> QED BY <2>2, <2>3
<1>3. l \in [K -> Nat] /\ Total(l) = Total(su) + Total(v)
  <2> HIDE DEF su
  <2>1. l \in [K -> Nat]
    BY <1>2
  <2>2. su \in [K -> Nat]
    BY <1>2
  <2>3. Total(l) = Total(su) + Total(v)
    BY <2>2, TotalSum
  <2> QED BY <2>1, <2>3
<1>4. r \in [K -> Nat]
  OBVIOUS
<1>5. Total(r) = Total(x) + Total(y)
  BY TotalSum
<1>6. \A k \in K : l[k] <= r[k]
  OBVIOUS
<1> HIDE DEF sc, su, l, r
<1>7. l \in [K -> Nat]
  BY <1>3
<1>8. Total(l) <= Total(r)
  BY <1>4, <1>6, <1>7, TotalMonotone
<1> QED BY <1>1, <1>2, <1>3, <1>5, <1>8

LEMMA PaidTotal ==
  ASSUME XVS!FlywheelAssumption, NEW f, NEW listed, currentBlock \in Nat,
         FlywheelOK(f, currentBlock, listed), NEW ms, MarketsOK(ms, currentBlock),
         NEW T \in SUBSET Keys, NEW accounts \in SUBSET Accounts,
         NEW g, Moved(f, g, ms, T, accounts)
  PROVE  /\ cost(f, ms, T, accounts) \in [Keys -> Nat]
         /\ Total(g.accrued) = Total(f.accrued) + Total(cost(f, ms, T, accounts))
<1> DEFINE p == paidOut(f, ms, T, accounts)
           row(a) == Total([k \in Keys |-> p[<<a, k>>]])
           rows == [a \in Accounts |-> row(a)]
           columns == [k \in Keys |-> Total([a \in Accounts |-> p[<<a, k>>]])]
<1>1. p \in [Accounts \X Keys -> Nat]
  BY PaidOutType
<1>2. IsFiniteSet(Keys) /\ IsFiniteSet(Accounts)
  BY FlywheelConstants
<1>3. \A a \in Accounts : g.accrued[a] = f.accrued[a] + row(a)
  BY DEF Moved
<1>4. g.accrued \in [Accounts -> Nat] /\ f.accrued \in [Accounts -> Nat]
  BY DEF Moved, FlywheelOK, XVS!Flywheel
<1> HIDE DEF p
<1>5. \A a \in Accounts : row(a) \in Nat
  <2> SUFFICES ASSUME NEW a \in Accounts PROVE row(a) \in Nat
    OBVIOUS
  <2>1. [k \in Keys |-> p[<<a, k>>]] \in [Keys -> Nat]
    BY <1>1
  <2>2. \A h \in [Keys -> Nat] : Total(h) \in Nat
    BY <1>2, TotalBounds
  <2> QED BY <2>1, <2>2
<1>6. columns \in [Keys -> Nat]
  <2> SUFFICES ASSUME NEW k \in Keys
               PROVE  Total([a \in Accounts |-> p[<<a, k>>]]) \in Nat
    OBVIOUS
  <2>1. [a \in Accounts |-> p[<<a, k>>]] \in [Accounts -> Nat]
    BY <1>1
  <2>2. \A h \in [Accounts -> Nat] : Total(h) \in Nat
    BY <1>2, TotalBounds
  <2> QED BY <2>1, <2>2
<1>7. Total(rows) = Total(columns)
  <2>1. Total(RowsOf(Accounts, Keys, p)) = Total(ColumnsOf(Accounts, Keys, p))
    BY <1>1, <1>2, TotalSwap
  <2> QED BY <2>1 DEF RowsOf, ColumnsOf
<1>8. rows \in [Accounts -> Nat]
  <2> HIDE DEF row
  <2> QED BY <1>5
<1>9. g.accrued = [a \in Accounts |-> f.accrued[a] + rows[a]]
  <2> HIDE DEF row
  <2> QED BY <1>3, <1>4
<1> HIDE DEF rows, columns, row
<1>10. Total(g.accrued) = Total(f.accrued) + Total(rows)
  <2>1. \A x, y \in [Accounts -> Nat] : Total([a \in Accounts |-> x[a] + y[a]]) = Total(x) + Total(y)
    BY <1>2, TotalSum
  <2> QED BY <1>4, <1>8, <1>9, <2>1
<1> QED BY <1>6, <1>7, <1>10 DEF cost, columns, p

\* What is paid is no longer pending, and the rest still is.
LEMMA MovedPending ==
  ASSUME XVS!FlywheelAssumption, NEW f, NEW listed, currentBlock \in Nat,
         FlywheelOK(f, currentBlock, listed), NEW ms, MarketsOK(ms, currentBlock),
         NEW T \in SUBSET Keys, NEW accounts \in SUBSET Accounts,
         NEW g, Moved(f, g, ms, T, accounts), NEW k \in Keys, NEW a \in Accounts
  PROVE  pending(f, k, ms, currentBlock, a)
           = paidOut(f, ms, T, accounts)[<<a, k>>] + pending(g, k, ms, currentBlock, a)
<1> DEFINE i == movedIndex(f, k, ms, currentBlock)
           w == weight(ms, k, a)
           here == pending(f, k, ms, currentBlock, a)
           left == pending(g, k, ms, currentBlock, a)
           paid == paidOut(f, ms, T, accounts)[<<a, k>>]
<1>1. here \in Nat /\ paid = IF k \in T /\ a \in accounts THEN here ELSE 0
  <2>1. here \in Nat
    BY PaidOutType
  <2> QED BY <2>1 DEF paidOut
<1>2. /\ here = (w * XVS!deltaIndex(i, f.accountIndex[k[1]][k[2]][a])) \div doubleScale
      /\ left = (w * XVS!deltaIndex(movedIndex(g, k, ms, currentBlock),
                                   g.accountIndex[k[1]][k[2]][a])) \div doubleScale
  BY DEF pending
<1>3. movedIndex(g, k, ms, currentBlock) = i
  <2>1. CASE k \in T
    BY <2>1 DEF Moved, movedIndex
  <2>2. CASE k \notin T
    BY <2>2 DEF Moved, movedIndex
  <2> QED BY <2>1, <2>2
<1>4. g.accountIndex[k[1]][k[2]][a] = IF k \in T /\ a \in accounts
                                        THEN i ELSE f.accountIndex[k[1]][k[2]][a]
  <2>1. k \in T => g.state[k[1]][k[2]].index = i
    BY DEF Moved
  <2> HIDE DEF i
  <2> QED BY <2>1 DEF Moved
<1> SUFFICES here = paid + left
  OBVIOUS
<1> HIDE DEF here, left, paid, i
<1>5. CASE k \in T /\ a \in accounts
  <2>1. k[1] \in XVS!Sides /\ k[2] \in VTokens /\ Sound(ms[k[2]])
        /\ doubleScale \in Nat \ {0}
    BY KeyParts, FlywheelConstants DEF MarketsOK
  <2>2. w \in Nat
    BY <2>1, KeyFacts
  <2>3. i \in Nat
    <3>1. g.state[k[1]][k[2]].index = i
      BY <1>5 DEF Moved, i
    <3>2. g.state[k[1]][k[2]] \in XVS!State
      BY <2>1 DEF Moved, XVS!Flywheel
    <3> QED BY <3>1, <3>2 DEF XVS!State
  <2>4. XVS!deltaIndex(i, i) = 0
    BY <2>3 DEF XVS!deltaIndex, XVS!venusInitialIndex
  <2> HIDE DEF w
  <2>5. left = (w * 0) \div doubleScale
    BY <1>2, <1>3, <1>4, <1>5, <2>4
  <2>6. left = 0
    BY <2>1, <2>2, <2>5
  <2> QED BY <1>1, <1>5, <2>6
<1>6. CASE ~(k \in T /\ a \in accounts)
  <2>1. left = here
    BY <1>2, <1>3, <1>4, <1>6
  <2> QED BY <1>1, <1>6, <2>1
<1> QED BY <1>5, <1>6

LEMMA MovedEarned ==
  ASSUME XVS!FlywheelAssumption, NEW f, NEW listed, currentBlock \in Nat,
         FlywheelOK(f, currentBlock, listed), NEW ms, MarketsOK(ms, currentBlock),
         NEW T \in SUBSET Keys, \A k \in T : k[2] \in listed,
         NEW accounts \in SUBSET Accounts, NEW g, Moved(f, g, ms, T, accounts),
         NEW rec \in [Accounts -> Nat]
  PROVE  EarnedBy(g, ms, rec, currentBlock) = EarnedBy(f, ms, rec, currentBlock)
<1>1. FlywheelOK(g, currentBlock, listed)
  BY MovedOK
<1>2. ASSUME NEW a \in Accounts
      PROVE  rec[a] + g.accrued[a] + Total([k \in Keys |-> pending(g, k, ms, currentBlock, a)])
               = rec[a] + f.accrued[a]
                   + Total([k \in Keys |-> pending(f, k, ms, currentBlock, a)])
  <2> DEFINE here == [k \in Keys |-> pending(f, k, ms, currentBlock, a)]
             left == [k \in Keys |-> pending(g, k, ms, currentBlock, a)]
             paid == [k \in Keys |-> paidOut(f, ms, T, accounts)[<<a, k>>]]
  <2>1. /\ \A k \in Keys : pending(f, k, ms, currentBlock, a) \in Nat
        /\ paidOut(f, ms, T, accounts) \in [Accounts \X Keys -> Nat]
    BY PaidOutType
  <2>2. \A k \in Keys : pending(g, k, ms, currentBlock, a) \in Nat
    BY <1>1, PaidOutType
  <2>3. here \in [Keys -> Nat]
    BY <2>1
  <2>4. paid \in [Keys -> Nat]
    BY <2>1
  <2>5. left \in [Keys -> Nat]
    BY <2>2
  <2>6. \A k \in Keys : here[k] = paid[k] + left[k]
    BY MovedPending
  <2>7. g.accrued[a] = f.accrued[a] + Total(paid)
    BY DEF Moved
  <2> HIDE DEF here, left, paid
  <2>8. here = [k \in Keys |-> paid[k] + left[k]]
    BY <2>3, <2>6
  <2>9. IsFiniteSet(Keys) /\ f.accrued[a] \in Nat /\ rec[a] \in Nat
    <3>1. f \in XVS!Flywheel
      BY DEF FlywheelOK
    <3> QED BY <3>1, FlywheelConstants DEF XVS!Flywheel
  <2>10. Total(here) = Total(paid) + Total(left)
    BY <2>4, <2>5, <2>8, <2>9, TotalSum
  <2>11. Total(paid) \in Nat /\ Total(left) \in Nat
    BY <2>4, <2>5, <2>9, TotalBounds
  <2>12. rec[a] + g.accrued[a] + Total(left) = rec[a] + f.accrued[a] + Total(here)
    BY <2>7, <2>9, <2>10, <2>11
  <2> QED BY <2>12 DEF here, left
<1> QED BY <1>2 DEF EarnedBy

\* A distribution keeps the ledger.
LEMMA MovedGood ==
  ASSUME XVS!FlywheelAssumption, NEW f, NEW listed, NEW rec, NEW p, NEW was, NEW ms,
         Good(f, ms, rec, currentBlock, listed, p, was),
         NEW T \in SUBSET Keys, \A k \in T : k[2] \in listed,
         NEW accounts \in SUBSET Accounts, NEW g, Moved(f, g, ms, T, accounts)
  PROVE  Good(g, ms, rec, currentBlock, listed, p, was)
<1>1. /\ FlywheelOK(f, currentBlock, listed) /\ MarketsOK(ms, currentBlock)
      /\ rec \in [Accounts -> Nat] /\ currentBlock \in Nat /\ listed \subseteq VTokens
      /\ p \in Nat
  BY DEF Good
<1>2. FlywheelOK(g, currentBlock, listed)
  BY <1>1, MovedOK
<1>3. ASSUME Quiet(g, ms) PROVE Ledger(g, ms, rec, currentBlock, p)
  <2> DEFINE c == cost(f, ms, T, accounts)
             u == Unpaid(g, ms)
             v == Coming(g, currentBlock)
             x == Unpaid(f, ms)
             y == Coming(f, currentBlock)
  <2>1. Quiet(f, ms)
    BY <1>1, <1>3, MovedOK
  <2>2. Ledger(f, ms, rec, currentBlock, p)
    BY <2>1 DEF Good
  <2>3. c \in [Keys -> Nat] /\ Total(g.accrued) = Total(f.accrued) + Total(c)
    BY <1>1, PaidTotal
  <2>4. /\ u \in [Keys -> Nat] /\ v \in [Keys -> Nat] /\ Total(u) \in Nat /\ Total(v) \in Nat
        /\ Total(g.accrued) \in Nat
    BY <1>1, <1>2, LedgerTypes
  <2>5. /\ x \in [Keys -> Nat] /\ y \in [Keys -> Nat] /\ Total(x) \in Nat /\ Total(y) \in Nat
        /\ Total(f.accrued) \in Nat
    BY <1>1, LedgerTypes
  <2>6. \A k \in Keys : doubleScale * c[k] + u[k] + v[k] <= x[k] + y[k]
    BY <1>1, <1>3, KeyLedger
  <2>7. doubleScale \in Nat /\ IsFiniteSet(Keys) /\ IsFiniteSet(Accounts)
    BY FlywheelConstants
  <2>8. Total(rec) \in Nat /\ Total(c) \in Nat
    BY <1>1, <2>3, <2>7, TotalBounds
  <2> HIDE DEF c, u, v, x, y
  <2>9. doubleScale * Total(c) + Total(u) + Total(v) <= Total(x) + Total(y)
    BY <2>3, <2>4, <2>5, <2>6, <2>7, LedgerSum
  <2> DEFINE old == Total(rec) + Total(f.accrued)
             new == Total(rec) + Total(g.accrued)
  <2>10. new = old + Total(c) /\ old \in Nat /\ new \in Nat
    BY <2>3, <2>4, <2>5, <2>8
  <2>11. doubleScale * old + Total(x) + Total(y) <= doubleScale * p
    BY <2>2 DEF Ledger, x, y
  <2> HIDE DEF old, new
  <2>12. doubleScale * new = doubleScale * old + doubleScale * Total(c)
    BY <2>7, <2>8, <2>10
  <2>13. doubleScale * old \in Nat /\ doubleScale * Total(c) \in Nat /\ doubleScale * p \in Nat
    BY <1>1, <2>7, <2>8, <2>10
  <2>14. doubleScale * new + Total(u) + Total(v) <= doubleScale * p
    <3> DEFINE before == doubleScale * old
               after == doubleScale * new
               spent == doubleScale * Total(c)
               most == doubleScale * p
               owedHere == Total(u) + Total(v)
               owedBefore == Total(x) + Total(y)
    <3>1. /\ before \in Nat /\ spent \in Nat /\ most \in Nat
          /\ owedHere \in Nat /\ owedBefore \in Nat
      BY <2>4, <2>5, <2>13
    <3>2. after = before + spent
      BY <2>12
    <3>3. spent + owedHere <= owedBefore
      <4>1. spent + Total(u) + Total(v) <= owedBefore
        BY <2>9
      <4> HIDE DEF spent, owedBefore
      <4> QED BY <4>1, <3>1, <2>4
    <3>4. before + owedBefore <= most
      <4>1. before + Total(x) + Total(y) <= most
        BY <2>11
      <4> HIDE DEF before, most
      <4> QED BY <4>1, <3>1, <2>5
    <3> HIDE DEF before, after, spent, most, owedHere, owedBefore
    <3>5. after + owedHere <= most
      BY <3>1, <3>2, <3>3, <3>4
    <3>6. after \in Nat
      BY <3>1, <3>2
    <3>7. after + Total(u) + Total(v) <= most
      BY <3>5, <3>6, <2>4 DEF owedHere
    <3> QED BY <3>7 DEF after, most
  <2> QED BY <2>14 DEF Ledger, u, v, new
<1>4. EarnedBy(g, ms, rec, currentBlock) = EarnedBy(f, ms, rec, currentBlock)
  BY <1>1, MovedEarned
<1>5. Kept(g, ms, rec, currentBlock, was)
  BY <1>4 DEF Good, Kept
<1> QED BY <1>1, <1>2, <1>3, <1>5 DEF Good

\* A market may be replaced by r when whoever is owed something keeps the share
\* it is owed for, but for debts that interest is added to; and when all shares
\* of an index that was not moved to this block stay.
Unshaken(f, ms, v, r, side, a) ==
  LET same == XVS!shareOf(side, r, a) = XVS!shareOf(side, ms[v], a)
  IN  \/ same /\ XVS!sizeOf(side, r) = XVS!sizeOf(side, ms[v])
      \/ /\ same \/ delta(f, <<side, v>>, a) = 0
         /\ f.state[side][v].block = currentBlock
Replaces(f, ms, v, r) ==
  /\ r \in Market /\ Sound(r) /\ Timely(r, currentBlock)
  /\ r.borrowIndex >= ms[v].borrowIndex
  /\ \A side \in XVS!Sides, a \in Accounts :
       \/ XVS!shareOf(side, r, a) = XVS!shareOf(side, ms[v], a)
       \/ delta(f, <<side, v>>, a) = 0
       \/ side = "borrow" /\ r.borrowIndex # expScale
  /\ r.borrowIndex = ms[v].borrowIndex
       => \A side \in XVS!Sides, a \in Accounts : Unshaken(f, ms, v, r, side, a)

LEMMA ReplacedMarkets ==
  ASSUME NEW block, NEW ms, MarketsOK(ms, block), NEW v \in VTokens,
         NEW r, r \in Market, Sound(r), Timely(r, block)
  PROVE  /\ MarketsOK([ms EXCEPT ![v] = r], block)
         /\ [ms EXCEPT ![v] = r][v] = r
         /\ \A x \in VTokens \ {v} : [ms EXCEPT ![v] = r][x] = ms[x]
<1>1. ms \in [VTokens -> Market]
  BY DEF MarketsOK
<1>2. /\ [ms EXCEPT ![v] = r] \in [VTokens -> Market]
      /\ [ms EXCEPT ![v] = r][v] = r
      /\ \A x \in VTokens \ {v} : [ms EXCEPT ![v] = r][x] = ms[x]
  BY <1>1
<1>3. \A x \in VTokens : Sound(ms[x]) /\ Timely(ms[x], block)
  BY DEF MarketsOK
<1> DEFINE ns == [ms EXCEPT ![v] = r]
<1> HIDE DEF ns
<1>4. \A x \in VTokens : Sound(ns[x]) /\ Timely(ns[x], block)
  BY <1>2, <1>3 DEF ns
<1> QED BY <1>2, <1>4 DEF ns, MarketsOK

LEMMA UnshakenPending ==
  ASSUME XVS!FlywheelAssumption, NEW f, NEW listed, currentBlock \in Nat,
         FlywheelOK(f, currentBlock, listed), NEW ms, NEW ns,
         NEW k \in Keys, NEW a \in Accounts, Sound(ms[k[2]]), Sound(ns[k[2]]),
         Unshaken(f, ms, k[2], ns[k[2]], k[1], a)
  PROVE  pending(f, k, ns, currentBlock, a) = pending(f, k, ms, currentBlock, a)
<1> DEFINE m == ms[k[2]]
           r == ns[k[2]]
<1>1. k[1] \in XVS!Sides /\ k[2] \in VTokens /\ k = <<k[1], k[2]>>
  BY KeyParts
<1>2. CASE /\ XVS!shareOf(k[1], r, a) = XVS!shareOf(k[1], m, a)
           /\ XVS!sizeOf(k[1], r) = XVS!sizeOf(k[1], m)
  <2>1. weight(ns, k, a) = weight(ms, k, a)
    BY <1>2 DEF weight
  <2>2. movedIndex(f, k, ns, currentBlock) = movedIndex(f, k, ms, currentBlock)
    BY <1>2 DEF movedIndex
  <2> QED BY <2>1, <2>2 DEF pending
<1>3. CASE f.state[k[1]][k[2]].block = currentBlock
  <2>1. /\ movedIndex(f, k, ns, currentBlock) = f.state[k[1]][k[2]].index
        /\ movedIndex(f, k, ms, currentBlock) = f.state[k[1]][k[2]].index
    BY <1>3 DEF movedIndex
  <2>2. /\ pending(f, k, ns, currentBlock, a)
             = (weight(ns, k, a) * delta(f, k, a)) \div doubleScale
        /\ pending(f, k, ms, currentBlock, a)
             = (weight(ms, k, a) * delta(f, k, a)) \div doubleScale
    BY <2>1 DEF pending, delta
  <2>3. CASE XVS!shareOf(k[1], r, a) = XVS!shareOf(k[1], m, a)
    <3>1. weight(ns, k, a) = weight(ms, k, a)
      BY <2>3 DEF weight
    <3> QED BY <2>2, <3>1
  <2>4. CASE delta(f, k, a) = 0
    <3>1. weight(ns, k, a) \in Nat /\ weight(ms, k, a) \in Nat
      BY KeyFacts
    <3>2. weight(ns, k, a) * 0 = 0 /\ weight(ms, k, a) * 0 = 0
      BY <3>1
    <3> QED BY <2>2, <2>4, <3>2
  <2> QED BY <1>1, <1>2, <2>3, <2>4 DEF Unshaken
<1> QED BY <1>2, <1>3 DEF Unshaken

LEMMA SwapGood ==
  ASSUME XVS!FlywheelAssumption, NEW f, NEW listed, NEW rec, NEW p, NEW was, NEW ms,
         Good(f, ms, rec, currentBlock, listed, p, was),
         NEW v \in VTokens, NEW r, Replaces(f, ms, v, r)
  PROVE  Good(f, [ms EXCEPT ![v] = r], rec, currentBlock, listed, p, was)
<1> DEFINE ns == [ms EXCEPT ![v] = r]
<1>1. /\ FlywheelOK(f, currentBlock, listed) /\ MarketsOK(ms, currentBlock)
      /\ rec \in [Accounts -> Nat] /\ currentBlock \in Nat /\ listed \subseteq VTokens
      /\ p \in Nat
  BY DEF Good
<1>2. r \in Market /\ Sound(r) /\ Timely(r, currentBlock)
  BY DEF Replaces
<1>3. MarketsOK(ns, currentBlock) /\ ns[v] = r /\ \A x \in VTokens \ {v} : ns[x] = ms[x]
  BY <1>1, <1>2, ReplacedMarkets
<1> HIDE DEF ns
<1>4. ASSUME Quiet(f, ns) PROVE Ledger(f, ns, rec, currentBlock, p)
  <2>1. Quiet(f, ms)
    <3> SUFFICES ASSUME NEW x \in VTokens
                 PROVE  ms[x].borrowIndex = expScale \/ f.state["borrow"][x].index <= doubleScale
      BY DEF Quiet
    <3>1. ns[x].borrowIndex = expScale \/ f.state["borrow"][x].index <= doubleScale
      BY <1>4 DEF Quiet
    <3>2. CASE x # v
      BY <1>3, <3>1, <3>2
    <3>3. CASE x = v
      <4>1. r.borrowIndex >= ms[x].borrowIndex /\ ns[x] = r
        BY <1>3, <3>3 DEF Replaces
      <4>2. ms[x].borrowIndex \in Nat /\ ms[x].borrowIndex >= expScale
        <5>1. Sound(ms[x])
          BY <1>1 DEF MarketsOK
        <5> QED BY <5>1 DEF Sound, MarketInv, Market, snapshotsReached
      <4> QED BY <3>1, <4>1, <4>2, ExpScaleAssumption
    <3> QED BY <3>2, <3>3
  <2>2. ASSUME NEW k \in Keys, NEW a \in Accounts
        PROVE  weight(ns, k, a) * delta(f, k, a) = weight(ms, k, a) * delta(f, k, a)
    <3>1. /\ k = <<k[1], k[2]>> /\ k[1] \in XVS!Sides /\ k[2] \in VTokens
          /\ Sound(ms[k[2]]) /\ Sound(ns[k[2]])
      BY <1>1, <1>3, KeyParts DEF MarketsOK
    <3>2. weight(ms, k, a) \in Nat /\ weight(ns, k, a) \in Nat /\ delta(f, k, a) \in Nat
      BY <1>1, <3>1, KeyFacts
    <3>3. CASE k[2] # v
      BY <1>3, <3>1, <3>3 DEF weight
    <3>4. CASE k[2] = v /\ XVS!shareOf(k[1], r, a) = XVS!shareOf(k[1], ms[v], a)
      BY <1>3, <3>4 DEF weight
    <3>5. CASE delta(f, k, a) = 0
      BY <3>2, <3>5
    <3>6. CASE k[2] = v /\ k[1] = "borrow" /\ r.borrowIndex # expScale
      <4>1. f.state["borrow"][v].index <= doubleScale
        BY <1>3, <1>4, <3>6 DEF Quiet
      <4> DEFINE i == f.state[k[1]][k[2]].index
                 from == f.accountIndex[k[1]][k[2]][a]
      <4>2. i \in Nat /\ from \in Nat /\ (i = 0 \/ i >= doubleScale)
        BY <1>1, <3>1, KeyFacts
      <4>3. from = 0 \/ from \in doubleScale .. i
        BY <1>1, <3>1 DEF FlywheelOK
      <4>4. i <= doubleScale
        BY <3>6, <4>1
      <4>5. doubleScale \in Nat \ {0}
        BY FlywheelConstants
      <4>6. delta(f, k, a) = XVS!deltaIndex(i, from)
        BY DEF delta
      <4> HIDE DEF i, from
      <4>7. i = 0 \/ i = doubleScale
        BY <4>2, <4>4, <4>5
      <4>8. XVS!deltaIndex(i, from) = 0
        BY <4>2, <4>3, <4>5, <4>7, DeltaFacts
      <4> QED BY <3>2, <4>6, <4>8
    <3>7. k[2] = v => \/ XVS!shareOf(k[1], r, a) = XVS!shareOf(k[1], ms[v], a)
                      \/ delta(f, k, a) = 0
                      \/ k[1] = "borrow" /\ r.borrowIndex # expScale
      BY <3>1 DEF Replaces
    <3> QED BY <3>3, <3>4, <3>5, <3>6, <3>7
  <2>3. Unpaid(f, ns) = Unpaid(f, ms)
    BY <2>2 DEF Unpaid
  <2>4. Ledger(f, ms, rec, currentBlock, p)
    BY <2>1 DEF Good
  <2> QED BY <2>3, <2>4 DEF Ledger
<1>5. \A x \in VTokens : ns[x].borrowIndex >= ms[x].borrowIndex
  <2>1. \A x \in VTokens : ms[x].borrowIndex \in Nat
    BY <1>1 DEF MarketsOK, Market
  <2> QED BY <1>3, <2>1 DEF Replaces
<1>6. ASSUME \A x \in VTokens : ns[x].borrowIndex = ms[x].borrowIndex
      PROVE  EarnedBy(f, ns, rec, currentBlock) = EarnedBy(f, ms, rec, currentBlock)
  <2>1. ASSUME NEW k \in Keys, NEW a \in Accounts
        PROVE  pending(f, k, ns, currentBlock, a) = pending(f, k, ms, currentBlock, a)
    <3>1. /\ k[1] \in XVS!Sides /\ k[2] \in VTokens
          /\ Sound(ms[k[2]]) /\ Sound(ns[k[2]])
      BY <1>1, <1>3, KeyParts DEF MarketsOK
    <3>2. CASE k[2] = v
      <4>1. r.borrowIndex = ms[v].borrowIndex
        BY <1>3, <1>6, <3>1, <3>2
      <4>2. Unshaken(f, ms, k[2], ns[k[2]], k[1], a)
        BY <1>3, <3>1, <3>2, <4>1 DEF Replaces
      <4> QED BY <1>1, <3>1, <4>2, UnshakenPending
    <3>3. CASE k[2] # v
      <4>1. ns[k[2]] = ms[k[2]]
        BY <1>3, <3>1, <3>3
      <4>2. Unshaken(f, ms, k[2], ns[k[2]], k[1], a)
        BY <4>1 DEF Unshaken
      <4> QED BY <1>1, <3>1, <4>2, UnshakenPending
    <3> QED BY <3>2, <3>3
  <2>2. \A a \in Accounts : rec[a] + f.accrued[a] = rec[a] + f.accrued[a]
    OBVIOUS
  <2> QED BY <2>1, <2>2, SameEarned
<1>7. Kept(f, ns, rec, currentBlock, was)
  <2>1. Kept(f, ms, rec, currentBlock, was)
    BY DEF Good
  <2> QED BY <1>1, <1>3, <1>5, <1>6, <2>1, StillKept
<1>8. Good(f, ns, rec, currentBlock, listed, p, was)
  BY <1>1, <1>3, <1>4, <1>7 DEF Good
<1> QED BY <1>8 DEF ns

\* The hook of one market pays its accounts up to this block.
Paid(f, side, v, accounts) ==
  /\ f.state[side][v].block = currentBlock
  /\ \A a \in accounts : delta(f, <<side, v>>, a) = 0

LEMMA HookGood ==
  ASSUME XVS!FlywheelAssumption, NEW f, NEW listed, NEW rec, NEW p, NEW was, NEW ms,
         Good(f, ms, rec, currentBlock, listed, p, was),
         NEW v \in listed, NEW accounts \in SUBSET Accounts
  PROVE  /\ Good(XVS!supplyHook(f, v, ms[v], accounts), ms, rec, currentBlock, listed, p, was)
         /\ Paid(XVS!supplyHook(f, v, ms[v], accounts), "supply", v, accounts)
         /\ Moved(f, XVS!supplyHook(f, v, ms[v], accounts), ms, {"supply"} \X {v}, accounts)
         /\ Good(XVS!borrowHook(f, v, ms[v], accounts), ms, rec, currentBlock, listed, p, was)
         /\ Paid(XVS!borrowHook(f, v, ms[v], accounts), "borrow", v, accounts)
         /\ Moved(f, XVS!borrowHook(f, v, ms[v], accounts), ms, {"borrow"} \X {v}, accounts)
<1>1. /\ FlywheelOK(f, currentBlock, listed) /\ MarketsOK(ms, currentBlock)
      /\ currentBlock \in Nat /\ listed \subseteq VTokens
  BY DEF Good
<1>2. ASSUME NEW side \in XVS!Sides
      PROVE  LET g == XVS!distribute(f, [x \in {v} |-> ms[v]], {side}, {v}, accounts)
             IN  /\ Good(g, ms, rec, currentBlock, listed, p, was)
                 /\ Moved(f, g, ms, {side} \X {v}, accounts)
                 /\ Paid(g, side, v, accounts)
  <2> DEFINE hs == [x \in {v} |-> ms[v]]
             g == XVS!distribute(f, hs, {side}, {v}, accounts)
             T == {side} \X {v}
  <2>1. {side} \in SUBSET XVS!Sides /\ {v} \in SUBSET listed /\ \A x \in {v} : hs[x] = ms[x]
    OBVIOUS
  <2> HIDE DEF hs
  <2>2. Moved(f, g, ms, T, accounts)
    BY <1>1, <2>1, DistributeMoves
  <2> HIDE DEF g
  <2>3. T \in SUBSET Keys /\ (\A k \in T : k[2] \in listed) /\ <<side, v>> \in T
    BY <1>1 DEF Keys
  <2> HIDE DEF T
  <2>4. Good(g, ms, rec, currentBlock, listed, p, was)
    BY <2>2, <2>3, MovedGood
  <2>5. \A a \in accounts : delta(g, <<side, v>>, a) = 0
    <3> SUFFICES ASSUME NEW a \in accounts PROVE delta(g, <<side, v>>, a) = 0
      OBVIOUS
    <3>1. g.accountIndex[side][v][a] = g.state[side][v].index
      BY <2>2, <2>3 DEF Moved
    <3>2. g.state[side][v].index \in Nat
      <4>1. g.state[side][v] \in XVS!State
        BY <1>1, <2>2 DEF Moved, XVS!Flywheel
      <4> QED BY <4>1 DEF XVS!State
    <3>3. delta(g, <<side, v>>, a) = XVS!deltaIndex(g.state[side][v].index,
                                                   g.state[side][v].index)
      BY <3>1 DEF delta
    <3> QED BY <3>2, <3>3 DEF XVS!deltaIndex, XVS!venusInitialIndex
  <2>6. g.state[side][v].block = currentBlock
    BY <2>2, <2>3 DEF Moved
  <2> QED BY <2>2, <2>4, <2>5, <2>6 DEF g, hs, T, Paid
<1>3. "supply" \in XVS!Sides /\ "borrow" \in XVS!Sides
  BY FlywheelConstants
<1>4. /\ XVS!supplyHook(f, v, ms[v], accounts)
           = XVS!distribute(f, [x \in {v} |-> ms[v]], {"supply"}, {v}, accounts)
      /\ XVS!borrowHook(f, v, ms[v], accounts)
           = XVS!distribute(f, [x \in {v} |-> ms[v]], {"borrow"}, {v}, accounts)
  BY DEF XVS!supplyHook, XVS!borrowHook
<1> QED BY <1>2, <1>3, <1>4

\* Balances and debts that did not change are shared as before.
LEMMA SameSupplyShare ==
  ASSUME NEW m, NEW r, NEW a, r.accountTokens[a] = m.accountTokens[a]
  PROVE  XVS!shareOf("supply", r, a) = XVS!shareOf("supply", m, a)
  BY DEF XVS!shareOf

LEMMA SameDebtShare ==
  ASSUME NEW m, NEW r, NEW a, r.borrowIndex = m.borrowIndex,
         r.principal[a] = m.principal[a], r.interestIndex[a] = m.interestIndex[a]
  PROVE  XVS!shareOf("borrow", r, a) = XVS!shareOf("borrow", m, a)
<1>1. XVS!borrowBalanceStored(r, a) = XVS!borrowBalanceStored(m, a)
  BY DEF XVS!borrowBalanceStored
<1>2. \A x : XVS!unscaled(r, x) = XVS!unscaled(m, x)
  BY DEF XVS!unscaled
<1>3. /\ XVS!shareOf("borrow", r, a) = XVS!unscaled(r, XVS!borrowBalanceStored(r, a))
      /\ XVS!shareOf("borrow", m, a) = XVS!unscaled(m, XVS!borrowBalanceStored(m, a))
  BY DEF XVS!shareOf
<1> QED BY <1>1, <1>2, <1>3

LEMMA SameSizes ==
  ASSUME NEW m, NEW r
  PROVE  /\ r.totalSupply = m.totalSupply => XVS!sizeOf("supply", r) = XVS!sizeOf("supply", m)
         /\ r.borrowIndex = m.borrowIndex /\ r.totalBorrows = m.totalBorrows
              => XVS!sizeOf("borrow", r) = XVS!sizeOf("borrow", m)
  BY DEF XVS!sizeOf, XVS!unscaled

\* Adding interest, and changing the balances or the debts of who was paid.
LEMMA AccrueReplaces ==
  ASSUME XVS!FlywheelAssumption, NEW f, NEW ms, currentBlock \in Nat,
         MarketsOK(ms, currentBlock), NEW v \in VTokens, NEW rate \in Nat
  PROVE  Replaces(f, ms, v, accrueInterest(ms[v], rate, currentBlock))
<1> DEFINE m == ms[v]
           r == accrueInterest(m, rate, currentBlock)
<1>1. Sound(m) /\ Timely(m, currentBlock)
  BY DEF MarketsOK
<1> HIDE DEF m
<1>2. /\ Sound(r) /\ Timely(r, currentBlock) /\ r \in Market
      /\ r.borrowIndex >= m.borrowIndex
      /\ r.accountTokens = m.accountTokens /\ r.totalSupply = m.totalSupply
      /\ r.principal = m.principal /\ r.interestIndex = m.interestIndex
      /\ r.borrowIndex = m.borrowIndex => r.totalBorrows = m.totalBorrows
  BY <1>1, AccrueKeeps
<1>3. m.borrowIndex \in Nat /\ m.borrowIndex >= expScale
  BY <1>1 DEF Sound, MarketInv, Market, snapshotsReached
<1> HIDE DEF r
<1>4. r.borrowIndex = expScale => r.borrowIndex = m.borrowIndex
  BY <1>2, <1>3, ExpScaleAssumption
<1>5. \A a \in Accounts : XVS!shareOf("supply", r, a) = XVS!shareOf("supply", m, a)
  BY <1>2, SameSupplyShare
<1>6. r.borrowIndex = m.borrowIndex
        => \A a \in Accounts : XVS!shareOf("borrow", r, a) = XVS!shareOf("borrow", m, a)
  BY <1>2, SameDebtShare
<1>7. XVS!Sides = {"supply", "borrow"}
  BY FlywheelConstants
<1>8. XVS!sizeOf("supply", r) = XVS!sizeOf("supply", m)
  BY <1>2, SameSizes
<1>9. r.borrowIndex = m.borrowIndex => XVS!sizeOf("borrow", r) = XVS!sizeOf("borrow", m)
  BY <1>2, SameSizes
<1>10. ASSUME r.borrowIndex = m.borrowIndex, NEW side \in XVS!Sides, NEW a \in Accounts
       PROVE  Unshaken(f, ms, v, r, side, a)
  BY <1>5, <1>6, <1>7, <1>8, <1>9, <1>10 DEF Unshaken, m
<1>11. Replaces(f, ms, v, r)
  BY <1>2, <1>4, <1>5, <1>6, <1>7, <1>10 DEF Replaces, m
<1> QED BY <1>11 DEF r, m

LEMMA SupplyReplaces ==
  ASSUME XVS!FlywheelAssumption, NEW f, NEW ms, NEW v \in VTokens,
         NEW accounts \in SUBSET Accounts, Paid(f, "supply", v, accounts),
         ms[v].borrowIndex \in Nat,
         NEW r, r \in Market, Sound(r), Timely(r, currentBlock), SameDebts(ms[v], r),
         \A a \in Accounts \ accounts : r.accountTokens[a] = ms[v].accountTokens[a]
  PROVE  Replaces(f, ms, v, r)
<1>1. XVS!Sides = {"supply", "borrow"}
  BY FlywheelConstants
<1>2. ASSUME NEW a \in Accounts
      PROVE  \/ XVS!shareOf("supply", r, a) = XVS!shareOf("supply", ms[v], a)
             \/ delta(f, <<"supply", v>>, a) = 0
  <2>1. CASE a \in accounts
    BY <2>1 DEF Paid
  <2>2. CASE a \notin accounts
    <3>1. r.accountTokens[a] = ms[v].accountTokens[a]
      BY <2>2
    <3> QED BY <3>1, SameSupplyShare
  <2> QED BY <2>1, <2>2
<1>3. ASSUME NEW a \in Accounts
      PROVE  XVS!shareOf("borrow", r, a) = XVS!shareOf("borrow", ms[v], a)
  <2>1. /\ r.borrowIndex = ms[v].borrowIndex /\ r.principal[a] = ms[v].principal[a]
        /\ r.interestIndex[a] = ms[v].interestIndex[a]
    BY DEF SameDebts
  <2> QED BY <2>1, SameDebtShare
<1>4. r.borrowIndex >= ms[v].borrowIndex
  BY DEF SameDebts
<1>5. ASSUME NEW side \in XVS!Sides, NEW a \in Accounts
      PROVE  Unshaken(f, ms, v, r, side, a)
  <2>1. CASE side = "supply"
    BY <1>2, <2>1 DEF Unshaken, Paid
  <2>2. CASE side = "borrow"
    <3>1. XVS!sizeOf("borrow", r) = XVS!sizeOf("borrow", ms[v])
      BY SameSizes DEF SameDebts
    <3> QED BY <1>3, <2>2, <3>1 DEF Unshaken
  <2> QED BY <1>1, <2>1, <2>2
<1> QED BY <1>1, <1>2, <1>3, <1>4, <1>5 DEF Replaces

LEMMA DebtReplaces ==
  ASSUME XVS!FlywheelAssumption, NEW f, NEW ms, NEW v \in VTokens,
         NEW accounts \in SUBSET Accounts, Paid(f, "borrow", v, accounts),
         ms[v].borrowIndex \in Nat,
         NEW r, r \in Market, Sound(r), Timely(r, currentBlock), SameSupply(ms[v], r),
         r.borrowIndex = ms[v].borrowIndex,
         \A a \in Accounts \ accounts :
           r.principal[a] = ms[v].principal[a] /\ r.interestIndex[a] = ms[v].interestIndex[a]
  PROVE  Replaces(f, ms, v, r)
<1>1. XVS!Sides = {"supply", "borrow"}
  BY FlywheelConstants
<1>2. ASSUME NEW a \in Accounts
      PROVE  \/ XVS!shareOf("borrow", r, a) = XVS!shareOf("borrow", ms[v], a)
             \/ delta(f, <<"borrow", v>>, a) = 0
  <2>1. CASE a \in accounts
    BY <2>1 DEF Paid
  <2>2. CASE a \notin accounts
    <3>1. /\ r.borrowIndex = ms[v].borrowIndex /\ r.principal[a] = ms[v].principal[a]
          /\ r.interestIndex[a] = ms[v].interestIndex[a]
      BY <2>2
    <3> QED BY <3>1, SameDebtShare
  <2> QED BY <2>1, <2>2
<1>3. ASSUME NEW a \in Accounts
      PROVE  XVS!shareOf("supply", r, a) = XVS!shareOf("supply", ms[v], a)
  <2>1. r.accountTokens[a] = ms[v].accountTokens[a]
    BY DEF SameSupply
  <2> QED BY <2>1, SameSupplyShare
<1>4. r.borrowIndex >= ms[v].borrowIndex
  OBVIOUS
<1>5. ASSUME NEW side \in XVS!Sides, NEW a \in Accounts
      PROVE  Unshaken(f, ms, v, r, side, a)
  <2>1. CASE side = "borrow"
    BY <1>2, <2>1 DEF Unshaken, Paid
  <2>2. CASE side = "supply"
    <3>1. XVS!sizeOf("supply", r) = XVS!sizeOf("supply", ms[v])
      BY SameSizes DEF SameSupply
    <3> QED BY <1>3, <2>2, <3>1 DEF Unshaken
  <2> QED BY <1>1, <2>1, <2>2
<1> QED BY <1>1, <1>2, <1>3, <1>4, <1>5 DEF Replaces

\* A call to a market: the hook, then a market that differs for who was paid.
LEMMA SupplyCall ==
  ASSUME XVS!FlywheelAssumption, NEW f, NEW listed, NEW rec, NEW p, NEW was, NEW ms,
         Good(f, ms, rec, currentBlock, listed, p, was),
         NEW v \in listed, NEW accounts \in SUBSET Accounts,
         NEW r, r \in Market, Sound(r), Timely(r, currentBlock), SameDebts(ms[v], r),
         \A a \in Accounts \ accounts : r.accountTokens[a] = ms[v].accountTokens[a]
  PROVE  Good(XVS!supplyHook(f, v, ms[v], accounts), [ms EXCEPT ![v] = r], rec,
              currentBlock, listed, p, was)
<1> DEFINE g == XVS!supplyHook(f, v, ms[v], accounts)
<1>1. /\ Good(g, ms, rec, currentBlock, listed, p, was) /\ Paid(g, "supply", v, accounts)
  BY HookGood
<1> HIDE DEF g
<1>2. v \in VTokens /\ ms[v].borrowIndex \in Nat
  BY DEF Good, MarketsOK, Market
<1>3. Replaces(g, ms, v, r)
  BY <1>1, <1>2, SupplyReplaces
<1>4. Good(g, [ms EXCEPT ![v] = r], rec, currentBlock, listed, p, was)
  BY <1>1, <1>2, <1>3, SwapGood
<1> QED BY <1>4 DEF g

LEMMA DebtCall ==
  ASSUME XVS!FlywheelAssumption, NEW f, NEW listed, NEW rec, NEW p, NEW was, NEW ms,
         Good(f, ms, rec, currentBlock, listed, p, was),
         NEW v \in listed, NEW accounts \in SUBSET Accounts,
         NEW r, r \in Market, Sound(r), Timely(r, currentBlock), SameSupply(ms[v], r),
         r.borrowIndex = ms[v].borrowIndex,
         \A a \in Accounts \ accounts :
           r.principal[a] = ms[v].principal[a] /\ r.interestIndex[a] = ms[v].interestIndex[a]
  PROVE  Good(XVS!borrowHook(f, v, ms[v], accounts), [ms EXCEPT ![v] = r], rec,
              currentBlock, listed, p, was)
<1> DEFINE g == XVS!borrowHook(f, v, ms[v], accounts)
<1>1. /\ Good(g, ms, rec, currentBlock, listed, p, was) /\ Paid(g, "borrow", v, accounts)
  BY HookGood
<1> HIDE DEF g
<1>2. v \in VTokens /\ ms[v].borrowIndex \in Nat
  BY DEF Good, MarketsOK, Market
<1>3. Replaces(g, ms, v, r)
  BY <1>1, <1>2, DebtReplaces
<1>4. Good(g, [ms EXCEPT ![v] = r], rec, currentBlock, listed, p, was)
  BY <1>1, <1>2, <1>3, SwapGood
<1> QED BY <1>4 DEF g

\* The inductive invariant of the flywheel, and what a step does.
Balance == EarnedBy(flywheel, markets, received, currentBlock)
Before == Snapshot(flywheel, markets, received, currentBlock)
FlyInv ==
  /\ Good(flywheel, markets, received, currentBlock, allMarkets, promised, Before)
  /\ isListed \subseteq allMarkets

FlyStep ==
  /\ FlyInv'
  /\ /\ currentBlock' = currentBlock
     /\ \A v \in VTokens : markets'[v].borrowIndex = markets[v].borrowIndex
     => Balance' = Balance

LEMMA FlyFacts ==
  ASSUME XVS!FlywheelAssumption, FlyInv
  PROVE  /\ Good(flywheel, markets, received, currentBlock, allMarkets, promised, Before)
         /\ isListed \subseteq allMarkets /\ allMarkets \subseteq VTokens
         /\ markets \in [VTokens -> Market] /\ currentBlock \in Nat
         /\ \A v \in VTokens : Sound(markets[v]) /\ Timely(markets[v], currentBlock)
  BY DEF FlyInv, Good, MarketsOK

\* Interest that is added first changes nothing for the rewards.
LEMMA AccruedGood ==
  ASSUME XVS!FlywheelAssumption, NEW f, NEW listed, NEW rec, NEW p, NEW was, NEW ms,
         Good(f, ms, rec, currentBlock, listed, p, was), NEW v \in VTokens, NEW rate \in Nat
  PROVE  LET m == accrueInterest(ms[v], rate, currentBlock)
         IN  /\ Good(f, [ms EXCEPT ![v] = m], rec, currentBlock, listed, p, was)
             /\ [ms EXCEPT ![v] = m][v] = m
             /\ Sound(m) /\ Timely(m, currentBlock) /\ m \in Market
             /\ \A r : [[ms EXCEPT ![v] = m] EXCEPT ![v] = r] = [ms EXCEPT ![v] = r]
<1> DEFINE m == accrueInterest(ms[v], rate, currentBlock)
<1>1. MarketsOK(ms, currentBlock) /\ currentBlock \in Nat /\ ms \in [VTokens -> Market]
  BY DEF Good, MarketsOK
<1>2. Replaces(f, ms, v, m)
  BY <1>1, AccrueReplaces
<1> HIDE DEF m
<1>3. Good(f, [ms EXCEPT ![v] = m], rec, currentBlock, listed, p, was)
  BY <1>2, SwapGood
<1>4. Sound(m) /\ Timely(m, currentBlock) /\ m \in Market
  BY <1>2 DEF Replaces
<1>5. /\ [ms EXCEPT ![v] = m][v] = m
      /\ \A r : [[ms EXCEPT ![v] = m] EXCEPT ![v] = r] = [ms EXCEPT ![v] = r]
  BY <1>1
<1> QED BY <1>3, <1>4, <1>5 DEF m

LEMMA AccruedFlywheel ==
  ASSUME XVS!FlywheelAssumption, FlyInv, NEW v \in VTokens, NEW m \in XVS!Accrued(v)
  PROVE  /\ Good(flywheel, [markets EXCEPT ![v] = m], received, currentBlock,
                 allMarkets, promised, Before)
         /\ [markets EXCEPT ![v] = m][v] = m
         /\ Sound(m) /\ Timely(m, currentBlock) /\ m \in Market
         /\ \A r : [[markets EXCEPT ![v] = m] EXCEPT ![v] = r] = [markets EXCEPT ![v] = r]
         /\ \E rate \in Nat : m = accrueInterest(markets[v], rate, currentBlock)
<1>1. PICK rate \in BorrowRates : m = XVS!accrueInterest(markets[v], rate, currentBlock)
  BY DEF XVS!Accrued
<1>2. rate \in Nat
  BY FlywheelConstants
<1>3. m = accrueInterest(markets[v], rate, currentBlock)
  BY <1>1, SameMarkets
<1>4. Good(flywheel, markets, received, currentBlock, allMarkets, promised, Before)
  BY DEF FlyInv
<1> DEFINE r == accrueInterest(markets[v], rate, currentBlock)
<1>5. /\ Good(flywheel, [markets EXCEPT ![v] = r], received, currentBlock,
              allMarkets, promised, Before)
      /\ [markets EXCEPT ![v] = r][v] = r
      /\ Sound(r) /\ Timely(r, currentBlock) /\ r \in Market
      /\ \A q : [[markets EXCEPT ![v] = r] EXCEPT ![v] = q] = [markets EXCEPT ![v] = q]
  BY <1>2, <1>4, AccruedGood
<1> HIDE DEF r
<1>6. m = r
  BY <1>3 DEF r
<1> QED BY <1>2, <1>3, <1>5, <1>6

-----------------------------------------------------------------------------
(* Every step keeps the ledger. *)

\* The rest of the state after a call.
Unmoved ==
  UNCHANGED <<isListed, allMarkets, received, promised, currentBlock>>

LEMMA StepDone ==
  ASSUME NEW g, NEW ns, NEW rec, NEW listed, NEW p,
         Good(g, ns, rec, currentBlock, listed, p, Before),
         flywheel' = g, markets' = ns, received' = rec, allMarkets' = listed,
         promised' = p, currentBlock' = currentBlock, isListed' \subseteq listed
  PROVE  FlyStep
<1>1. Good(g, ns, rec, currentBlock, listed, p, Snapshot(g, ns, rec, currentBlock))
  BY Reset
<1>2. FlyInv'
  BY <1>1 DEF FlyInv, Before
<1>3. ASSUME \A v \in VTokens : ns[v].borrowIndex = markets[v].borrowIndex
      PROVE  EarnedBy(g, ns, rec, currentBlock) = Balance
  <2>1. Kept(g, ns, rec, currentBlock, Before)
    BY DEF Good
  <2>2. Before.earned = Balance /\ \A v \in VTokens : Before.index[v] = markets[v].borrowIndex
    BY DEF Before, Balance, Snapshot
  <2> QED BY <1>3, <2>1, <2>2 DEF Kept
<1>4. Balance' = EarnedBy(g, ns, rec, currentBlock)
  BY DEF Balance
<1> QED BY <1>2, <1>3, <1>4 DEF FlyStep

LEMMA CallDone ==
  ASSUME FlyInv, Unmoved, NEW g, NEW ns, flywheel' = g, markets' = ns,
         Good(g, ns, received, currentBlock, allMarkets, promised, Before)
  PROVE  FlyStep
<1>1. /\ received' = received /\ allMarkets' = allMarkets /\ promised' = promised
      /\ currentBlock' = currentBlock /\ isListed' \subseteq allMarkets
  BY DEF Unmoved, FlyInv
<1> QED BY <1>1, StepDone

LEMMA AccrueInterestFly ==
  ASSUME XVS!FlywheelAssumption, FlyInv, NEW v \in VTokens, XVS!AccrueInterest(v)
  PROVE  FlyStep
<1>1. PICK m \in XVS!Accrued(v) : markets' = [markets EXCEPT ![v] = m]
  BY DEF XVS!AccrueInterest
<1>2. flywheel' = flywheel /\ Unmoved
  BY DEF XVS!AccrueInterest, Unmoved
<1>3. Good(flywheel, [markets EXCEPT ![v] = m], received, currentBlock,
           allMarkets, promised, Before)
  BY AccruedFlywheel
<1> QED BY <1>1, <1>2, <1>3, CallDone

LEMMA MintFly ==
  ASSUME XVS!FlywheelAssumption, FlyInv, NEW v \in VTokens, NEW minter \in Accounts,
         NEW amount \in Nat, XVS!Mint(minter, v, amount)
  PROVE  FlyStep
<1>1. PICK m \in XVS!Accrued(v) :
        /\ XVS!canMint(m)
        /\ flywheel' = XVS!supplyHook(flywheel, v, m, {minter})
        /\ markets' = [markets EXCEPT ![v] = XVS!mintFresh(m, minter, amount)]
  BY DEF XVS!Mint
<1>2. v \in isListed /\ Unmoved
  BY DEF XVS!Mint, Unmoved
<1> DEFINE ms == [markets EXCEPT ![v] = m]
           r == mintFresh(m, minter, amount)
<1>3. /\ Good(flywheel, ms, received, currentBlock, allMarkets, promised, Before) /\ ms[v] = m
      /\ Sound(m) /\ Timely(m, currentBlock) /\ m \in Market
      /\ [ms EXCEPT ![v] = r] = [markets EXCEPT ![v] = r]
  BY AccruedFlywheel
<1>4. canMint(m) /\ markets' = [markets EXCEPT ![v] = r] /\ v \in allMarkets
      /\ currentBlock \in Nat
  BY <1>1, <1>2, SameMarkets, FlyFacts
<1>5. /\ Sound(r) /\ Timely(r, currentBlock) /\ r \in Market /\ SameDebts(m, r)
      /\ \A a \in Accounts \ {minter} : r.accountTokens[a] = m.accountTokens[a]
  BY <1>3, <1>4, MintKeeps
<1> HIDE DEF r, ms
<1>6. {minter} \in SUBSET Accounts
  OBVIOUS
<1>7. Good(XVS!supplyHook(flywheel, v, ms[v], {minter}), [ms EXCEPT ![v] = r], received,
           currentBlock, allMarkets, promised, Before)
  BY <1>3, <1>4, <1>5, <1>6, SupplyCall
<1> QED BY <1>1, <1>2, <1>3, <1>4, <1>7, CallDone

LEMMA RedeemFly ==
  ASSUME XVS!FlywheelAssumption, FlyInv, NEW v \in VTokens, NEW redeemer \in Accounts,
         NEW tokens \in Nat, XVS!Redeem(redeemer, v, tokens)
  PROVE  FlyStep
<1>1. PICK m \in XVS!Accrued(v) :
        /\ XVS!canRedeem(m, redeemer, tokens, XVS!redeemAmountFor(m, tokens))
        /\ flywheel' = XVS!supplyHook(flywheel, v, m, {redeemer})
        /\ markets' = [markets EXCEPT ![v] =
             XVS!redeemFresh(m, redeemer, tokens, XVS!redeemAmountFor(m, tokens))]
  BY DEF XVS!Redeem
<1>2. v \in isListed /\ Unmoved
  BY DEF XVS!Redeem, Unmoved
<1> DEFINE ms == [markets EXCEPT ![v] = m]
           amount == redeemAmountFor(m, tokens)
           r == redeemFresh(m, redeemer, tokens, amount)
<1>3. /\ Good(flywheel, ms, received, currentBlock, allMarkets, promised, Before) /\ ms[v] = m
      /\ Sound(m) /\ Timely(m, currentBlock) /\ m \in Market
      /\ [ms EXCEPT ![v] = r] = [markets EXCEPT ![v] = r]
  BY AccruedFlywheel
<1>4. /\ canRedeem(m, redeemer, tokens, amount) /\ markets' = [markets EXCEPT ![v] = r]
      /\ v \in allMarkets /\ currentBlock \in Nat
  BY <1>1, <1>2, SameMarkets, FlyFacts
<1>5. amount \in Nat
  <2>1. exchangeRateStored(m) \in Nat
    BY <1>3, <1>4, ExchangeRateFacts DEF Sound, MarketInv, canRedeem
  <2> QED BY <2>1, MulScalarBounds DEF redeemAmountFor
<1>6. /\ Sound(r) /\ Timely(r, currentBlock) /\ r \in Market /\ SameDebts(m, r)
      /\ \A a \in Accounts \ {redeemer} : r.accountTokens[a] = m.accountTokens[a]
  <2> HIDE DEF amount
  <2> QED BY <1>3, <1>4, <1>5, RedeemKeeps
<1> HIDE DEF r, ms
<1>7. {redeemer} \in SUBSET Accounts
  OBVIOUS
<1>8. Good(XVS!supplyHook(flywheel, v, ms[v], {redeemer}), [ms EXCEPT ![v] = r], received,
           currentBlock, allMarkets, promised, Before)
  BY <1>3, <1>4, <1>6, <1>7, SupplyCall
<1> QED BY <1>1, <1>2, <1>3, <1>4, <1>8, CallDone

LEMMA TransferFly ==
  ASSUME XVS!FlywheelAssumption, FlyInv, NEW v \in VTokens, NEW src \in Accounts,
         NEW dst \in Accounts, NEW tokens \in Nat, XVS!Transfer(src, dst, v, tokens)
  PROVE  FlyStep
<1> DEFINE r == moveTokens(markets[v], src, dst, tokens)
<1>1. /\ XVS!canMove(markets[v], src, dst, tokens)
      /\ flywheel' = XVS!supplyHook(flywheel, v, markets[v], {src, dst})
      /\ markets' = [markets EXCEPT ![v] = XVS!moveTokens(markets[v], src, dst, tokens)]
      /\ v \in isListed /\ Unmoved
  BY FlyFacts DEF XVS!Transfer, Unmoved
<1>2. /\ Good(flywheel, markets, received, currentBlock, allMarkets, promised, Before)
      /\ v \in allMarkets /\ currentBlock \in Nat
      /\ Sound(markets[v]) /\ Timely(markets[v], currentBlock)
  BY <1>1, FlyFacts
<1>3. canMove(markets[v], src, dst, tokens) /\ markets' = [markets EXCEPT ![v] = r]
  BY <1>1, SameMarkets
<1>4. /\ Sound(r) /\ Timely(r, currentBlock) /\ r \in Market /\ SameDebts(markets[v], r)
      /\ \A a \in Accounts \ {src, dst} : r.accountTokens[a] = markets[v].accountTokens[a]
  BY <1>2, <1>3, MoveKeeps
<1> HIDE DEF r
<1>5. {src, dst} \in SUBSET Accounts
  OBVIOUS
<1>6. Good(XVS!supplyHook(flywheel, v, markets[v], {src, dst}), [markets EXCEPT ![v] = r],
           received, currentBlock, allMarkets, promised, Before)
  BY <1>2, <1>4, <1>5, SupplyCall
<1> QED BY <1>1, <1>3, <1>6, CallDone

LEMMA BorrowFly ==
  ASSUME XVS!FlywheelAssumption, FlyInv, NEW v \in VTokens, NEW borrower \in Accounts,
         NEW amount \in Nat, XVS!Borrow(borrower, v, amount)
  PROVE  FlyStep
<1>1. PICK m \in XVS!Accrued(v) :
        /\ XVS!canBorrow(m, amount)
        /\ flywheel' = XVS!borrowHook(flywheel, v, m, {borrower})
        /\ markets' = [markets EXCEPT ![v] = XVS!borrowFresh(m, borrower, amount)]
  BY DEF XVS!Borrow
<1>2. v \in isListed /\ Unmoved
  BY DEF XVS!Borrow, Unmoved
<1> DEFINE ms == [markets EXCEPT ![v] = m]
           r == borrowFresh(m, borrower, amount)
<1>3. /\ Good(flywheel, ms, received, currentBlock, allMarkets, promised, Before) /\ ms[v] = m
      /\ Sound(m) /\ Timely(m, currentBlock) /\ m \in Market
      /\ [ms EXCEPT ![v] = r] = [markets EXCEPT ![v] = r]
  BY AccruedFlywheel
<1>4. canBorrow(m, amount) /\ markets' = [markets EXCEPT ![v] = r] /\ v \in allMarkets
      /\ currentBlock \in Nat
  BY <1>1, <1>2, SameMarkets, FlyFacts
<1>5. /\ Sound(r) /\ Timely(r, currentBlock) /\ r \in Market /\ SameSupply(m, r)
      /\ r.borrowIndex = m.borrowIndex
      /\ \A a \in Accounts \ {borrower} :
           r.principal[a] = m.principal[a] /\ r.interestIndex[a] = m.interestIndex[a]
  BY <1>3, <1>4, BorrowKeeps
<1> HIDE DEF r, ms
<1>6. {borrower} \in SUBSET Accounts
  OBVIOUS
<1>7. Good(XVS!borrowHook(flywheel, v, ms[v], {borrower}), [ms EXCEPT ![v] = r], received,
           currentBlock, allMarkets, promised, Before)
  BY <1>3, <1>4, <1>5, <1>6, DebtCall
<1> QED BY <1>1, <1>2, <1>3, <1>4, <1>7, CallDone

LEMMA RepayFly ==
  ASSUME XVS!FlywheelAssumption, FlyInv, NEW v \in VTokens, NEW borrower \in Accounts,
         NEW amount \in Nat, XVS!RepayBorrow(borrower, v, amount)
  PROVE  FlyStep
<1>1. PICK m \in XVS!Accrued(v) :
        /\ XVS!canRepay(m, borrower, amount)
        /\ flywheel' = XVS!borrowHook(flywheel, v, m, {borrower})
        /\ markets' = [markets EXCEPT ![v] = XVS!repayBorrowFresh(m, borrower, amount)]
  BY DEF XVS!RepayBorrow
<1>2. v \in isListed /\ Unmoved
  BY DEF XVS!RepayBorrow, Unmoved
<1> DEFINE ms == [markets EXCEPT ![v] = m]
           r == repayBorrowFresh(m, borrower, amount)
<1>3. /\ Good(flywheel, ms, received, currentBlock, allMarkets, promised, Before) /\ ms[v] = m
      /\ Sound(m) /\ Timely(m, currentBlock) /\ m \in Market
      /\ [ms EXCEPT ![v] = r] = [markets EXCEPT ![v] = r]
  BY AccruedFlywheel
<1>4. canRepay(m, borrower, amount) /\ markets' = [markets EXCEPT ![v] = r]
      /\ v \in allMarkets /\ currentBlock \in Nat
  BY <1>1, <1>2, SameMarkets, FlyFacts
<1>5. /\ Sound(r) /\ Timely(r, currentBlock) /\ r \in Market /\ SameSupply(m, r)
      /\ r.borrowIndex = m.borrowIndex
      /\ \A a \in Accounts \ {borrower} :
           r.principal[a] = m.principal[a] /\ r.interestIndex[a] = m.interestIndex[a]
  BY <1>3, <1>4, RepayKeeps
<1> HIDE DEF r, ms
<1>6. {borrower} \in SUBSET Accounts
  OBVIOUS
<1>7. Good(XVS!borrowHook(flywheel, v, ms[v], {borrower}), [ms EXCEPT ![v] = r], received,
           currentBlock, allMarkets, promised, Before)
  BY <1>3, <1>4, <1>5, <1>6, DebtCall
<1> QED BY <1>1, <1>2, <1>3, <1>4, <1>7, CallDone

LEMMA LiquidateFly ==
  ASSUME XVS!FlywheelAssumption, FlyInv, NEW vB \in VTokens, NEW vC \in VTokens,
         NEW liquidator \in Accounts, NEW borrower \in Accounts,
         NEW amount \in Nat, NEW tokens \in Nat,
         XVS!LiquidateBorrow(liquidator, borrower, vB, vC, amount, tokens)
  PROVE  FlyStep
<1> DEFINE after(ms) ==
             [ms EXCEPT ![vB] = XVS!repayBorrowFresh(ms[vB], borrower, amount)]
<1>1. PICK mB \in XVS!Accrued(vB), mC \in XVS!Accrued(vC) :
        LET ms == [markets EXCEPT ![vC] = mC, ![vB] = mB]
        IN  /\ XVS!canRepay(ms[vB], borrower, amount)
            /\ XVS!canMove(after(ms)[vC], borrower, liquidator, tokens)
            /\ flywheel' =
                 XVS!supplyHook(XVS!borrowHook(flywheel, vB, ms[vB], {borrower}),
                                vC, after(ms)[vC], {borrower, liquidator})
            /\ markets' = [after(ms) EXCEPT ![vC] =
                             XVS!moveTokens(after(ms)[vC], borrower, liquidator, tokens)]
  <2>1. \A ms, x, y : [after(ms) EXCEPT ![vC] = XVS!moveTokens(@, borrower, liquidator, tokens)]
                        = [after(ms) EXCEPT ![vC] =
                             XVS!moveTokens(after(ms)[vC], borrower, liquidator, tokens)]
    OBVIOUS
  <2> QED BY <2>1 DEF XVS!LiquidateBorrow
<1>2. vB \in isListed /\ vC \in isListed /\ Unmoved
  BY DEF XVS!LiquidateBorrow, Unmoved
<1> DEFINE ns == [markets EXCEPT ![vC] = mC]
           ms == [markets EXCEPT ![vC] = mC, ![vB] = mB]
           rB == repayBorrowFresh(ms[vB], borrower, amount)
           repaid == [ms EXCEPT ![vB] = rB]
           rC == moveTokens(repaid[vC], borrower, liquidator, tokens)
           g == XVS!borrowHook(flywheel, vB, ms[vB], {borrower})
<1>3. /\ canRepay(ms[vB], borrower, amount)
      /\ canMove(repaid[vC], borrower, liquidator, tokens)
      /\ flywheel' = XVS!supplyHook(g, vC, repaid[vC], {borrower, liquidator})
      /\ markets' = [repaid EXCEPT ![vC] = rC]
  <2>1. after(ms) = repaid
    BY SameMarkets
  <2> HIDE DEF after
  <2>2. /\ XVS!canRepay(ms[vB], borrower, amount)
        /\ XVS!canMove(repaid[vC], borrower, liquidator, tokens)
        /\ flywheel' = XVS!supplyHook(g, vC, repaid[vC], {borrower, liquidator})
        /\ markets' = [repaid EXCEPT ![vC] =
                         XVS!moveTokens(repaid[vC], borrower, liquidator, tokens)]
    <3> HIDE DEF repaid
    <3> QED BY <1>1, <2>1
  <2> HIDE DEF repaid, ms
  <2> QED BY <2>2, SameMarkets
<1>4. /\ Good(flywheel, markets, received, currentBlock, allMarkets, promised, Before)
      /\ vB \in allMarkets /\ vC \in allMarkets /\ currentBlock \in Nat
      /\ markets \in [VTokens -> Market]
  BY <1>2, FlyFacts
<1>5. Good(flywheel, ms, received, currentBlock, allMarkets, promised, Before)
  <2>1. Good(flywheel, ns, received, currentBlock, allMarkets, promised, Before)
    BY AccruedFlywheel
  <2>2. ms = [ns EXCEPT ![vB] = mB]
    OBVIOUS
  <2>3. CASE vB = vC
    <3>1. ms = [markets EXCEPT ![vB] = mB]
      BY <1>4, <2>3
    <3>2. Good(flywheel, [markets EXCEPT ![vB] = mB], received, currentBlock,
               allMarkets, promised, Before)
      BY AccruedFlywheel
    <3> QED BY <3>1, <3>2
  <2>4. CASE vB # vC
    <3>1. ns[vB] = markets[vB]
      BY <1>4, <2>4
    <3>2. PICK rate \in Nat : mB = accrueInterest(markets[vB], rate, currentBlock)
      BY AccruedFlywheel
    <3> HIDE DEF ns, ms
    <3>3. Good(flywheel, [ns EXCEPT ![vB] = accrueInterest(ns[vB], rate, currentBlock)],
               received, currentBlock, allMarkets, promised, Before)
      BY <2>1, AccruedGood
    <3> QED BY <2>2, <3>1, <3>2, <3>3
  <2> QED BY <2>3, <2>4
<1> HIDE DEF ms
<1>6. Sound(ms[vB]) /\ Timely(ms[vB], currentBlock)
  BY <1>5 DEF Good, MarketsOK
<1>7. /\ Sound(rB) /\ Timely(rB, currentBlock) /\ rB \in Market /\ SameSupply(ms[vB], rB)
      /\ rB.borrowIndex = ms[vB].borrowIndex
      /\ \A a \in Accounts \ {borrower} :
           rB.principal[a] = ms[vB].principal[a] /\ rB.interestIndex[a] = ms[vB].interestIndex[a]
  BY <1>3, <1>4, <1>6, RepayKeeps
<1>8. {borrower} \in SUBSET Accounts /\ {borrower, liquidator} \in SUBSET Accounts
  OBVIOUS
<1>9. Good(g, repaid, received, currentBlock, allMarkets, promised, Before)
  <2> HIDE DEF rB
  <2> QED BY <1>4, <1>5, <1>7, <1>8, DebtCall
<1> HIDE DEF repaid, g
<1>10. Sound(repaid[vC]) /\ Timely(repaid[vC], currentBlock)
  BY <1>9 DEF Good, MarketsOK
<1>11. /\ Sound(rC) /\ Timely(rC, currentBlock) /\ rC \in Market /\ SameDebts(repaid[vC], rC)
       /\ \A a \in Accounts \ {borrower, liquidator} :
            rC.accountTokens[a] = repaid[vC].accountTokens[a]
  BY <1>3, <1>4, <1>10, MoveKeeps
<1> HIDE DEF rC
<1>12. Good(XVS!supplyHook(g, vC, repaid[vC], {borrower, liquidator}),
            [repaid EXCEPT ![vC] = rC], received, currentBlock, allMarkets, promised, Before)
  BY <1>4, <1>8, <1>9, <1>11, SupplyCall
<1> QED BY <1>2, <1>3, <1>12, CallDone

\* Paying what has accrued, and everything else that leaves the indices alone.
LEMMA PayGood ==
  ASSUME XVS!FlywheelAssumption, NEW f, NEW listed, NEW rec, NEW p, NEW was, NEW ms, NEW block,
         Good(f, ms, rec, block, listed, p, was),
         NEW g, g \in XVS!Flywheel, g.state = f.state, g.speed = f.speed,
         g.accountIndex = f.accountIndex, NEW rec1, rec1 \in [Accounts -> Nat],
         \A a \in Accounts : rec1[a] + g.accrued[a] = rec[a] + f.accrued[a]
  PROVE  Good(g, ms, rec1, block, listed, p, was)
<1>1. FlywheelOK(g, block, listed)
  BY DEF Good, FlywheelOK
<1>2. Quiet(g, ms) <=> Quiet(f, ms)
  BY DEF Quiet
<1>3. \A k \in Keys, a \in Accounts : delta(g, k, a) = delta(f, k, a)
  BY DEF delta
<1>4. Unpaid(g, ms) = Unpaid(f, ms)
  BY <1>3 DEF Unpaid
<1>5. Coming(g, block) = Coming(f, block)
  BY DEF Coming
<1>6. Total(rec1) + Total(g.accrued) = Total(rec) + Total(f.accrued)
  <2>1. /\ f.accrued \in [Accounts -> Nat] /\ g.accrued \in [Accounts -> Nat]
        /\ rec \in [Accounts -> Nat]
    BY DEF Good, FlywheelOK, XVS!Flywheel
  <2>2. IsFiniteSet(Accounts)
    BY FlywheelConstants
  <2>3. \A x, y \in [Accounts -> Nat] :
          Total([a \in Accounts |-> x[a] + y[a]]) = Total(x) + Total(y)
    BY <2>2, TotalSum
  <2>4. [a \in Accounts |-> rec1[a] + g.accrued[a]] = [a \in Accounts |-> rec[a] + f.accrued[a]]
    OBVIOUS
  <2>5. Total([a \in Accounts |-> rec1[a] + g.accrued[a]]) = Total(rec1) + Total(g.accrued)
    BY <2>1, <2>3
  <2>6. Total([a \in Accounts |-> rec[a] + f.accrued[a]]) = Total(rec) + Total(f.accrued)
    BY <2>1, <2>3
  <2> QED BY <2>4, <2>5, <2>6
<1>7. Ledger(f, ms, rec, block, p) => Ledger(g, ms, rec1, block, p)
  BY <1>4, <1>5, <1>6 DEF Ledger
<1>8. EarnedBy(g, ms, rec1, block) = EarnedBy(f, ms, rec, block)
  <2>1. \A k \in Keys, a \in Accounts : pending(g, k, ms, block, a) = pending(f, k, ms, block, a)
    BY DEF pending, movedIndex
  <2> QED BY <2>1, SameEarned
<1>9. Kept(g, ms, rec1, block, was)
  BY <1>8 DEF Good, Kept
<1> QED BY <1>1, <1>2, <1>7, <1>9 DEF Good

LEMMA UnlistFly ==
  ASSUME FlyInv, NEW v, XVS!UnlistMarket(v)
  PROVE  FlyStep
<1>1. Good(flywheel, markets, received, currentBlock, allMarkets, promised, Before)
  BY DEF FlyInv
<1>2. /\ isListed' \subseteq allMarkets
      /\ UNCHANGED <<markets, flywheel, allMarkets, received, promised, currentBlock>>
  BY DEF FlyInv, XVS!UnlistMarket
<1> QED BY <1>1, <1>2, StepDone

LEMMA FundFly ==
  ASSUME XVS!FlywheelAssumption, FlyInv, NEW amount \in Nat,
         XVS!Fund(amount) \/ XVS!GrantXVS(amount)
  PROVE  FlyStep
<1>1. flywheel \in XVS!Flywheel /\ received \in [Accounts -> Nat]
      /\ Good(flywheel, markets, received, currentBlock, allMarkets, promised, Before)
  BY DEF FlyInv, Good, FlywheelOK
<1>2. PICK x \in Nat : flywheel' = [flywheel EXCEPT !.xvs = x]
  <2>0. flywheel.xvs \in Nat
    BY <1>1 DEF XVS!Flywheel
  <2>1. CASE XVS!Fund(amount)
    <3>1. flywheel' = [flywheel EXCEPT !.xvs = flywheel.xvs + amount]
      BY <1>1, <2>1 DEF XVS!Fund, XVS!Flywheel
    <3>2. flywheel.xvs + amount \in Nat
      BY <2>0
    <3> QED BY <3>1, <3>2
  <2>2. CASE XVS!GrantXVS(amount)
    <3>1. flywheel' = [flywheel EXCEPT !.xvs = flywheel.xvs - amount] /\ amount <= flywheel.xvs
      BY <1>1, <2>2 DEF XVS!GrantXVS, XVS!Flywheel
    <3>2. flywheel.xvs - amount \in Nat
      BY <2>0, <3>1
    <3> QED BY <3>1, <3>2
  <2> QED BY <2>1, <2>2
<1>3. markets' = markets /\ Unmoved
  BY DEF XVS!Fund, XVS!GrantXVS, Unmoved
<1>4. /\ flywheel' \in XVS!Flywheel /\ flywheel'.state = flywheel.state
      /\ flywheel'.speed = flywheel.speed /\ flywheel'.accountIndex = flywheel.accountIndex
      /\ flywheel'.accrued = flywheel.accrued
  BY <1>1, <1>2 DEF XVS!Flywheel
<1> DEFINE g == flywheel'
<1>6. Good(g, markets, received, currentBlock, allMarkets, promised, Before)
  <2>1. /\ g \in XVS!Flywheel /\ g.state = flywheel.state /\ g.speed = flywheel.speed
        /\ g.accountIndex = flywheel.accountIndex
        /\ \A a \in Accounts : received[a] + g.accrued[a] = received[a] + flywheel.accrued[a]
    BY <1>4
  <2> HIDE DEF g
  <2> QED BY <1>1, <2>1, PayGood
<1> QED BY <1>3, <1>6, CallDone

\* One index or one speed is set.
StateSet(e, r, side, v, x) ==
  /\ r \in XVS!Flywheel /\ r.speed = e.speed
  /\ r.accountIndex = e.accountIndex /\ r.accrued = e.accrued
  /\ \A s \in XVS!Sides, w \in VTokens :
       r.state[s][w] = IF s = side /\ w = v THEN x ELSE e.state[s][w]
SpeedSet(e, r, side, v, x) ==
  /\ r \in XVS!Flywheel /\ r.state = e.state
  /\ r.accountIndex = e.accountIndex /\ r.accrued = e.accrued
  /\ \A s \in XVS!Sides, w \in VTokens :
       r.speed[s][w] = IF s = side /\ w = v THEN x ELSE e.speed[s][w]

LEMMA SetState ==
  ASSUME NEW e \in XVS!Flywheel, NEW side \in XVS!Sides, NEW v \in VTokens, NEW x \in XVS!State
  PROVE  StateSet(e, [e EXCEPT !.state[side][v] = x], side, v, x)
<1>1. e.state \in [XVS!Sides -> [VTokens -> XVS!State]]
  BY DEF XVS!Flywheel
<1> DEFINE st == [e.state EXCEPT ![side][v] = x]
           r == [e EXCEPT !.state = st]
<1>2. /\ st \in [XVS!Sides -> [VTokens -> XVS!State]]
      /\ \A s \in XVS!Sides, w \in VTokens :
           st[s][w] = IF s = side /\ w = v THEN x ELSE e.state[s][w]
  BY <1>1
<1>3. [e EXCEPT !.state[side][v] = x] = r
  OBVIOUS
<1> HIDE DEF st
<1>4. /\ r \in XVS!Flywheel /\ r.speed = e.speed /\ r.state = st
      /\ r.accountIndex = e.accountIndex /\ r.accrued = e.accrued
  BY <1>2 DEF XVS!Flywheel
<1> HIDE DEF r
<1>5. StateSet(e, r, side, v, x)
  BY <1>2, <1>4 DEF StateSet
<1> QED BY <1>3, <1>5, Zenon

LEMMA SetSpeed ==
  ASSUME NEW e \in XVS!Flywheel, NEW side \in XVS!Sides, NEW v \in VTokens, NEW x \in Nat
  PROVE  SpeedSet(e, [e EXCEPT !.speed[side][v] = x], side, v, x)
<1>1. e.speed \in [XVS!Sides -> [VTokens -> Nat]]
  BY DEF XVS!Flywheel
<1> DEFINE sp == [e.speed EXCEPT ![side][v] = x]
           r == [e EXCEPT !.speed = sp]
<1>2. /\ sp \in [XVS!Sides -> [VTokens -> Nat]]
      /\ \A s \in XVS!Sides, w \in VTokens :
           sp[s][w] = IF s = side /\ w = v THEN x ELSE e.speed[s][w]
  BY <1>1
<1>3. [e EXCEPT !.speed[side][v] = x] = r
  OBVIOUS
<1> HIDE DEF sp
<1>4. /\ r \in XVS!Flywheel /\ r.state = e.state /\ r.speed = sp
      /\ r.accountIndex = e.accountIndex /\ r.accrued = e.accrued
  BY <1>2 DEF XVS!Flywheel
<1> HIDE DEF r
<1>5. SpeedSet(e, r, side, v, x)
  BY <1>2, <1>4 DEF SpeedSet
<1> QED BY <1>3, <1>5, Zenon

LEMMA NothingPending ==
  ASSUME XVS!FlywheelAssumption, NEW f, NEW ms, NEW block, NEW k, NEW a,
         weight(ms, k, a) \in Nat,
         XVS!deltaIndex(movedIndex(f, k, ms, block), f.accountIndex[k[1]][k[2]][a]) = 0
  PROVE  pending(f, k, ms, block, a) = 0
<1> DEFINE w == weight(ms, k, a)
<1>1. pending(f, k, ms, block, a) = (w * 0) \div doubleScale
  BY DEF pending
<1> HIDE DEF w
<1>2. w \in Nat /\ doubleScale \in Nat \ {0}
  BY FlywheelConstants DEF w
<1> QED BY <1>1, <1>2

\* A market that is listed starts at the first index, with nobody owed anything.
LEMMA SupportFly ==
  ASSUME XVS!FlywheelAssumption, FlyInv, NEW v \in VTokens, XVS!SupportMarket(v)
  PROVE  FlyStep
<1> DEFINE f == flywheel
           g == flywheel'
           listed == allMarkets \cup {v}
           first == [index |-> doubleScale, block |-> currentBlock]
<1>1. /\ Good(f, markets, received, currentBlock, allMarkets, promised, Before)
      /\ FlywheelOK(f, currentBlock, allMarkets) /\ MarketsOK(markets, currentBlock)
      /\ f \in XVS!Flywheel /\ v \notin allMarkets /\ allMarkets \subseteq VTokens
      /\ currentBlock \in Nat /\ doubleScale \in Nat \ {0}
      /\ received \in [Accounts -> Nat] /\ promised \in Nat
  BY FlywheelConstants DEF FlyInv, Good, FlywheelOK, XVS!SupportMarket
<1>2. \A side \in XVS!Sides :
        /\ f.state[side][v].index = 0 /\ f.speed[side][v] = 0
        /\ \A a \in Accounts : f.accountIndex[side][v][a] = 0
  <2> SUFFICES ASSUME NEW side \in XVS!Sides
               PROVE  /\ f.state[side][v].index = 0 /\ f.speed[side][v] = 0
                      /\ \A a \in Accounts : f.accountIndex[side][v][a] = 0
    OBVIOUS
  <2>1. f.state[side][v].index = 0 /\ f.speed[side][v] = 0
    BY <1>1 DEF FlywheelOK
  <2>2. \A a \in Accounts : \/ f.accountIndex[side][v][a] = 0
                            \/ f.accountIndex[side][v][a] \in doubleScale .. 0
    BY <1>1, <2>1 DEF FlywheelOK
  <2>3. doubleScale .. 0 = {}
    BY <1>1
  <2> QED BY <2>1, <2>2, <2>3
<1>3. XVS!Sides = {"supply", "borrow"}
  BY FlywheelConstants
<1>4. g = [f EXCEPT !.state["supply"][v] = first, !.state["borrow"][v] = first]
  <2>1. g = [f EXCEPT !.state["supply"][v] = XVS!initialized(f.state["supply"][v]),
                      !.state["borrow"][v] = XVS!initialized(f.state["borrow"][v])]
    BY <1>1, <1>3 DEF XVS!SupportMarket, XVS!Flywheel
  <2>2. /\ XVS!initialized(f.state["supply"][v]) = first
        /\ XVS!initialized(f.state["borrow"][v]) = first
    BY <1>2, <1>3 DEF XVS!initialized, XVS!venusInitialIndex
  <2> HIDE DEF first, f
  <2> QED BY <2>1, <2>2
<1>5. /\ g \in XVS!Flywheel /\ g.speed = f.speed /\ g.accountIndex = f.accountIndex
      /\ g.accrued = f.accrued
      /\ \A side \in XVS!Sides, w \in VTokens :
           g.state[side][w] = IF w = v THEN first ELSE f.state[side][w]
  <2>1. first \in XVS!State
    BY <1>1 DEF XVS!State
  <2> DEFINE h == [f EXCEPT !.state["supply"][v] = first]
  <2>2. g = [h EXCEPT !.state["borrow"][v] = first]
    BY <1>4
  <2> HIDE DEF first, f, g
  <2>3. ASSUME NEW e \in XVS!Flywheel, NEW side \in XVS!Sides
        PROVE  StateSet(e, [e EXCEPT !.state[side][v] = first], side, v, first)
    BY <2>1, SetState
  <2>4. "supply" \in XVS!Sides /\ "borrow" \in XVS!Sides
    BY <1>3
  <2>5. /\ h \in XVS!Flywheel /\ h.speed = f.speed
        /\ h.accountIndex = f.accountIndex /\ h.accrued = f.accrued
        /\ \A s \in XVS!Sides, w \in VTokens :
             h.state[s][w] = IF s = "supply" /\ w = v THEN first ELSE f.state[s][w]
    BY <1>1, <2>3, <2>4 DEF StateSet
  <2> HIDE DEF h
  <2>6. /\ g \in XVS!Flywheel /\ g.speed = h.speed
        /\ g.accountIndex = h.accountIndex /\ g.accrued = h.accrued
        /\ \A s \in XVS!Sides, w \in VTokens :
             g.state[s][w] = IF s = "borrow" /\ w = v THEN first ELSE h.state[s][w]
    <3>1. h \in XVS!Flywheel
      BY <2>5
    <3>2. StateSet(h, [h EXCEPT !.state["borrow"][v] = first], "borrow", v, first)
      BY <2>3, <2>4, <3>1
    <3>3. StateSet(h, g, "borrow", v, first)
      BY <2>2, <3>2
    <3> QED BY <3>3 DEF StateSet
  <2> QED BY <1>3, <2>5, <2>6
<1> HIDE DEF f, g
<1>6. first.index = doubleScale /\ first.block = currentBlock
  OBVIOUS
<1> HIDE DEF first
<1>7. ASSUME NEW side \in XVS!Sides, NEW w \in VTokens
      PROVE  /\ g.state[side][w].block <= currentBlock
             /\ w \in listed => g.state[side][w].index >= doubleScale
             /\ w \notin listed => g.state[side][w].index = 0 /\ g.speed[side][w] = 0
             /\ \A a \in Accounts :
                  \/ g.accountIndex[side][w][a] = 0
                  \/ g.accountIndex[side][w][a] \in doubleScale .. g.state[side][w].index
  <2>1. CASE w = v
    <3>1. g.state[side][w].index = doubleScale /\ g.state[side][w].block = currentBlock
      BY <1>5, <1>6, <2>1
    <3>2. \A a \in Accounts : g.accountIndex[side][w][a] = 0
      BY <1>2, <1>5, <2>1
    <3> QED BY <1>1, <2>1, <3>1, <3>2
  <2>2. CASE w # v
    <3>1. g.state[side][w] = f.state[side][w] /\ (w \in listed <=> w \in allMarkets)
      BY <1>5, <2>2
    <3> QED BY <1>1, <1>5, <3>1 DEF FlywheelOK
  <2> QED BY <2>1, <2>2
<1>8. FlywheelOK(g, currentBlock, listed)
  BY <1>5, <1>7 DEF FlywheelOK
<1>9. Quiet(g, markets) => Quiet(f, markets)
  <2> SUFFICES ASSUME Quiet(g, markets), NEW w \in VTokens
               PROVE  \/ markets[w].borrowIndex = expScale
                      \/ f.state["borrow"][w].index <= doubleScale
    BY DEF Quiet
  <2>1. CASE w = v
    BY <1>1, <1>2, <1>3, <2>1
  <2>2. CASE w # v
    BY <1>3, <1>5, <2>2 DEF Quiet
  <2> QED BY <2>1, <2>2
<1>10. ASSUME NEW k \in Keys, NEW a \in Accounts PROVE delta(g, k, a) = delta(f, k, a)
  <2>1. k[1] \in XVS!Sides /\ k[2] \in VTokens
    BY KeyParts
  <2>2. CASE k[2] # v
    BY <1>5, <2>1, <2>2 DEF delta
  <2>3. CASE k[2] = v
    <3>1. /\ g.state[k[1]][k[2]].index = doubleScale /\ g.accountIndex[k[1]][k[2]][a] = 0
          /\ f.state[k[1]][k[2]].index = 0 /\ f.accountIndex[k[1]][k[2]][a] = 0
      BY <1>2, <1>5, <1>6, <2>1, <2>3
    <3>2. XVS!deltaIndex(doubleScale, 0) = 0 /\ XVS!deltaIndex(0, 0) = 0
      <4>1. 0 \in Nat /\ doubleScale \in Nat
        BY <1>1
      <4> QED BY <1>1, <4>1, DeltaFacts
    <3> QED BY <3>1, <3>2 DEF delta
  <2> QED BY <2>2, <2>3
<1>11. Unpaid(g, markets) = Unpaid(f, markets)
  BY <1>10 DEF Unpaid
<1>12. Coming(g, currentBlock) = Coming(f, currentBlock)
  <2> DEFINE came(h, k) == h.speed[k[1]][k[2]] * (currentBlock - h.state[k[1]][k[2]].block)
                             * doubleScale
  <2>1. ASSUME NEW k \in Keys PROVE came(g, k) = came(f, k)
    <3>1. k[1] \in XVS!Sides /\ k[2] \in VTokens
      BY KeyParts
    <3>2. CASE k[2] # v
      BY <1>5, <3>1, <3>2
    <3>3. CASE k[2] = v
      <4>1. g.speed[k[1]][k[2]] = 0 /\ f.speed[k[1]][k[2]] = 0
        BY <1>2, <1>5, <3>1, <3>3
      <4>2. g.state[k[1]][k[2]].block \in Nat /\ f.state[k[1]][k[2]].block \in Nat
        <5>1. g.state[k[1]][k[2]] \in XVS!State /\ f.state[k[1]][k[2]] \in XVS!State
          BY <1>1, <1>5, <3>1 DEF XVS!Flywheel
        <5> QED BY <5>1 DEF XVS!State
      <4>3. \A n \in Int : 0 * n * doubleScale = 0
        BY <1>1
      <4>4. /\ currentBlock - g.state[k[1]][k[2]].block \in Int
            /\ currentBlock - f.state[k[1]][k[2]].block \in Int
        <5>1. currentBlock \in Nat
          BY <1>1
        <5>2. \A n \in Nat : currentBlock - n \in Int
          BY <5>1
        <5> QED BY <4>2, <5>2
      <4> QED BY <4>1, <4>3, <4>4
    <3> QED BY <3>2, <3>3
  <2>2. Coming(g, currentBlock) = [k \in Keys |-> came(g, k)]
    BY DEF Coming
  <2>3. Coming(f, currentBlock) = [k \in Keys |-> came(f, k)]
    BY DEF Coming
  <2> HIDE DEF came
  <2> QED BY <2>1, <2>2, <2>3
<1>13. Ledger(f, markets, received, currentBlock, promised)
         => Ledger(g, markets, received, currentBlock, promised)
  BY <1>5, <1>11, <1>12 DEF Ledger
<1>14. ASSUME NEW k \in Keys, NEW a \in Accounts
       PROVE  pending(g, k, markets, currentBlock, a) = pending(f, k, markets, currentBlock, a)
  <2>1. k[1] \in XVS!Sides /\ k[2] \in VTokens /\ Sound(markets[k[2]])
    BY <1>1, KeyParts DEF MarketsOK
  <2>2. CASE k[2] # v
    BY <1>5, <2>1, <2>2 DEF pending, movedIndex
  <2>3. CASE k[2] = v
    <3>1. /\ movedIndex(g, k, markets, currentBlock) = doubleScale
          /\ g.accountIndex[k[1]][k[2]][a] = 0
      BY <1>2, <1>5, <1>6, <2>1, <2>3 DEF movedIndex
    <3>2. /\ movedIndex(f, k, markets, currentBlock) = 0
          /\ f.accountIndex[k[1]][k[2]][a] = 0
      BY <1>2, <2>1, <2>3 DEF movedIndex
    <3>3. XVS!deltaIndex(doubleScale, 0) = 0 /\ XVS!deltaIndex(0, 0) = 0
      <4>1. 0 \in Nat /\ doubleScale \in Nat
        BY <1>1
      <4> QED BY <1>1, <4>1, DeltaFacts
    <3>4. weight(markets, k, a) \in Nat
      BY <1>1, <2>1, KeyFacts
    <3>5. pending(g, k, markets, currentBlock, a) = 0
      BY <3>1, <3>3, <3>4, NothingPending
    <3>6. pending(f, k, markets, currentBlock, a) = 0
      BY <3>2, <3>3, <3>4, NothingPending
    <3> QED BY <3>5, <3>6
  <2> QED BY <2>2, <2>3
<1>15. EarnedBy(g, markets, received, currentBlock) = EarnedBy(f, markets, received, currentBlock)
  BY <1>5, <1>14, SameEarned
<1>16. Good(g, markets, received, currentBlock, listed, promised, Before)
  BY <1>1, <1>8, <1>9, <1>13, <1>15 DEF Good, Kept
<1>17. /\ isListed' = isListed \cup {v} /\ allMarkets' = listed
       /\ markets' = markets /\ received' = received /\ promised' = promised
       /\ currentBlock' = currentBlock
  BY DEF XVS!SupportMarket
<1>18. isListed \cup {v} \subseteq listed
  BY DEF FlyInv
<1> QED BY <1>16, <1>17, <1>18, StepDone DEF g

\* A new speed holds from this block on.
LEMMA SpeedGood ==
  ASSUME XVS!FlywheelAssumption, NEW f, NEW listed, NEW rec, NEW p, NEW was,
         Good(f, markets, rec, currentBlock, listed, p, was),
         NEW side \in XVS!Sides, NEW v \in listed, NEW speed \in Nat
  PROVE  Good(XVS!withSpeed(f, side, v, speed), markets, rec, currentBlock, listed, p, was)
<1>1. /\ FlywheelOK(f, currentBlock, listed) /\ MarketsOK(markets, currentBlock)
      /\ currentBlock \in Nat /\ listed \subseteq VTokens /\ f \in XVS!Flywheel
      /\ v \in VTokens /\ Sound(markets[v])
  BY DEF Good, FlywheelOK, MarketsOK
<1>2. CASE speed = f.speed[side][v]
  BY <1>2 DEF XVS!withSpeed
<1>3. CASE speed # f.speed[side][v]
  <2> DEFINE u == XVS!updateIndex(f, side, v, markets[v])
             h == [f EXCEPT !.state[side][v] = u]
             g == [h EXCEPT !.speed[side][v] = speed]
             T == {<<side, v>>}
  <2>1. XVS!withSpeed(f, side, v, speed) = g
    BY <1>3 DEF XVS!withSpeed
  <2>2. u \in XVS!State /\ u.index = movedIndex(f, <<side, v>>, markets, currentBlock)
        /\ u.block = currentBlock
    BY <1>1, UpdateFields
  <2> HIDE DEF u
  <2>3. StateSet(f, h, side, v, u)
    BY <1>1, <2>2, SetState
  <2>4. h \in XVS!Flywheel
    BY <2>3 DEF StateSet
  <2> HIDE DEF h
  <2>5. SpeedSet(h, g, side, v, speed)
    BY <1>1, <2>4, SetSpeed
  <2> HIDE DEF g
  <2>6. T \in SUBSET Keys /\ (\A k \in T : k[2] \in listed)
    BY <1>1 DEF Keys
  <2>7. Moved(f, h, markets, T, {})
    <3>1. ASSUME NEW k \in Keys
          PROVE  IF k \in T
                   THEN /\ h.state[k[1]][k[2]].index = movedIndex(f, k, markets, currentBlock)
                        /\ h.state[k[1]][k[2]].block = currentBlock
                   ELSE h.state[k[1]][k[2]] = f.state[k[1]][k[2]]
      <4>1. k[1] \in XVS!Sides /\ k[2] \in VTokens /\ k = <<k[1], k[2]>>
        BY KeyParts
      <4>2. CASE k \in T
        BY <2>2, <2>3, <4>1, <4>2 DEF StateSet
      <4>3. CASE k \notin T
        <5>1. ~(k[1] = side /\ k[2] = v)
          BY <4>1, <4>3
        <5> QED BY <2>3, <4>1, <4>3, <5>1 DEF StateSet
      <4> QED BY <4>2, <4>3
    <3>2. h.accountIndex = f.accountIndex /\ h.accrued = f.accrued /\ h.speed = f.speed
      BY <2>3 DEF StateSet
    <3>3. ASSUME NEW a \in Accounts
          PROVE  h.accrued[a] = f.accrued[a]
                   + Total([k \in Keys |-> paidOut(f, markets, T, {})[<<a, k>>]])
      <4> DEFINE row == [k \in Keys |-> paidOut(f, markets, T, {})[<<a, k>>]]
      <4>0. \A k \in Keys : paidOut(f, markets, T, {})[<<a, k>>] = 0
        BY DEF paidOut
      <4>1. \A k \in Keys : row[k] = 0
        BY <4>0
      <4>2. row \in [Keys -> Nat]
        <5>1. row = [k \in Keys |-> 0]
          BY <4>0
        <5> HIDE DEF row
        <5> QED BY <5>1
      <4> HIDE DEF row
      <4>3. Total(row) = 0
        BY <4>1, <4>2, TotalZero
      <4>4. f.accrued[a] \in Nat
        BY <1>1 DEF XVS!Flywheel
      <4> QED BY <3>2, <4>3, <4>4 DEF row
    <3> HIDE DEF T
    <3> QED BY <2>4, <3>1, <3>2, <3>3 DEF Moved
  <2>8. Good(h, markets, rec, currentBlock, listed, p, was)
    <3> HIDE DEF T
    <3>1. {} \in SUBSET Accounts
      OBVIOUS
    <3> QED BY <2>6, <2>7, <3>1, MovedGood
  <2>9. FlywheelOK(h, currentBlock, listed)
    BY <2>8 DEF Good
  <2>10. FlywheelOK(g, currentBlock, listed)
    <3>1. ASSUME NEW s \in XVS!Sides, NEW w \in VTokens
          PROVE  /\ g.state[s][w] = h.state[s][w] /\ g.accountIndex[s][w] = h.accountIndex[s][w]
                 /\ w \notin listed => g.speed[s][w] = h.speed[s][w]
      BY <2>5 DEF SpeedSet
    <3>2. g \in XVS!Flywheel
      BY <2>5 DEF SpeedSet
    <3> QED BY <2>9, <3>1, <3>2 DEF FlywheelOK
  <2>11. Quiet(g, markets) => Quiet(h, markets)
    BY <2>5 DEF Quiet, SpeedSet
  <2>12. Unpaid(g, markets) = Unpaid(h, markets)
    <3>1. \A k \in Keys, a \in Accounts : delta(g, k, a) = delta(h, k, a)
      BY <2>5 DEF delta, SpeedSet
    <3> QED BY <3>1 DEF Unpaid
  <2>13. Coming(g, currentBlock) = Coming(h, currentBlock)
    <3> DEFINE came(e, k) == e.speed[k[1]][k[2]] * (currentBlock - e.state[k[1]][k[2]].block)
                               * doubleScale
    <3>1. ASSUME NEW k \in Keys PROVE came(g, k) = came(h, k)
      <4>1. k[1] \in XVS!Sides /\ k[2] \in VTokens /\ g.state = h.state
        BY <2>5, KeyParts DEF SpeedSet
      <4>2. CASE k[1] = side /\ k[2] = v
        <5>1. h.state[k[1]][k[2]].block = currentBlock
          BY <2>2, <2>3, <4>1, <4>2 DEF StateSet
        <5>2. g.speed[k[1]][k[2]] \in Nat /\ h.speed[k[1]][k[2]] \in Nat
          <6>1. g \in XVS!Flywheel
            BY <2>5 DEF SpeedSet
          <6>2. \A e \in XVS!Flywheel : e.speed[k[1]][k[2]] \in Nat
            BY <4>1 DEF XVS!Flywheel
          <6> QED BY <2>4, <6>1, <6>2
        <5>3. \A n \in Nat : n * (currentBlock - currentBlock) * doubleScale = 0
          BY <1>1, FlywheelConstants
        <5> QED BY <4>1, <5>1, <5>2, <5>3
      <4>3. CASE ~(k[1] = side /\ k[2] = v)
        BY <2>5, <4>1, <4>3 DEF SpeedSet
      <4> QED BY <4>2, <4>3
    <3>2. Coming(g, currentBlock) = [k \in Keys |-> came(g, k)]
      BY DEF Coming
    <3>3. Coming(h, currentBlock) = [k \in Keys |-> came(h, k)]
      BY DEF Coming
    <3> HIDE DEF came
    <3> QED BY <3>1, <3>2, <3>3
  <2>14. Ledger(h, markets, rec, currentBlock, p) => Ledger(g, markets, rec, currentBlock, p)
    <3>1. g.accrued = h.accrued
      BY <2>5 DEF SpeedSet
    <3> QED BY <2>12, <2>13, <3>1 DEF Ledger
  <2>15. EarnedBy(g, markets, rec, currentBlock) = EarnedBy(h, markets, rec, currentBlock)
    <3>1. ASSUME NEW k \in Keys
          PROVE  movedIndex(g, k, markets, currentBlock) = movedIndex(h, k, markets, currentBlock)
      <4>1. k[1] \in XVS!Sides /\ k[2] \in VTokens /\ g.state = h.state
        BY <2>5, KeyParts DEF SpeedSet
      <4>2. CASE k[1] = side /\ k[2] = v
        <5>1. h.state[k[1]][k[2]].block = currentBlock
          BY <2>2, <2>3, <4>1, <4>2 DEF StateSet
        <5> QED BY <4>1, <5>1 DEF movedIndex
      <4>3. CASE ~(k[1] = side /\ k[2] = v)
        <5>1. g.speed[k[1]][k[2]] = h.speed[k[1]][k[2]]
          BY <2>5, <4>1, <4>3 DEF SpeedSet
        <5> QED BY <4>1, <5>1 DEF movedIndex
      <4> QED BY <4>2, <4>3
    <3>2. g.accountIndex = h.accountIndex /\ g.accrued = h.accrued
      BY <2>5 DEF SpeedSet
    <3>3. \A k \in Keys, a \in Accounts :
            pending(g, k, markets, currentBlock, a) = pending(h, k, markets, currentBlock, a)
      BY <3>1, <3>2 DEF pending
    <3>4. \A a \in Accounts : rec[a] + g.accrued[a] = rec[a] + h.accrued[a]
      BY <3>2
    <3> QED BY <3>3, <3>4, SameEarned
  <2>16. Good(g, markets, rec, currentBlock, listed, p, was)
    BY <2>8, <2>10, <2>11, <2>14, <2>15 DEF Good, Kept
  <2> QED BY <2>1, <2>16
<1> QED BY <1>2, <1>3

LEMMA SetVenusSpeedFly ==
  ASSUME XVS!FlywheelAssumption, FlyInv, NEW v \in VTokens,
         NEW supplySpeed \in Nat, NEW borrowSpeed \in Nat,
         XVS!SetVenusSpeed(v, supplySpeed, borrowSpeed)
  PROVE  FlyStep
<1> DEFINE h == XVS!withSpeed(flywheel, "supply", v, supplySpeed)
           g == XVS!withSpeed(h, "borrow", v, borrowSpeed)
<1>1. /\ v \in allMarkets /\ flywheel' = g /\ Unmoved /\ markets' = markets
      /\ Good(flywheel, markets, received, currentBlock, allMarkets, promised, Before)
  BY DEF XVS!SetVenusSpeed, FlyInv, Unmoved
<1>2. "supply" \in XVS!Sides /\ "borrow" \in XVS!Sides
  BY FlywheelConstants
<1>3. Good(h, markets, received, currentBlock, allMarkets, promised, Before)
  BY <1>1, <1>2, SpeedGood
<1> HIDE DEF h
<1>4. Good(g, markets, received, currentBlock, allMarkets, promised, Before)
  BY <1>1, <1>2, <1>3, SpeedGood
<1> HIDE DEF g
<1> QED BY <1>1, <1>4, CallDone

\* A block brings what the speeds release in it.
LEMMA BlockGood ==
  ASSUME XVS!FlywheelAssumption, NEW f, NEW listed, NEW rec, NEW p, NEW was, NEW ms, NEW block,
         Good(f, ms, rec, block, listed, p, was)
  PROVE  Good(f, ms, rec, block + 1, listed,
              p + Total([k \in Keys |-> f.speed[k[1]][k[2]]]), Snapshot(f, ms, rec, block + 1))
<1> DEFINE speeds == [k \in Keys |-> f.speed[k[1]][k[2]]]
           gained == [k \in Keys |-> doubleScale * speeds[k]]
           before == Coming(f, block)
           now == Coming(f, block + 1)
<1>1. /\ FlywheelOK(f, block, listed) /\ MarketsOK(ms, block) /\ f \in XVS!Flywheel
      /\ rec \in [Accounts -> Nat] /\ block \in Nat /\ listed \subseteq VTokens /\ p \in Nat
      /\ block + 1 \in Nat /\ doubleScale \in Nat /\ IsFiniteSet(Keys) /\ IsFiniteSet(Accounts)
  BY FlywheelConstants DEF Good, FlywheelOK
<1>2. FlywheelOK(f, block + 1, listed)
  <2>1. \A side \in XVS!Sides, v \in VTokens : f.state[side][v] \in XVS!State
    BY <1>1 DEF XVS!Flywheel
  <2>2. \A side \in XVS!Sides, v \in VTokens :
          f.state[side][v].block \in Nat /\ f.state[side][v].block <= block
    BY <1>1, <2>1 DEF XVS!State, FlywheelOK
  <2>3. \A side \in XVS!Sides, v \in VTokens : f.state[side][v].block <= block + 1
    BY <1>1, <2>2
  <2> QED BY <1>1, <2>3 DEF FlywheelOK
<1>3. MarketsOK(ms, block + 1)
  <2>1. ASSUME NEW v \in VTokens PROVE Sound(ms[v]) /\ Timely(ms[v], block + 1)
    <3>1. Sound(ms[v]) /\ Timely(ms[v], block) /\ ms[v] \in Market
      BY <1>1 DEF MarketsOK
    <3>2. ms[v].accrualBlockNumber \in Nat
      BY <3>1 DEF Market
    <3>3. ms[v].accrualBlockNumber <= block + 1
      BY <1>1, <3>1, <3>2 DEF Timely
    <3> QED BY <3>1, <3>3 DEF Timely
  <2> QED BY <1>1, <2>1 DEF MarketsOK
<1>4. speeds \in [Keys -> Nat]
  <2>1. \A k \in Keys : f.speed[k[1]][k[2]] \in Nat
    BY <1>1, KeyParts DEF XVS!Flywheel
  <2> QED BY <2>1
<1>5. /\ before \in [Keys -> Nat] /\ now \in [Keys -> Nat] /\ Total(before) \in Nat
      /\ Total(Unpaid(f, ms)) \in Nat /\ Total(f.accrued) \in Nat
  BY <1>1, <1>2, <1>3, LedgerTypes
<1>6. \A k \in Keys : speeds[k] = f.speed[k[1]][k[2]]
  OBVIOUS
<1> HIDE DEF speeds
<1>7. gained \in [Keys -> Nat] /\ Total(gained) = doubleScale * Total(speeds)
      /\ Total(speeds) \in Nat
  <2>1. \A k \in Keys : doubleScale * speeds[k] \in Nat
    BY <1>1, <1>4
  <2>2. Total(gained) = doubleScale * Total(speeds)
    BY <1>1, <1>4, TotalTimes
  <2>3. Total(speeds) \in Nat
    BY <1>1, <1>4, TotalBounds
  <2> QED BY <2>1, <2>2, <2>3
<1>8. now = [k \in Keys |-> before[k] + gained[k]]
  <2>1. ASSUME NEW k \in Keys
        PROVE  f.speed[k[1]][k[2]] * ((block + 1) - f.state[k[1]][k[2]].block) * doubleScale
                 = before[k] + gained[k]
    <3> DEFINE sp == f.speed[k[1]][k[2]]
               b == f.state[k[1]][k[2]].block
    <3>1. before[k] = sp * (block - b) * doubleScale
      BY DEF Coming
    <3>2. gained[k] = doubleScale * sp
      BY <1>6
    <3>3. sp \in Nat /\ b \in Nat
      <4>1. sp \in Nat
        BY <1>4, <1>6
      <4>2. f.state[k[1]][k[2]] \in XVS!State
        BY <1>1, KeyParts DEF XVS!Flywheel
      <4> QED BY <4>1, <4>2 DEF XVS!State
    <3> HIDE DEF sp, b
    <3> DEFINE n == block - b
    <3>4. n \in Int /\ (block + 1) - b = n + 1
      BY <1>1, <3>3
    <3> HIDE DEF n, before, gained
    <3>5. sp * (n + 1) * doubleScale = sp * n * doubleScale + doubleScale * sp
      BY <1>1, <3>3, <3>4
    <3>6. before[k] = sp * n * doubleScale
      BY <3>1 DEF n
    <3>7. sp * ((block + 1) - b) * doubleScale = before[k] + gained[k]
      BY <3>2, <3>4, <3>5, <3>6
    <3> QED BY <3>7 DEF sp, b
  <2> DEFINE later(k) == f.speed[k[1]][k[2]] * ((block + 1) - f.state[k[1]][k[2]].block)
                           * doubleScale
  <2>2. now = [k \in Keys |-> later(k)]
    BY DEF Coming
  <2>3. \A k \in Keys : later(k) = before[k] + gained[k]
    BY <2>1
  <2> HIDE DEF before, gained, now, later
  <2> QED BY <2>2, <2>3
<1>9. Total(now) = Total(before) + doubleScale * Total(speeds)
  <2> HIDE DEF before, gained, now
  <2>1. Total([k \in Keys |-> before[k] + gained[k]]) = Total(before) + Total(gained)
    BY <1>1, <1>5, <1>7, TotalSum
  <2> QED BY <1>7, <1>8, <2>1
<1>10. Ledger(f, ms, rec, block, p) => Ledger(f, ms, rec, block + 1, p + Total(speeds))
  <2> DEFINE paid == Total(rec) + Total(f.accrued)
             owed == Total(Unpaid(f, ms))
             t == Total(speeds)
             c == Total(before)
  <2>1. Total(rec) \in Nat
    BY <1>1, TotalBounds
  <2>2. paid \in Nat /\ owed \in Nat /\ t \in Nat /\ c \in Nat /\ p \in Nat
        /\ doubleScale \in Nat
    BY <1>1, <1>5, <1>7, <2>1
  <2>3. Ledger(f, ms, rec, block, p) <=> doubleScale * paid + owed + c <= doubleScale * p
    BY DEF Ledger
  <2>4. Ledger(f, ms, rec, block + 1, p + t)
          <=> doubleScale * paid + owed + Total(now) <= doubleScale * (p + t)
    BY DEF Ledger
  <2>5. Total(now) = c + doubleScale * t
    BY <1>9
  <2> HIDE DEF paid, owed, t, c, now
  <2>6. doubleScale * (p + t) = doubleScale * p + doubleScale * t
    BY <2>2
  <2>7. /\ doubleScale * paid \in Nat /\ doubleScale * t \in Nat /\ doubleScale * p \in Nat
    BY <2>2
  <2>8. Ledger(f, ms, rec, block, p) => Ledger(f, ms, rec, block + 1, p + t)
    <3> DEFINE dpaid == doubleScale * paid
               dt == doubleScale * t
               dp == doubleScale * p
    <3>1. dpaid \in Nat /\ dt \in Nat /\ dp \in Nat
      BY <2>7
    <3>2. dpaid + owed + c <= dp => dpaid + owed + (c + dt) <= dp + dt
      <4> HIDE DEF dpaid, dt, dp
      <4> QED BY <2>2, <3>1
    <3> QED BY <2>3, <2>4, <2>5, <2>6, <3>2
  <2> QED BY <2>8 DEF t
<1>11. p + Total(speeds) \in Nat
  BY <1>1, <1>7
<1>12. Kept(f, ms, rec, block + 1, Snapshot(f, ms, rec, block + 1))
  BY <1>3, SnapshotKept
<1>13. Good(f, ms, rec, block + 1, listed, p + Total(speeds), Snapshot(f, ms, rec, block + 1))
  BY <1>1, <1>2, <1>3, <1>10, <1>11, <1>12 DEF Good
<1> QED BY <1>13 DEF speeds

LEMMA NextBlockFly ==
  ASSUME XVS!FlywheelAssumption, FlyInv, XVS!NextBlock
  PROVE  FlyStep
<1> DEFINE more == Total([k \in Keys |-> flywheel.speed[k[1]][k[2]]])
<1>1. /\ currentBlock' = currentBlock + 1 /\ markets' = markets /\ flywheel' = flywheel
      /\ isListed' = isListed /\ allMarkets' = allMarkets /\ received' = received
  BY DEF XVS!NextBlock
<1>2. promised' = promised + more
  <2>1. promised' = promised + XVS!Total([s \in XVS!Sides \X VTokens |->
                                            flywheel.speed[s[1]][s[2]]])
    BY DEF XVS!NextBlock
  <2>2. \A f : XVS!Total(f) = Total(f)
    BY SameMarkets
  <2> QED BY <2>1, <2>2 DEF Keys
<1>3. Good(flywheel, markets, received, currentBlock + 1, allMarkets, promised + more,
           Snapshot(flywheel, markets, received, currentBlock + 1))
  BY BlockGood DEF FlyInv
<1> HIDE DEF more
<1>4. FlyInv'
  BY <1>1, <1>2, <1>3 DEF FlyInv, Before
<1>5. currentBlock' # currentBlock
  BY <1>1, FlyFacts
<1> QED BY <1>4, <1>5 DEF FlyStep

\* What is distributed to some accounts in some listed markets.
LEMMA DistributeGood ==
  ASSUME XVS!FlywheelAssumption, FlyInv,
         NEW sides \in SUBSET XVS!Sides, NEW vTokens \in SUBSET allMarkets,
         NEW accounts \in SUBSET Accounts
  PROVE  LET g == XVS!distribute(flywheel, markets, sides, vTokens, accounts)
         IN  /\ Good(g, markets, received, currentBlock, allMarkets, promised, Before)
             /\ Moved(flywheel, g, markets, sides \X vTokens, accounts)
<1> DEFINE g == XVS!distribute(flywheel, markets, sides, vTokens, accounts)
           T == sides \X vTokens
<1>1. /\ Good(flywheel, markets, received, currentBlock, allMarkets, promised, Before)
      /\ FlywheelOK(flywheel, currentBlock, allMarkets) /\ MarketsOK(markets, currentBlock)
      /\ currentBlock \in Nat /\ allMarkets \subseteq VTokens
  BY DEF FlyInv, Good
<1>2. \A v \in vTokens : markets[v] = markets[v]
  OBVIOUS
<1>3. Moved(flywheel, g, markets, T, accounts)
  BY <1>1, <1>2, DistributeMoves
<1>4. T \in SUBSET Keys /\ \A k \in T : k[2] \in allMarkets
  BY <1>1 DEF Keys
<1> HIDE DEF g, T
<1>5. Good(g, markets, received, currentBlock, allMarkets, promised, Before)
  BY <1>1, <1>3, <1>4, MovedGood
<1> QED BY <1>3, <1>5 DEF g, T

\* What is seized was paid to nobody before.
LEMMA SeizeVenusFly ==
  ASSUME XVS!FlywheelAssumption, FlyInv, NEW holders \in SUBSET Accounts,
         XVS!SeizeVenus(holders)
  PROVE  FlyStep
<1> DEFINE f == XVS!distribute(flywheel, markets, XVS!Sides, allMarkets, holders)
           holding == [a \in Accounts |-> IF a \in holders THEN f.accrued[a] ELSE 0]
           left == [a \in Accounts |-> f.accrued[a] - holding[a]]
           rec1 == [a \in Accounts |-> received[a] + holding[a]]
<1>1. Good(f, markets, received, currentBlock, allMarkets, promised, Before)
  <2>1. /\ XVS!Sides \in SUBSET XVS!Sides /\ allMarkets \in SUBSET allMarkets
    OBVIOUS
  <2> QED BY <2>1, DistributeGood
<1>2. /\ XVS!Total(holding) <= f.xvs
      /\ flywheel' = [f EXCEPT !.accrued = [a \in Accounts |-> @[a] - holding[a]],
                               !.xvs = @ - XVS!Total(holding)]
      /\ received' = rec1
  BY DEF XVS!SeizeVenus
<1>3. /\ markets' = markets /\ currentBlock' = currentBlock /\ promised' = promised
      /\ isListed' = isListed /\ allMarkets' = allMarkets
  BY DEF XVS!SeizeVenus
<1>4. \A a \in Accounts : holding[a] = IF a \in holders THEN f.accrued[a] ELSE 0
  OBVIOUS
<1> HIDE DEF f
<1>5. /\ f \in XVS!Flywheel /\ f.accrued \in [Accounts -> Nat]
      /\ received \in [Accounts -> Nat] /\ IsFiniteSet(Accounts) /\ f.xvs \in Nat
  <2>1. f \in XVS!Flywheel /\ received \in [Accounts -> Nat]
    BY <1>1 DEF Good, FlywheelOK
  <2> QED BY <2>1, FlywheelConstants DEF XVS!Flywheel
<1>6. holding \in [Accounts -> Nat]
  BY <1>5
<1> HIDE DEF holding
<1>7. left \in [Accounts -> Nat] /\ rec1 \in [Accounts -> Nat]
  <2>1. ASSUME NEW a \in Accounts
        PROVE  f.accrued[a] - holding[a] \in Nat /\ received[a] + holding[a] \in Nat
    <3>1. f.accrued[a] \in Nat /\ received[a] \in Nat /\ holding[a] \in Nat
      BY <1>5, <1>6
    <3>2. holding[a] = f.accrued[a] \/ holding[a] = 0
      BY <1>4
    <3> QED BY <3>1, <3>2
  <2> QED BY <2>1
<1>8. Total(holding) \in Nat
  BY <1>5, <1>6, TotalBounds
<1>9. \A a \in Accounts : rec1[a] + left[a] = received[a] + f.accrued[a]
  <2> SUFFICES ASSUME NEW a \in Accounts
               PROVE  rec1[a] + left[a] = received[a] + f.accrued[a]
    OBVIOUS
  <2>1. f.accrued[a] \in Nat /\ received[a] \in Nat /\ holding[a] \in Nat
    BY <1>5, <1>6
  <2>2. rec1[a] = received[a] + holding[a] /\ left[a] = f.accrued[a] - holding[a]
    OBVIOUS
  <2> HIDE DEF rec1, left
  <2> QED BY <2>1, <2>2
<1> DEFINE x == f.xvs - Total(holding)
           g == [f EXCEPT !.accrued = left, !.xvs = x]
<1>11. flywheel' = g /\ x \in Nat
  <2>1. XVS!Total(holding) = Total(holding)
    BY SameMarkets
  <2>2. x \in Nat
    BY <1>2, <1>5, <1>8, <2>1
  <2>3. flywheel' = g
    BY <1>2, <1>5, <2>1 DEF XVS!Flywheel
  <2> QED BY <2>2, <2>3
<1> HIDE DEF left, rec1, x
<1>12. /\ g \in XVS!Flywheel /\ g.state = f.state /\ g.speed = f.speed
       /\ g.accountIndex = f.accountIndex /\ g.accrued = left
  BY <1>5, <1>7, <1>11 DEF XVS!Flywheel
<1> HIDE DEF g
<1>13. \A a \in Accounts : rec1[a] + g.accrued[a] = received[a] + f.accrued[a]
  BY <1>9, <1>12
<1>14. Good(g, markets, rec1, currentBlock, allMarkets, promised, Before)
  BY <1>1, <1>7, <1>12, <1>13, PayGood
<1>15. isListed \subseteq allMarkets
  BY DEF FlyInv
<1> QED BY <1>2, <1>3, <1>11, <1>14, <1>15, StepDone

\* What has accrued to one account is given out.
Given(f, g, a, rec, rec1) ==
  /\ g \in XVS!Flywheel /\ g.state = f.state /\ g.speed = f.speed
  /\ g.accountIndex = f.accountIndex /\ g.accrued = [f.accrued EXCEPT ![a] = 0]
  /\ rec1 = [rec EXCEPT ![a] = rec[a] + f.accrued[a]]

LEMMA GiveAccrued ==
  ASSUME XVS!FlywheelAssumption, NEW f, NEW listed, NEW rec, NEW p, NEW was, NEW ms, NEW block,
         Good(f, ms, rec, block, listed, p, was), NEW a \in Accounts,
         NEW g, NEW rec1, Given(f, g, a, rec, rec1)
  PROVE  Good(g, ms, rec1, block, listed, p, was) /\ rec1 \in [Accounts -> Nat]
<1> DEFINE value == f.accrued[a]
<1>0. /\ g \in XVS!Flywheel /\ g.state = f.state /\ g.speed = f.speed
      /\ g.accountIndex = f.accountIndex /\ g.accrued = [f.accrued EXCEPT ![a] = 0]
      /\ rec1 = [rec EXCEPT ![a] = rec[a] + value]
  BY DEF Given
<1>1. /\ f.accrued \in [Accounts -> Nat] /\ rec \in [Accounts -> Nat]
      /\ IsFiniteSet(Accounts)
  BY FlywheelConstants DEF Good, FlywheelOK, XVS!Flywheel
<1>2. value \in Nat /\ rec[a] \in Nat /\ rec[a] + value \in Nat
  BY <1>1
<1> HIDE DEF value
<1>3. rec1 \in [Accounts -> Nat]
  BY <1>0, <1>1, <1>2
<1>4. \A b \in Accounts : rec1[b] + g.accrued[b] = rec[b] + f.accrued[b]
  <2> SUFFICES ASSUME NEW b \in Accounts
               PROVE  rec1[b] + g.accrued[b] = rec[b] + f.accrued[b]
    OBVIOUS
  <2>1. f.accrued[b] \in Nat /\ rec[b] \in Nat
    BY <1>1
  <2>2. CASE b = a
    BY <1>0, <1>1, <2>1, <2>2 DEF value
  <2>3. CASE b # a
    BY <1>0, <1>1, <2>1, <2>3
  <2> QED BY <2>2, <2>3
<1>5. /\ g \in XVS!Flywheel /\ g.state = f.state /\ g.speed = f.speed
      /\ g.accountIndex = f.accountIndex
  BY <1>0
<1>6. Good(g, ms, rec1, block, listed, p, was)
  BY <1>3, <1>4, <1>5, PayGood
<1> QED BY <1>3, <1>6

-----------------------------------------------------------------------------
(* The loop of a claim. *)

\* A claim that has not reverted, after some of its holders.
Claim == [flywheel : XVS!Flywheel, market : Market, received : [Accounts -> Nat],
          reverted : BOOLEAN]
marketsOf(c) == [markets EXCEPT ![xvsVToken] = c.market]
ClaimGood(c) ==
  c.reverted \/ /\ c \in Claim
                /\ Good(c.flywheel, marketsOf(c), c.received, currentBlock,
                        allMarkets, promised, Before)

\* The holder is paid in XVS.
LEMMA GrantCash ==
  ASSUME XVS!FlywheelAssumption, FlyInv, NEW c \in Claim, NEW a \in Accounts,
         Good(c.flywheel, marketsOf(c), c.received, currentBlock,
              allMarkets, promised, Before),
         c.flywheel.accrued[a] <= c.flywheel.xvs
  PROVE  ClaimGood([c EXCEPT !.flywheel.accrued[a] = 0,
                             !.flywheel.xvs = @ - c.flywheel.accrued[a],
                             !.received[a] = @ + c.flywheel.accrued[a]])
<1> DEFINE f == c.flywheel
           value == f.accrued[a]
           x == f.xvs - value
           acc == [f.accrued EXCEPT ![a] = 0]
           g == [f EXCEPT !.accrued = acc, !.xvs = x]
           rec1 == [c.received EXCEPT ![a] = c.received[a] + value]
           d == [c EXCEPT !.flywheel = g, !.received = rec1]
<1>1. /\ f \in XVS!Flywheel /\ c.received \in [Accounts -> Nat] /\ c.market \in Market
      /\ f.accrued \in [Accounts -> Nat] /\ f.xvs \in Nat
  BY DEF Claim, XVS!Flywheel
<1>2. [c EXCEPT !.flywheel.accrued[a] = 0, !.flywheel.xvs = @ - c.flywheel.accrued[a],
                !.received[a] = @ + c.flywheel.accrued[a]] = d
  BY <1>1 DEF Claim, XVS!Flywheel
<1>3. x \in Nat /\ acc \in [Accounts -> Nat]
  BY <1>1
<1>4. marketsOf(d) = marketsOf(c) /\ d.flywheel = g /\ d.received = rec1
      /\ d.market = c.market /\ d.reverted = c.reverted
  BY DEF Claim, marketsOf
<1> HIDE DEF f, x, acc
<1>5. /\ g \in XVS!Flywheel /\ g.state = f.state /\ g.speed = f.speed
      /\ g.accountIndex = f.accountIndex /\ g.accrued = acc
  BY <1>1, <1>3 DEF XVS!Flywheel
<1> HIDE DEF g
<1>6. Good(g, marketsOf(c), rec1, currentBlock,
           allMarkets, promised, Before) /\ rec1 \in [Accounts -> Nat]
  <2>1. Good(f, marketsOf(c), c.received, currentBlock, allMarkets, promised, Before)
    BY DEF f
  <2>2. Given(f, g, a, c.received, rec1)
    BY <1>5 DEF acc, Given
  <2> HIDE DEF rec1
  <2> QED BY <2>1, <2>2, GiveAccrued
<1> HIDE DEF rec1
<1>7. d \in Claim
  BY <1>5, <1>6 DEF Claim
<1> HIDE DEF d
<1>8. ClaimGood(d)
  BY <1>4, <1>6, <1>7 DEF ClaimGood
<1> QED BY <1>2, <1>8, Zenon

\* The holder is paid as collateral, or the claim reverts.
LEMMA GrantCollateral ==
  ASSUME XVS!FlywheelAssumption, FlyInv, NEW c \in Claim, NEW a \in Accounts,
         Good(c.flywheel, marketsOf(c), c.received, currentBlock,
              allMarkets, promised, Before),
         NEW rate \in Nat
  PROVE  ClaimGood(XVS!grantAsCollateral(c, a, rate))
<1> DEFINE x == xvsVToken
           value == c.flywheel.accrued[a]
           m == accrueInterest(c.market, rate, currentBlock)
           f0 == [c.flywheel EXCEPT !.accrued[a] = 0]
           f1 == XVS!supplyHook(f0, x, m, {a})
           g == [f1 EXCEPT !.xvs = @ - value]
           r == mintFresh(m, a, value)
           rec1 == [c.received EXCEPT ![a] = @ + value]
           e == XVS!grantAsCollateral(c, a, rate)
           ms == marketsOf(c)
           ms1 == [ms EXCEPT ![x] = m]
<1>1. /\ c.flywheel \in XVS!Flywheel /\ c.received \in [Accounts -> Nat] /\ c.market \in Market
      /\ c.flywheel.accrued \in [Accounts -> Nat] /\ value \in Nat
      /\ markets \in [VTokens -> Market] /\ x \in VTokens /\ currentBlock \in Nat
      /\ isListed \subseteq allMarkets
  BY FlywheelConstants, FlyFacts DEF Claim, XVS!Flywheel
<1>2. SUFFICES ASSUME ~e.reverted PROVE ClaimGood(e)
  BY DEF ClaimGood
<1>3. /\ e.flywheel = g /\ e.market = r /\ e.received = rec1
      /\ e.reverted \in BOOLEAN
      /\ e = [flywheel |-> e.flywheel, market |-> e.market, received |-> e.received,
              reverted |-> e.reverted]
  BY SameMarkets DEF XVS!grantAsCollateral
<1>4. x \in isListed /\ canMint(m) /\ ~(value > f1.xvs)
  BY <1>2, SameMarkets DEF XVS!grantAsCollateral
<1>5. /\ f0 \in XVS!Flywheel /\ f0.state = c.flywheel.state /\ f0.speed = c.flywheel.speed
      /\ f0.accountIndex = c.flywheel.accountIndex
      /\ f0.accrued = [c.flywheel.accrued EXCEPT ![a] = 0]
  BY <1>1 DEF XVS!Flywheel
<1> HIDE DEF f0
<1>6. Given(c.flywheel, f0, a, c.received, rec1)
  BY <1>5 DEF Given
<1> HIDE DEF rec1
<1>7. Good(f0, ms, rec1, currentBlock,
           allMarkets, promised, Before) /\ rec1 \in [Accounts -> Nat]
  BY <1>6, GiveAccrued
<1>8. ms[x] = c.market /\ \A q : [ms EXCEPT ![x] = q] = [markets EXCEPT ![x] = q]
  BY <1>1 DEF marketsOf
<1> HIDE DEF ms
<1>9. /\ Good(f0, ms1, rec1, currentBlock, allMarkets, promised, Before) /\ ms1[x] = m
      /\ Sound(m) /\ Timely(m, currentBlock) /\ m \in Market
      /\ \A q : [ms1 EXCEPT ![x] = q] = [ms EXCEPT ![x] = q]
  <2>1. MarketsOK(ms, currentBlock) /\ ms \in [VTokens -> Market]
    BY <1>7 DEF Good, MarketsOK
  <2>2. Replaces(f0, ms, x, m)
    <3>1. Replaces(f0, ms, x, accrueInterest(ms[x], rate, currentBlock))
      BY <1>1, <2>1, AccrueReplaces
    <3> QED BY <1>8, <3>1
  <2> HIDE DEF m
  <2>3. Good(f0, ms1, rec1, currentBlock, allMarkets, promised, Before)
    BY <1>1, <1>7, <2>2, SwapGood
  <2>4. Sound(m) /\ Timely(m, currentBlock) /\ m \in Market
    BY <2>2 DEF Replaces
  <2>5. ms1[x] = m /\ \A q : [ms1 EXCEPT ![x] = q] = [ms EXCEPT ![x] = q]
    BY <1>1, <2>1
  <2> QED BY <2>3, <2>4, <2>5
<1> HIDE DEF m, ms1, value
<1>10. /\ Sound(r) /\ Timely(r, currentBlock) /\ r \in Market /\ SameDebts(m, r)
       /\ \A b \in Accounts \ {a} : r.accountTokens[b] = m.accountTokens[b]
  BY <1>1, <1>4, <1>9, MintKeeps
<1> HIDE DEF r
<1>11. Good(f1, [ms1 EXCEPT ![x] = r], rec1, currentBlock, allMarkets, promised, Before)
  <2>1. {a} \in SUBSET Accounts /\ x \in allMarkets
    BY <1>1, <1>4
  <2>2. Good(XVS!supplyHook(f0, x, ms1[x], {a}), [ms1 EXCEPT ![x] = r], rec1, currentBlock,
             allMarkets, promised, Before)
    BY <1>9, <1>10, <2>1, SupplyCall
  <2> QED BY <1>9, <2>2
<1>12. [ms1 EXCEPT ![x] = r] = marketsOf(e)
  BY <1>3, <1>8, <1>9 DEF marketsOf
<1> HIDE DEF f1, e, x
<1>13. f1 \in XVS!Flywheel /\ f1.xvs \in Nat
  BY <1>11 DEF Good, FlywheelOK, XVS!Flywheel
<1>14. /\ g \in XVS!Flywheel /\ g.state = f1.state /\ g.speed = f1.speed
       /\ g.accountIndex = f1.accountIndex /\ g.accrued = f1.accrued
  <2>0. value \in Nat
    BY <1>1
  <2>1. f1.xvs - value \in Nat
    BY <1>4, <1>13, <2>0
  <2> QED BY <1>13, <2>1 DEF XVS!Flywheel
<1> HIDE DEF g
<1>15. Good(g, marketsOf(e), rec1, currentBlock, allMarkets, promised, Before)
  BY <1>7, <1>11, <1>12, <1>14, PayGood
<1>16. e \in Claim
  BY <1>3, <1>7, <1>10, <1>14 DEF Claim
<1> QED BY <1>3, <1>15, <1>16 DEF ClaimGood

\* One holder of a claim.
LEMMA GrantGood ==
  ASSUME XVS!FlywheelAssumption, FlyInv, NEW c, ClaimGood(c), NEW a \in Accounts,
         NEW bankrupt \in BOOLEAN, NEW collateral \in BOOLEAN, NEW rate \in Nat
  PROVE  ClaimGood(XVS!grantXVS(c, a, bankrupt, collateral, rate))
<1> DEFINE value == c.flywheel.accrued[a]
           d == XVS!grantXVS(c, a, bankrupt, collateral, rate)
<1> SUFFICES ClaimGood(d)
  OBVIOUS
<1>1. CASE c.reverted \/ value = 0 \/ value > c.flywheel.xvs
  BY <1>1 DEF XVS!grantXVS
<1>2. CASE ~(c.reverted \/ value = 0 \/ value > c.flywheel.xvs)
  <2>1. /\ c \in Claim
        /\ Good(c.flywheel, marketsOf(c), c.received, currentBlock,
                allMarkets, promised, Before)
    BY <1>2 DEF ClaimGood
  <2>2. CASE ~bankrupt
    <3>1. d = [c EXCEPT !.flywheel.accrued[a] = 0,
                        !.flywheel.xvs = @ - c.flywheel.accrued[a],
                        !.received[a] = @ + c.flywheel.accrued[a]]
      BY <1>2, <2>2 DEF XVS!grantXVS
    <3>2. c.flywheel.accrued[a] <= c.flywheel.xvs
      <4>1. c.flywheel.accrued[a] \in Nat /\ c.flywheel.xvs \in Nat
        BY <2>1 DEF Claim, XVS!Flywheel
      <4> QED BY <1>2, <4>1
    <3> HIDE DEF d
    <3> QED BY <2>1, <3>1, <3>2, GrantCash
  <2>3. CASE bankrupt /\ collateral
    <3>1. d = XVS!grantAsCollateral(c, a, rate)
      BY <1>2, <2>3 DEF XVS!grantXVS
    <3> HIDE DEF d
    <3> QED BY <2>1, <3>1, GrantCollateral
  <2>4. CASE bankrupt /\ ~collateral
    <3>1. d = [c EXCEPT !.reverted = TRUE]
      BY <1>2, <2>4 DEF XVS!grantXVS
    <3> HIDE DEF d
    <3> QED BY <2>1, <3>1 DEF ClaimGood, Claim
  <2> QED BY <2>2, <2>3, <2>4
<1> QED BY <1>1, <1>2

\* The claim after each of the holders, as ClaimVenus goes through them.
Claims(start, holders, bankrupt, collateral, rate, m, f) ==
  f = [n \in 0 .. m |->
         IF n = 0 THEN start
         ELSE XVS!grantXVS(f[n - 1], holders[n], holders[n] \in bankrupt, collateral, rate)]

LEMMA ClaimsExist ==
  ASSUME NEW start, NEW holders, NEW bankrupt, NEW collateral, NEW rate, NEW m \in Nat
  PROVE  \E f : Claims(start, holders, bankrupt, collateral, rate, m, f)
<1> DEFINE next(c, n) == XVS!grantXVS(c, holders[n], holders[n] \in bankrupt, collateral, rate)
           Upto(f, i) == f = [n \in 0 .. i |-> IF n = 0 THEN start ELSE next(f[n - 1], n)]
           bad == {i \in Nat : ~ \E f : Upto(f, i)}
<1>0. \A f : Upto(f, m) => Claims(start, holders, bankrupt, collateral, rate, m, f)
  BY Zenon DEF Claims
<1> HIDE DEF next
<1>1. SUFFICES ASSUME bad # {} PROVE FALSE
  <2>1. \E f : Upto(f, m)
    BY <1>1
  <2> HIDE DEF Upto
  <2> QED BY <1>0, <2>1
<1>2. PICK i \in bad : \A j \in bad : i <= j
  <2>1. bad \subseteq Nat
    OBVIOUS
  <2> HIDE DEF bad
  <2> QED BY <1>1, <2>1, LeastNatural
<1>3. i \in Nat /\ ~ \E f : Upto(f, i)
  OBVIOUS
<1>4. CASE i = 0
  <2> DEFINE f == [n \in 0 .. 0 |-> start]
  <2>1. f = [n \in 0 .. 0 |-> IF n = 0 THEN start ELSE next(f[n - 1], n)]
    OBVIOUS
  <2>2. Upto(f, 0)
    BY <2>1
  <2> QED BY <1>3, <1>4, <2>2
<1>5. CASE i # 0
  <2>1. i - 1 \in Nat /\ ~ (i - 1 \in bad)
    BY <1>2, <1>3, <1>5
  <2>2. PICK g : Upto(g, i - 1)
    BY <2>1
  <2> DEFINE f == [n \in 0 .. i |-> IF n < i THEN g[n] ELSE next(g[i - 1], i)]
  <2>3. \A n \in 0 .. i - 1 : g[n] = IF n = 0 THEN start ELSE next(g[n - 1], n)
    BY <2>2, Zenon
  <2>4. ASSUME NEW n \in 0 .. i
        PROVE  f[n] = IF n = 0 THEN start ELSE next(f[n - 1], n)
    <3>1. CASE n < i
      <4>1. n \in 0 .. i - 1 /\ f[n] = g[n] /\ (n # 0 => f[n - 1] = g[n - 1])
        BY <1>3, <3>1
      <4> HIDE DEF f
      <4> QED BY <2>3, <4>1
    <3>2. CASE n = i
      <4>1. f[n] = next(g[i - 1], i) /\ f[n - 1] = g[i - 1]
        BY <1>3, <1>5, <3>2
      <4> HIDE DEF f
      <4> QED BY <1>5, <3>2, <4>1
    <3> QED BY <1>3, <3>1, <3>2
  <2>5. f = [n \in 0 .. i |-> f[n]]
    OBVIOUS
  <2> HIDE DEF f
  <2>6. Upto(f, i)
    BY <2>4, <2>5, Zenon
  <2> QED BY <1>3, <2>6
<1> QED BY <1>4, <1>5

LEMMA ClaimsGood ==
  ASSUME XVS!FlywheelAssumption, FlyInv, NEW start, ClaimGood(start),
         NEW holders \in Seq(Accounts), NEW bankrupt, NEW collateral \in BOOLEAN,
         NEW rate \in Nat, NEW f,
         Claims(start, holders, bankrupt, collateral, rate, Len(holders), f)
  PROVE  ClaimGood(f[Len(holders)])
<1> DEFINE m == Len(holders)
           next(c, n) == XVS!grantXVS(c, holders[n], holders[n] \in bankrupt, collateral, rate)
           bad == {n \in 0 .. m : ~ ClaimGood(f[n])}
<1>1. \A n \in 0 .. m : f[n] = IF n = 0 THEN start ELSE next(f[n - 1], n)
  BY Zenon DEF Claims
<1>2. m \in Nat /\ \A n \in 1 .. m : holders[n] \in Accounts
  OBVIOUS
<1>3. ASSUME NEW c, ClaimGood(c), NEW n \in 1 .. m PROVE ClaimGood(next(c, n))
  <2>1. holders[n] \in Accounts /\ (holders[n] \in bankrupt) \in BOOLEAN
    BY <1>2
  <2> QED BY <1>3, <2>1, GrantGood
<1> HIDE DEF m, next
<1>4. SUFFICES ASSUME bad # {} PROVE FALSE
  <2>1. m \in 0 .. m
    BY <1>2
  <2>2. ClaimGood(f[m])
    BY <1>4, <2>1
  <2> QED BY <2>2 DEF m
<1>5. PICK i \in bad : \A j \in bad : i <= j
  <2>1. bad \subseteq Nat
    BY <1>2
  <2> HIDE DEF bad
  <2> QED BY <1>4, <2>1, LeastNatural
<1>6. i \in 0 .. m /\ ~ ClaimGood(f[i])
  OBVIOUS
<1>7. i # 0
  BY <1>1, <1>6
<1>8. i \in 1 .. m /\ i - 1 \in 0 .. m /\ ~ (i - 1 \in bad)
  BY <1>2, <1>5, <1>6, <1>7
<1>9. ClaimGood(f[i - 1])
  BY <1>8
<1>10. f[i] = next(f[i - 1], i)
  BY <1>1, <1>6, <1>7
<1> QED BY <1>3, <1>6, <1>8, <1>9, <1>10

LEMMA ClaimVenusFly ==
  ASSUME XVS!FlywheelAssumption, FlyInv, NEW holders \in Seq(Accounts),
         NEW vTokens \in SUBSET VTokens, NEW sides \in SUBSET XVS!Sides,
         NEW collateral \in BOOLEAN, NEW bankrupt, NEW rate \in Nat,
         XVS!ClaimVenus(holders, vTokens, sides, collateral, bankrupt, rate)
  PROVE  FlyStep
<1> DEFINE who == XVS!ToSet(holders)
           f0 == XVS!distribute(flywheel, markets, sides, vTokens, who)
           start == [flywheel |-> f0, market |-> markets[xvsVToken], received |-> received,
                     reverted |-> FALSE]
           m == Len(holders)
           h == CHOOSE f : f = [n \in 0 .. m |->
                  IF n = 0 THEN start
                  ELSE XVS!grantXVS(f[n - 1], holders[n], holders[n] \in bankrupt, collateral, rate)]
           claim == h[m]
<1>1. /\ vTokens \subseteq isListed /\ ~claim.reverted
      /\ flywheel' = claim.flywheel /\ markets' = [markets EXCEPT ![xvsVToken] = claim.market]
      /\ received' = claim.received
      /\ UNCHANGED <<isListed, allMarkets, promised, currentBlock>>
  BY DEF XVS!ClaimVenus
<1>2. who \in SUBSET Accounts
  BY DEF XVS!ToSet
<1> HIDE DEF who
<1>3. /\ markets \in [VTokens -> Market] /\ isListed \subseteq allMarkets
      /\ xvsVToken \in VTokens /\ vTokens \in SUBSET allMarkets
  BY <1>1, FlyFacts, FlywheelConstants
<1>4. Good(f0, markets, received, currentBlock, allMarkets, promised, Before)
  BY <1>2, <1>3, DistributeGood
<1> HIDE DEF f0
<1>5. ClaimGood(start)
  <2>1. marketsOf(start) = markets
    BY <1>3 DEF marketsOf
  <2>2. f0 \in XVS!Flywheel /\ received \in [Accounts -> Nat]
    BY <1>4 DEF Good, FlywheelOK
  <2>3. start \in Claim
    BY <1>3, <2>2 DEF Claim
  <2>4. start.flywheel = f0 /\ start.received = received
    OBVIOUS
  <2> HIDE DEF start
  <2> QED BY <1>4, <2>1, <2>3, <2>4 DEF ClaimGood
<1> HIDE DEF start
<1>6. Claims(start, holders, bankrupt, collateral, rate, m, h)
  <2>1. m \in Nat
    OBVIOUS
  <2> HIDE DEF m
  <2>2. \E f : Claims(start, holders, bankrupt, collateral, rate, m, f)
    BY <2>1, ClaimsExist
  <2> QED BY <2>2, Zenon DEF Claims
<1> HIDE DEF h
<1>7. ClaimGood(h[Len(holders)])
  BY <1>5, <1>6, ClaimsGood
<1>8. ClaimGood(claim)
  BY <1>7
<1> HIDE DEF claim
<1>9. Good(claim.flywheel, marketsOf(claim), claim.received, currentBlock,
           allMarkets, promised, Before)
  BY <1>1, <1>8 DEF ClaimGood
<1>10. markets' = marketsOf(claim) /\ isListed' \subseteq allMarkets
  BY <1>1, <1>3 DEF marketsOf
<1> QED BY <1>1, <1>9, <1>10, StepDone

-----------------------------------------------------------------------------
(* The theorem. *)

\* Nothing is listed, promised or owed at the start.
LEMMA InitFly ==
  ASSUME XVS!FlywheelAssumption, XVS!Init
  PROVE  FlyInv
<1> DEFINE f == flywheel
           m0 == initialMarket(1)
<1>0. /\ IsFiniteSet(VTokens) /\ doubleScale \in Nat \ {0} /\ IsFiniteSet(Accounts)
      /\ XVS!Sides = {"supply", "borrow"} /\ IsFiniteSet(Keys) /\ expScale \in Nat \ {0}
  BY FlywheelConstants
<1>1. /\ currentBlock = 1 /\ isListed = {} /\ allMarkets = {} /\ promised = 0
      /\ received = [a \in Accounts |-> 0] /\ markets = [v \in VTokens |-> m0]
  BY SameMarkets DEF XVS!Init, XVS!InitWith
<1>2. Sound(m0) /\ Timely(m0, 1) /\ m0 \in Market
  <2>1. MarketInv(m0) /\ Timely(m0, 1)
    BY InitialMarketInv
  <2>2. m0.principal = [a \in Accounts |-> 0] /\ m0.totalBorrows = 0
    BY DEF initialMarket
  <2>3. Total(m0.principal) = 0
    <3> DEFINE z == [a \in Accounts |-> 0]
    <3>1. z \in [Accounts -> Nat] /\ \A a \in Accounts : z[a] = 0
      OBVIOUS
    <3> HIDE DEF z
    <3>2. Total(z) = 0
      BY <3>1, TotalZero
    <3> QED BY <2>2, <3>2 DEF z
  <2> HIDE DEF m0
  <2> QED BY <2>1, <2>2, <2>3 DEF Sound, MarketInv
<1>3. \A a \in Accounts : m0.accountTokens[a] = 0
  BY DEF initialMarket
<1> HIDE DEF m0
<1>4. MarketsOK(markets, currentBlock)
  BY <1>1, <1>2 DEF MarketsOK
<1>5. flywheel = [state |-> [side \in XVS!Sides |-> [v \in VTokens |-> [index |-> 0, block |-> 0]]],
                  speed |-> [side \in XVS!Sides |-> [v \in VTokens |-> 0]],
                  accountIndex |-> [side \in XVS!Sides |-> [v \in VTokens |->
                                     [a \in Accounts |-> 0]]],
                  accrued |-> [a \in Accounts |-> 0], xvs |-> 0, releaseStartBlock |-> 0]
  <2> DEFINE first(side, v, a) ==
               IF side = "supply" /\ [w \in VTokens |-> XVS!initialMarket(1)][v].accountTokens[a] > 0
                 THEN XVS!venusInitialIndex ELSE 0
             state(v) == IF v \in {} THEN XVS!initialized([index |-> 0])
                                     ELSE [index |-> 0, block |-> 0]
  <2>1. flywheel =
          [state |-> [side \in XVS!Sides |-> [v \in VTokens |-> state(v)]],
           speed |-> [side \in XVS!Sides |-> [v \in VTokens |-> 0]],
           accountIndex |-> [side \in XVS!Sides |-> [v \in VTokens |->
                              [a \in Accounts |-> first(side, v, a)]]],
           accrued |-> [a \in Accounts |-> 0], xvs |-> 0, releaseStartBlock |-> 0]
    BY Zenon DEF XVS!Init, XVS!InitWith
  <2>2. \A v \in VTokens : state(v) = [index |-> 0, block |-> 0]
    OBVIOUS
  <2>3. ASSUME NEW side \in XVS!Sides, NEW v \in VTokens, NEW a \in Accounts
        PROVE  first(side, v, a) = 0
    <3>1. [w \in VTokens |-> XVS!initialMarket(1)][v].accountTokens[a] = 0
      BY <1>3, SameMarkets DEF m0
    <3> QED BY <3>1
  <2> HIDE DEF first, state
  <2>4. [side \in XVS!Sides |-> [v \in VTokens |-> [a \in Accounts |-> first(side, v, a)]]]
          = [side \in XVS!Sides |-> [v \in VTokens |-> [a \in Accounts |-> 0]]]
    BY <2>3
  <2>5. [side \in XVS!Sides |-> [v \in VTokens |-> state(v)]]
          = [side \in XVS!Sides |-> [v \in VTokens |-> [index |-> 0, block |-> 0]]]
    BY <2>2
  <2> QED BY <2>1, <2>4, <2>5
<1>6. f \in XVS!Flywheel
  BY <1>0, <1>5 DEF XVS!Flywheel, XVS!State
<1>7. \A side \in XVS!Sides, v \in VTokens :
        /\ f.state[side][v].index = 0 /\ f.state[side][v].block = 0 /\ f.speed[side][v] = 0
        /\ \A a \in Accounts : f.accountIndex[side][v][a] = 0
  BY <1>5
<1>8. f.accrued = [a \in Accounts |-> 0]
  BY <1>5
<1> HIDE DEF f
<1>9. FlywheelOK(f, currentBlock, allMarkets)
  BY <1>1, <1>6, <1>7 DEF FlywheelOK
<1>10. Ledger(f, markets, received, currentBlock, promised)
  <2> DEFINE zero == [a \in Accounts |-> 0]
             u == Unpaid(f, markets)
             c == Coming(f, currentBlock)
  <2>1. u \in [Keys -> Nat] /\ c \in [Keys -> Nat]
    BY <1>1, <1>4, <1>9, LedgerTypes
  <2>2. ASSUME NEW k \in Keys PROVE c[k] = 0
    <3>1. k[1] \in XVS!Sides /\ k[2] \in VTokens
      BY KeyParts
    <3>2. f.speed[k[1]][k[2]] = 0 /\ f.state[k[1]][k[2]].block = 0
      BY <1>7, <3>1
    <3>3. c[k] = f.speed[k[1]][k[2]] * (currentBlock - f.state[k[1]][k[2]].block) * doubleScale
      BY DEF Coming
    <3>4. 0 * (1 - 0) * doubleScale = 0
      BY <1>0
    <3> HIDE DEF c
    <3> QED BY <1>1, <3>2, <3>3, <3>4
  <2>3. ASSUME NEW k \in Keys PROVE u[k] = 0
    <3> DEFINE row == [a \in Accounts |-> weight(markets, k, a) * delta(f, k, a)]
    <3>1. row \in [Accounts -> Nat]
      BY <1>1, <1>4, <1>9, LedgerTypes
    <3>2. ASSUME NEW a \in Accounts PROVE row[a] = 0
      <4>1. k[1] \in XVS!Sides /\ k[2] \in VTokens
        BY KeyParts
      <4>2. f.state[k[1]][k[2]].index = 0 /\ f.accountIndex[k[1]][k[2]][a] = 0
        BY <1>7, <4>1
      <4>3. XVS!deltaIndex(0, 0) = 0
        <5>1. 0 \in Nat
          OBVIOUS
        <5> QED BY <1>0, <5>1, DeltaFacts
      <4>4. delta(f, k, a) = 0
        BY <4>2, <4>3 DEF delta
      <4>5. weight(markets, k, a) \in Nat
        <5>1. Sound(markets[k[2]])
          BY <1>4, <4>1 DEF MarketsOK
        <5> QED BY <1>9, <5>1, KeyFacts
      <4>6. \A n \in Nat : n * 0 = 0
        OBVIOUS
      <4>7. row[a] = weight(markets, k, a) * delta(f, k, a)
        OBVIOUS
      <4> HIDE DEF row
      <4> QED BY <4>4, <4>5, <4>6, <4>7
    <3>3. u[k] = Total(row)
      BY DEF Unpaid
    <3> HIDE DEF row, u
    <3> QED BY <3>1, <3>2, <3>3, TotalZero
  <2> HIDE DEF u, c
  <2>4. Total(u) = 0 /\ Total(c) = 0
    BY <2>1, <2>2, <2>3, TotalZero
  <2>5. Total(zero) = 0
    <3>1. zero \in [Accounts -> Nat] /\ \A a \in Accounts : zero[a] = 0
      OBVIOUS
    <3> HIDE DEF zero
    <3> QED BY <3>1, TotalZero
  <2>6. received = zero /\ f.accrued = zero
    BY <1>1, <1>8
  <2> HIDE DEF zero
  <2>7. doubleScale * (0 + 0) + 0 + 0 <= doubleScale * 0
    BY <1>0
  <2> QED BY <1>1, <2>4, <2>5, <2>6, <2>7 DEF Ledger, u, c
<1>11. received \in [Accounts -> Nat] /\ currentBlock \in Nat /\ promised \in Nat
       /\ allMarkets \subseteq VTokens /\ isListed \subseteq allMarkets
  BY <1>1
<1>12. Kept(f, markets, received, currentBlock, Before)
  BY <1>4, SnapshotKept DEF Before, f
<1> QED BY <1>4, <1>9, <1>10, <1>11, <1>12 DEF FlyInv, Good, f

LEMMA NextFly ==
  ASSUME XVS!FlywheelAssumption, FlyInv, [XVS!Next]_(XVS!vars)
  PROVE  FlyStep
<1>0. /\ Amounts \subseteq Nat /\ BorrowRates \subseteq Nat /\ Speeds \subseteq Nat
      /\ Fundings \subseteq Nat /\ HolderLists \subseteq Seq(Accounts)
  BY FlywheelConstants
<1>1. CASE XVS!UserStep
  <2>1. PICK a \in Accounts, b \in Accounts, v \in VTokens, n \in Amounts :
          \/ XVS!AccrueInterest(v) \/ XVS!Mint(a, v, n) \/ XVS!Redeem(a, v, n)
          \/ XVS!Borrow(a, v, n) \/ XVS!RepayBorrow(a, v, n) \/ XVS!Transfer(a, b, v, n)
    BY <1>1, Zenon DEF XVS!UserStep
  <2>2. n \in Nat
    BY <1>0
  <2> QED BY <2>1, <2>2, AccrueInterestFly, MintFly, RedeemFly, BorrowFly, RepayFly, TransferFly
<1>2. CASE XVS!LiquidationStep
  <2>1. PICK a \in Accounts, b \in Accounts, v \in VTokens, w \in VTokens,
             n \in Amounts, tokens \in Amounts : XVS!LiquidateBorrow(a, b, v, w, n, tokens)
    BY <1>2, Zenon DEF XVS!LiquidationStep
  <2>2. n \in Nat /\ tokens \in Nat
    BY <1>0
  <2> QED BY <2>1, <2>2, LiquidateFly
<1>3. CASE XVS!ClaimStep
  <2>1. PICK holders \in HolderLists, vTokens \in SUBSET VTokens,
             sides \in (SUBSET XVS!Sides) \ {{}}, rate \in BorrowRates :
          \E bankrupt \in SUBSET XVS!ToSet(holders), collateral \in BOOLEAN :
            XVS!ClaimVenus(holders, vTokens, sides, collateral, bankrupt, rate)
    BY <1>3, Zenon DEF XVS!ClaimStep
  <2>2. PICK bankrupt \in SUBSET XVS!ToSet(holders), collateral \in BOOLEAN :
          XVS!ClaimVenus(holders, vTokens, sides, collateral, bankrupt, rate)
    BY <2>1, Zenon
  <2>3. holders \in Seq(Accounts) /\ rate \in Nat /\ sides \in SUBSET XVS!Sides
    BY <1>0
  <2> QED BY <2>2, <2>3, ClaimVenusFly
<1>4. CASE XVS!GovernanceStep
  <2>1. CASE \E v \in VTokens : XVS!SupportMarket(v) \/ XVS!UnlistMarket(v)
    BY <2>1, SupportFly, UnlistFly
  <2>2. CASE \E v \in VTokens : \E s, b \in Speeds : XVS!SetVenusSpeed(v, s, b)
    <3>1. PICK v \in VTokens, s \in Speeds, b \in Speeds : XVS!SetVenusSpeed(v, s, b)
      BY <2>2
    <3>2. s \in Nat /\ b \in Nat
      BY <1>0
    <3> QED BY <3>1, <3>2, SetVenusSpeedFly
  <2>3. CASE \E holders \in HolderLists : XVS!SeizeVenus(XVS!ToSet(holders))
    <3>1. PICK holders \in HolderLists : XVS!SeizeVenus(XVS!ToSet(holders))
      BY <2>3
    <3>2. XVS!ToSet(holders) \in SUBSET Accounts
      BY <1>0 DEF XVS!ToSet
    <3> QED BY <3>1, <3>2, SeizeVenusFly
  <2>4. CASE \E n \in Fundings : XVS!GrantXVS(n) \/ XVS!Fund(n)
    BY <1>0, <2>4, FundFly
  <2> QED BY <1>4, <2>1, <2>2, <2>3, <2>4, Zenon DEF XVS!GovernanceStep
<1>5. CASE XVS!NextBlock
  BY <1>5, NextBlockFly
<1>6. CASE UNCHANGED XVS!vars
  <2>1. FlyInv'
    BY <1>6 DEF XVS!vars, FlyInv, Before
  <2>2. Balance' = Balance
    BY <1>6 DEF XVS!vars, Balance
  <2> QED BY <2>1, <2>2 DEF FlyStep
<1> QED BY <1>1, <1>2, <1>3, <1>4, <1>5, <1>6, Zenon DEF XVS!Next

\* What a claim of everybody would bring is covered.
LEMMA FlyCovers ==
  ASSUME XVS!FlywheelAssumption, FlyInv
  PROVE  XVS!NeverOverpaid
<1> DEFINE g == XVS!claimed
<1>1. SUFFICES ASSUME \A v \in VTokens :
                        \/ markets[v].borrowIndex = expScale
                        \/ g.state["borrow"][v].index <= XVS!venusInitialIndex
               PROVE  XVS!Total(XVS!earned) <= promised
  BY Zenon DEF XVS!NeverOverpaid
<1>2. XVS!Sides \in SUBSET XVS!Sides /\ allMarkets \in SUBSET allMarkets
      /\ Accounts \in SUBSET Accounts
  OBVIOUS
<1>3. Good(g, markets, received, currentBlock, allMarkets, promised, Before)
  BY <1>2, DistributeGood DEF XVS!claimed
<1>4. XVS!earned = [a \in Accounts |-> received[a] + g.accrued[a]]
  BY DEF XVS!earned
<1> HIDE DEF g
<1>5. Quiet(g, markets)
  BY <1>1, FlywheelConstants DEF Quiet
<1>6. /\ FlywheelOK(g, currentBlock, allMarkets) /\ MarketsOK(markets, currentBlock)
      /\ received \in [Accounts -> Nat] /\ currentBlock \in Nat /\ promised \in Nat
      /\ Ledger(g, markets, received, currentBlock, promised)
      /\ IsFiniteSet(Accounts) /\ doubleScale \in Nat \ {0}
  BY <1>3, <1>5, FlywheelConstants DEF Good
<1> DEFINE u == Total(Unpaid(g, markets))
           c == Total(Coming(g, currentBlock))
           paid == Total(received) + Total(g.accrued)
<1>7. u \in Nat /\ c \in Nat /\ Total(g.accrued) \in Nat /\ g.accrued \in [Accounts -> Nat]
  BY <1>6, LedgerTypes
<1>8. Total(received) \in Nat /\ paid \in Nat
  <2>1. Total(received) \in Nat
    BY <1>6, TotalBounds
  <2> QED BY <1>7, <2>1
<1>9. doubleScale * paid + u + c <= doubleScale * promised
  BY <1>6 DEF Ledger
<1> HIDE DEF u, c
<1>10. XVS!Total(XVS!earned) = paid
  <2>1. Total([a \in Accounts |-> received[a] + g.accrued[a]]) = Total(received) + Total(g.accrued)
    BY <1>6, <1>7, TotalSum
  <2> QED BY <1>4, <2>1, SameMarkets
<1> HIDE DEF paid
<1>11. paid * doubleScale <= promised * doubleScale
  <2>1. /\ doubleScale * paid = paid * doubleScale /\ paid * doubleScale \in Nat
        /\ doubleScale * promised = promised * doubleScale /\ promised * doubleScale \in Nat
    BY <1>6, <1>8
  <2> QED BY <1>7, <1>9, <2>1
<1>12. paid <= promised
  BY <1>6, <1>8, <1>11, MulCancel
<1> QED BY <1>10, <1>12

\* All accounts together never earn more XVS than the speeds have released:
\* the suppliers whatever the interest, the borrowers until interest is added
\* to a market that rewards them.  For any markets, speeds, rates and amounts:
\* hooks, liquidations, claims in cash or as collateral, seizures, new speeds,
\* listing and unlisting in any order.
THEOREM RewardsNeverOverpaid ==
  XVS!FlywheelAssumption /\ XVS!Spec => []NeverOverpaid
<1> SUFFICES ASSUME XVS!FlywheelAssumption PROVE XVS!Spec => []NeverOverpaid
  OBVIOUS
<1>1. XVS!Init => FlyInv
  BY InitFly
<1>2. FlyInv /\ [XVS!Next]_(XVS!vars) => FlyInv'
  BY NextFly DEF FlyStep
<1>3. FlyInv => NeverOverpaid
  BY FlyCovers, SameRewards
<1> QED BY <1>1, <1>2, <1>3, PTL DEF XVS!Spec

\* In a market that was never listed nobody earns anything.
LEMMA UnlistedPending ==
  ASSUME XVS!FlywheelAssumption, NEW f, NEW listed, NEW block, block \in Nat,
         FlywheelOK(f, block, listed), NEW ms, MarketsOK(ms, block),
         NEW k \in Keys, k[2] \notin listed, NEW a \in Accounts
  PROVE  pending(f, k, ms, block, a) = 0
<1>1. /\ k[1] \in XVS!Sides /\ k[2] \in VTokens /\ Sound(ms[k[2]])
      /\ doubleScale \in Nat \ {0}
  BY KeyParts, FlywheelConstants DEF MarketsOK
<1>2. f.state[k[1]][k[2]].index = 0 /\ f.speed[k[1]][k[2]] = 0
  BY <1>1 DEF FlywheelOK
<1>3. f.accountIndex[k[1]][k[2]][a] = 0
  <2>1. \/ f.accountIndex[k[1]][k[2]][a] = 0
        \/ f.accountIndex[k[1]][k[2]][a] \in doubleScale .. 0
    BY <1>1, <1>2 DEF FlywheelOK
  <2>2. doubleScale .. 0 = {}
    BY <1>1
  <2> QED BY <2>1, <2>2
<1>4. movedIndex(f, k, ms, block) = 0
  BY <1>2 DEF movedIndex
<1>5. XVS!deltaIndex(0, 0) = 0
  <2>1. 0 \in Nat
    OBVIOUS
  <2> QED BY <1>1, <2>1, DeltaFacts
<1>6. weight(ms, k, a) \in Nat
  BY <1>1, KeyFacts
<1> QED BY <1>3, <1>4, <1>5, <1>6, NothingPending

\* What a claim of everybody would find.
BalanceIsEarned == earned = Balance

LEMMA EarnedIsBalance ==
  ASSUME XVS!FlywheelAssumption, FlyInv
  PROVE  BalanceIsEarned
<1> DEFINE g == XVS!claimed
           T == XVS!Sides \X allMarkets
<1>1. XVS!Sides \in SUBSET XVS!Sides /\ allMarkets \in SUBSET allMarkets
      /\ Accounts \in SUBSET Accounts
  OBVIOUS
<1>2. Moved(flywheel, g, markets, T, Accounts)
  BY <1>1, DistributeGood DEF XVS!claimed
<1>3. XVS!earned = [a \in Accounts |-> received[a] + g.accrued[a]]
  BY DEF XVS!earned
<1> HIDE DEF g
<1>4. /\ FlywheelOK(flywheel, currentBlock, allMarkets) /\ MarketsOK(markets, currentBlock)
      /\ received \in [Accounts -> Nat] /\ currentBlock \in Nat /\ allMarkets \subseteq VTokens
      /\ flywheel.accrued \in [Accounts -> Nat]
  BY DEF FlyInv, Good, FlywheelOK, XVS!Flywheel
<1>5. T \in SUBSET Keys /\ \A k \in Keys : k \notin T => k[2] \notin allMarkets
  <2>1. T \in SUBSET Keys
    BY <1>4 DEF Keys
  <2>2. ASSUME NEW k \in Keys, k[2] \in allMarkets PROVE k \in T
    BY <2>2, KeyParts
  <2> QED BY <2>1, <2>2
<1> HIDE DEF T
<1>6. ASSUME NEW a \in Accounts
      PROVE  received[a] + g.accrued[a]
               = received[a] + flywheel.accrued[a]
                   + Total([k \in Keys |-> pending(flywheel, k, markets, currentBlock, a)])
  <2> DEFINE here == [k \in Keys |-> pending(flywheel, k, markets, currentBlock, a)]
             paid == [k \in Keys |-> paidOut(flywheel, markets, T, Accounts)[<<a, k>>]]
  <2>1. ASSUME NEW k \in Keys
        PROVE  paidOut(flywheel, markets, T, Accounts)[<<a, k>>]
                 = pending(flywheel, k, markets, currentBlock, a)
    <3>1. paidOut(flywheel, markets, T, Accounts)[<<a, k>>]
            = IF k \in T THEN pending(flywheel, k, markets, currentBlock, a) ELSE 0
      BY DEF paidOut
    <3>2. k \notin T => pending(flywheel, k, markets, currentBlock, a) = 0
      BY <1>4, <1>5, UnlistedPending
    <3> QED BY <3>1, <3>2
  <2>2. paid = here
    BY <2>1
  <2>3. \A k \in Keys : pending(flywheel, k, markets, currentBlock, a) \in Nat
    BY <1>4, <1>5, PaidOutType
  <2>4. here \in [Keys -> Nat]
    BY <2>3
  <2>5. g.accrued[a] = flywheel.accrued[a] + Total(paid)
    BY <1>2 DEF Moved
  <2> HIDE DEF here, paid
  <2>6. Total(here) \in Nat
    BY <2>4, FlywheelConstants, TotalBounds
  <2>7. received[a] \in Nat /\ flywheel.accrued[a] \in Nat
    BY <1>4
  <2>8. received[a] + g.accrued[a] = received[a] + flywheel.accrued[a] + Total(here)
    BY <2>2, <2>5, <2>6, <2>7
  <2> QED BY <2>8 DEF here
<1>7. XVS!earned = Balance
  BY <1>3, <1>6 DEF Balance, EarnedBy
<1> QED BY <1>7, SameRewards DEF BalanceIsEarned

\* No call changes what anybody has earned so far, unless it adds interest: what
\* the balances, debts and speeds have brought up to this block is paid before
\* they change, and a claim that is paid in part, as collateral, late or not
\* at all forgets nothing and pays nothing twice.  For any markets, speeds,
\* rates, amounts and lists of holders.
THEOREM EarnedIsKept ==
  XVS!FlywheelAssumption /\ XVS!Spec => EarnedKept
<1> SUFFICES ASSUME XVS!FlywheelAssumption PROVE XVS!Spec => EarnedKept
  OBVIOUS
<1>1. XVS!Init => FlyInv
  BY InitFly
<1>2. FlyInv /\ [XVS!Next]_(XVS!vars) => FlyInv' /\ FlyStep
  BY NextFly DEF FlyStep
<1>3. FlyInv => BalanceIsEarned
  BY EarnedIsBalance
<1>4. BalanceIsEarned /\ BalanceIsEarned' /\ FlyStep
        => [/\ currentBlock' = currentBlock
            /\ \A v \in VTokens : markets'[v].borrowIndex = markets[v].borrowIndex
            => earned' = earned]_<<markets, flywheel, allMarkets, received, promised, currentBlock>>
  BY DEF BalanceIsEarned, FlyStep
<1> QED BY <1>1, <1>2, <1>3, <1>4, PTL DEF XVS!Spec, EarnedKept
=============================================================================
