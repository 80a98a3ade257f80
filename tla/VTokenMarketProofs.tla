------------------------- MODULE VTokenMarketProofs -------------------------
(***************************************************************************)
(* What each operator of VTokenMarket does to the invariant of a market,   *)
(* to its equity and to its number of vTokens: one lemma per function of   *)
(* the contract, for every market, amount, rate and block.                 *)
(***************************************************************************)
EXTENDS VTokenMarket, ArithmeticProofs

MarketInv(m) == m \in Market /\ tokensConserved(m) /\ snapshotsReached(m)

\* The block counters of a market, seen from a block.
Timely(m, block) ==
  /\ m.reduceReservesBlockNumber <= m.accrualBlockNumber
  /\ m.accrualBlockNumber <= block

\* The equity of a market is an integer.
LEMMA EquityType ==
  ASSUME NEW m \in Market
  PROVE  equity(m) = m.cash + m.totalBorrows - m.totalReserves /\ equity(m) \in Int
  BY DEF equity, Market

\* The market that initialize() leaves satisfies the invariant.
LEMMA InitialMarketInv ==
  ASSUME NEW block \in Nat
  PROVE  MarketInv(initialMarket(block)) /\ Timely(initialMarket(block), block)
<1> DEFINE m == initialMarket(block)
<1>1. m \in Market
  BY ExpScaleAssumption DEF initialMarket, Market
<1>2. tokensConserved(m)
  BY TotalZero DEF initialMarket, tokensConserved
<1>3. snapshotsReached(m)
  BY ExpScaleAssumption DEF initialMarket, snapshotsReached
<1>4. Timely(m, block)
  BY DEF initialMarket, Timely
<1> QED BY <1>1, <1>2, <1>3, <1>4 DEF MarketInv

\* Sweeping reserves moves cash and reserves together and nothing else.
LEMMA ReduceReservesFacts ==
  ASSUME NEW m, MarketInv(m), NEW amount \in Nat
  PROVE  LET r == reduceReservesFresh(m, amount)
         IN  /\ MarketInv(r)
             /\ equity(r) = equity(m)
             /\ r.totalSupply = m.totalSupply
             /\ r.borrowIndex = m.borrowIndex
             /\ r.accrualBlockNumber = m.accrualBlockNumber
             /\ r.reduceReservesBlockNumber = m.reduceReservesBlockNumber
<1> DEFINE r == reduceReservesFresh(m, amount)
<1>1. m \in Market /\ tokensConserved(m) /\ snapshotsReached(m)
  BY DEF MarketInv
<1>2. r \in Market
  <2>1. CASE amount <= m.cash /\ amount <= m.totalReserves
    <3> DEFINE c == m.cash - amount
               t == m.totalReserves - amount
    <3>1. c \in Nat /\ t \in Nat
      BY <1>1, <2>1 DEF Market
    <3>2. r = [m EXCEPT !.cash = c, !.totalReserves = t]
      BY <2>1 DEF reduceReservesFresh
    <3> HIDE DEF r, c, t
    <3> QED BY <1>1, <3>1, <3>2, Zenon DEF Market
  <2>2. CASE ~(amount <= m.cash /\ amount <= m.totalReserves)
    BY <1>1, <2>2 DEF reduceReservesFresh
  <2> QED BY <2>1, <2>2
<1>3. /\ r.accountTokens = m.accountTokens /\ r.totalSupply = m.totalSupply
      /\ r.borrowIndex = m.borrowIndex
      /\ r.principal = m.principal /\ r.interestIndex = m.interestIndex
      /\ r.accrualBlockNumber = m.accrualBlockNumber
      /\ r.reduceReservesBlockNumber = m.reduceReservesBlockNumber
  BY <1>1 DEF reduceReservesFresh, Market
<1>4. equity(r) = equity(m)
  BY <1>1 DEF reduceReservesFresh, Market, equity
<1>5. tokensConserved(r) /\ snapshotsReached(r)
  BY <1>1, <1>3 DEF tokensConserved, snapshotsReached
<1> QED BY <1>2, <1>3, <1>4, <1>5 DEF MarketInv

\* Interest raises the index and never takes from the holders: what goes to
\* the reserves is at most the interest that the borrowers are charged.
LEMMA WithInterestFacts ==
  ASSUME NEW m, MarketInv(m), NEW rate \in Nat, NEW block \in Nat,
         m.accrualBlockNumber <= block
  PROVE  LET r == withInterest(m, rate, block)
         IN  /\ MarketInv(r)
             /\ equity(r) >= equity(m)
             /\ r.totalSupply = m.totalSupply
             /\ r.borrowIndex >= m.borrowIndex
             /\ r.accrualBlockNumber = block
             /\ r.reduceReservesBlockNumber = m.reduceReservesBlockNumber
<1> DEFINE r == withInterest(m, rate, block)
           factor == rate * (block - m.accrualBlockNumber)
           interest == mulScalarTruncate(factor, m.totalBorrows)
           toReserves == mulScalarTruncate(m.reserveFactorMantissa, interest)
           onIndex == mulScalarTruncate(factor, m.borrowIndex)
<1>1. m \in Market /\ tokensConserved(m) /\ snapshotsReached(m)
  BY DEF MarketInv
<1>2. factor \in Nat
  <2>1. block - m.accrualBlockNumber \in Nat
    BY <1>1 DEF Market
  <2> QED BY <2>1
<1>3. interest \in Nat /\ onIndex \in Nat
  <2> HIDE DEF factor
  <2> QED BY <1>1, <1>2, MulScalarBounds DEF Market
<1>4. toReserves \in 0 .. interest
  <2> HIDE DEF interest
  <2> QED BY <1>1, <1>3, MulFraction DEF Market
<1>5. r = [m EXCEPT !.accrualBlockNumber = block,
                    !.borrowIndex = onIndex + m.borrowIndex,
                    !.totalBorrows = m.totalBorrows + interest,
                    !.totalReserves = toReserves + m.totalReserves]
  BY <1>1 DEF withInterest, mulScalarTruncateAddUInt, mulScalarTruncate, Market
<1> HIDE DEF factor, interest, toReserves, onIndex, r
<1>6. r \in Market
  <2> DEFINE i == onIndex + m.borrowIndex
             b == m.totalBorrows + interest
             t == toReserves + m.totalReserves
  <2>1. i \in Nat /\ b \in Nat /\ t \in Nat
    BY <1>1, <1>3, <1>4 DEF Market
  <2>2. r = [m EXCEPT !.accrualBlockNumber = block, !.borrowIndex = i,
                      !.totalBorrows = b, !.totalReserves = t]
    BY <1>5
  <2> HIDE DEF i, b, t
  <2> QED BY <1>1, <2>1, <2>2, Zenon DEF Market
<1>7. /\ r.accountTokens = m.accountTokens /\ r.totalSupply = m.totalSupply
      /\ r.borrowIndex = onIndex + m.borrowIndex
      /\ r.principal = m.principal /\ r.interestIndex = m.interestIndex
      /\ r.accrualBlockNumber = block
      /\ r.reduceReservesBlockNumber = m.reduceReservesBlockNumber
      /\ r.cash = m.cash
      /\ r.totalBorrows = m.totalBorrows + interest
      /\ r.totalReserves = toReserves + m.totalReserves
  BY <1>1, <1>5 DEF Market
<1>8. m.borrowIndex \in Nat /\ m.cash \in Nat /\ m.totalBorrows \in Nat
        /\ m.totalReserves \in Nat
  BY <1>1 DEF Market
<1>9. r.borrowIndex >= m.borrowIndex
  BY <1>3, <1>7, <1>8
<1>10. equity(r) >= equity(m)
  BY <1>3, <1>4, <1>7, <1>8 DEF equity
<1>11. tokensConserved(r)
  BY <1>1, <1>7 DEF tokensConserved
<1>12. snapshotsReached(r)
  BY <1>1, <1>6, <1>7, <1>9, ExpScaleAssumption DEF snapshotsReached, Market
<1> QED BY <1>6, <1>7, <1>9, <1>10, <1>11, <1>12 DEF MarketInv, r

\* The conditional sweep at the end of accrueInterest.
LEMMA WithReservesReducedFacts ==
  ASSUME NEW m, MarketInv(m), NEW block \in Nat,
         m.accrualBlockNumber = block, m.reduceReservesBlockNumber <= block
  PROVE  LET r == withReservesReduced(m, block)
         IN  /\ MarketInv(r) /\ Timely(r, block)
             /\ equity(r) = equity(m)
             /\ r.totalSupply = m.totalSupply
             /\ r.borrowIndex = m.borrowIndex
             /\ r.accrualBlockNumber = block
<1> DEFINE r == withReservesReduced(m, block)
           s == [m EXCEPT !.reduceReservesBlockNumber = block]
           amount == IF m.cash < m.totalReserves THEN m.cash ELSE m.totalReserves
           due == block - m.reduceReservesBlockNumber >= m.reduceReservesBlockDelta
<1>1. m \in Market /\ tokensConserved(m) /\ snapshotsReached(m)
  BY DEF MarketInv
<1>2. s \in Market
  BY <1>1, Zenon DEF Market
<1>3. /\ s.accountTokens = m.accountTokens /\ s.totalSupply = m.totalSupply
      /\ s.borrowIndex = m.borrowIndex
      /\ s.principal = m.principal /\ s.interestIndex = m.interestIndex
      /\ s.accrualBlockNumber = block /\ s.reduceReservesBlockNumber = block
      /\ equity(s) = equity(m)
  BY <1>1 DEF Market, equity
<1>4. MarketInv(s)
  BY <1>1, <1>2, <1>3 DEF MarketInv, tokensConserved, snapshotsReached
<1>5. amount \in Nat
  BY <1>1 DEF Market
<1>6. CASE due
  <2> HIDE DEF s, amount
  <2>1. r = reduceReservesFresh(s, amount)
    BY <1>6 DEF withReservesReduced, s, amount
  <2> QED BY <1>3, <1>4, <1>5, <2>1, ReduceReservesFacts DEF Timely
<1>7. CASE ~due
  <2>1. r = m
    BY <1>7 DEF withReservesReduced
  <2> QED BY <2>1 DEF Timely
<1> QED BY <1>6, <1>7

\* accrueInterest as a whole.
LEMMA AccrueInterestFacts ==
  ASSUME NEW m, MarketInv(m), NEW rate \in Nat, NEW block \in Nat,
         Timely(m, block)
  PROVE  LET r == accrueInterest(m, rate, block)
         IN  /\ MarketInv(r) /\ Timely(r, block)
             /\ equity(r) >= equity(m)
             /\ r.totalSupply = m.totalSupply
             /\ r.borrowIndex >= m.borrowIndex
             /\ r.accrualBlockNumber = block
<1> DEFINE r == accrueInterest(m, rate, block)
           s == withInterest(m, rate, block)
<1>1. m \in Market
  BY DEF MarketInv
<1>2. CASE m.accrualBlockNumber = block
  BY <1>1, <1>2, EquityType DEF accrueInterest, Market
<1>3. CASE m.accrualBlockNumber # block
  <2>1. r = withReservesReduced(s, block)
    BY <1>3 DEF accrueInterest
  <2>2. /\ MarketInv(s) /\ equity(s) >= equity(m)
        /\ s.totalSupply = m.totalSupply
        /\ s.borrowIndex >= m.borrowIndex
        /\ s.accrualBlockNumber = block
        /\ s.reduceReservesBlockNumber = m.reduceReservesBlockNumber
    BY WithInterestFacts DEF Timely
  <2>3. s.reduceReservesBlockNumber <= block
    BY <1>1, <2>2 DEF Timely, Market
  <2> HIDE DEF r, s
  <2>4. /\ MarketInv(r) /\ Timely(r, block)
        /\ equity(r) = equity(s)
        /\ r.totalSupply = s.totalSupply
        /\ r.borrowIndex = s.borrowIndex
        /\ r.accrualBlockNumber = block
    BY <2>1, <2>2, <2>3, WithReservesReducedFacts
  <2> QED BY <2>2, <2>4 DEF r
<1> QED BY <1>2, <1>3

-----------------------------------------------------------------------------
\* Whenever the exchange rate can be computed it is a natural number, and
\* never more than the equity behind each vToken.
LEMMA ExchangeRateFacts ==
  ASSUME NEW m \in Market, exchangeRateDefined(m)
  PROVE  /\ exchangeRateStored(m) \in Nat
         /\ m.totalSupply > 0 =>
              exchangeRateStored(m) * m.totalSupply <= equity(m) * expScale
<1>1. m.totalSupply \in Nat /\ equity(m) \in Int
  BY EquityType DEF Market
<1>2. CASE m.totalSupply = 0
  BY <1>2, MarketAssumption DEF exchangeRateStored
<1>3. CASE m.totalSupply # 0
  <2> DEFINE n == equity(m) * expScale
             d == m.totalSupply
  <2>1. n \in Nat
    <3>1. equity(m) \in Nat
      BY <1>1, <1>3 DEF exchangeRateDefined
    <3> QED BY <3>1, ExpScaleAssumption
  <2>2. d \in Nat \ {0}
    BY <1>1, <1>3
  <2>3. exchangeRateStored(m) = n \div d
    BY <1>3 DEF exchangeRateStored, getExp
  <2> HIDE DEF n, d
  <2>4. (n \div d) \in Nat /\ (n \div d) * d <= n
    BY <2>1, <2>2, DivBounds
  <2> QED BY <2>3, <2>4 DEF n, d
<1> QED BY <1>1, <1>2, <1>3

\* A mint brings in the whole amount and issues at most the vTokens it pays
\* for.
LEMMA MintFacts ==
  ASSUME NEW m, MarketInv(m), canMint(m), NEW minter \in Accounts,
         NEW amount \in Nat
  PROVE  LET r == mintFresh(m, minter, amount)
             t == mintTokensFor(m, amount)
         IN  /\ MarketInv(r)
             /\ equity(r) = equity(m) + amount
             /\ t \in Nat /\ r.totalSupply = m.totalSupply + t
             /\ t * exchangeRateStored(m) <= amount * expScale
             /\ r.borrowIndex = m.borrowIndex
             /\ r.accrualBlockNumber = m.accrualBlockNumber
             /\ r.reduceReservesBlockNumber = m.reduceReservesBlockNumber
<1> DEFINE r == mintFresh(m, minter, amount)
           t == mintTokensFor(m, amount)
           c == m.cash + amount
           s == m.totalSupply + t
           b == m.accountTokens[minter] + t
           tokens == [m.accountTokens EXCEPT ![minter] = b]
<1>1. m \in Market /\ tokensConserved(m) /\ snapshotsReached(m)
  BY DEF MarketInv
<1>2. t \in Nat /\ t * exchangeRateStored(m) <= amount * expScale
  <2>1. exchangeRateStored(m) \in Nat \ {0}
    BY <1>1, ExchangeRateFacts DEF canMint
  <2> QED BY <2>1, DivScalarBounds DEF mintTokensFor
<1>3. r = [m EXCEPT !.cash = c, !.totalSupply = s, !.accountTokens = tokens]
  BY <1>1 DEF mintFresh, Market
<1> HIDE DEF t
<1>4. c \in Nat /\ s \in Nat /\ b \in Nat
  BY <1>1, <1>2 DEF Market
<1>5. m.accountTokens \in [Accounts -> Nat]
  BY <1>1 DEF Market
<1>6. tokens \in [Accounts -> Nat]
  BY <1>4, <1>5
<1>7. Total(tokens) = Total(m.accountTokens) - m.accountTokens[minter] + b
  <2> HIDE DEF b
  <2> QED BY <1>4, <1>5, MarketAssumption, TotalExcept
<1>8. Total(m.accountTokens) \in Nat
  BY <1>5, MarketAssumption, TotalBounds
<1> HIDE DEF r, tokens
<1>9. Total(tokens) = s
  BY <1>1, <1>2, <1>5, <1>7, <1>8 DEF tokensConserved
<1> HIDE DEF c, s, b
<1>10. r \in Market
  BY <1>1, <1>3, <1>4, <1>6, Zenon DEF Market
<1>11. /\ r.cash = c /\ r.totalSupply = s /\ r.accountTokens = tokens
       /\ r.totalBorrows = m.totalBorrows /\ r.totalReserves = m.totalReserves
       /\ r.principal = m.principal /\ r.interestIndex = m.interestIndex
       /\ r.borrowIndex = m.borrowIndex
       /\ r.accrualBlockNumber = m.accrualBlockNumber
       /\ r.reduceReservesBlockNumber = m.reduceReservesBlockNumber
  BY <1>1, <1>3 DEF Market
<1>12. equity(r) = equity(m) + amount
  BY <1>1, <1>11 DEF equity, c, Market
<1>13. MarketInv(r)
  BY <1>1, <1>9, <1>10, <1>11
     DEF MarketInv, tokensConserved, snapshotsReached
<1> QED BY <1>2, <1>11, <1>12, <1>13 DEF r, s, t

\* A redemption burns the tokens and pays the amount.
LEMMA RedeemFacts ==
  ASSUME NEW m, MarketInv(m), NEW redeemer \in Accounts,
         NEW tokens \in Nat, NEW amount \in Nat,
         canRedeem(m, redeemer, tokens, amount)
  PROVE  LET r == redeemFresh(m, redeemer, tokens, amount)
         IN  /\ MarketInv(r)
             /\ equity(r) = equity(m) - amount
             /\ r.totalSupply = m.totalSupply - tokens
             /\ r.borrowIndex = m.borrowIndex
             /\ r.accrualBlockNumber = m.accrualBlockNumber
             /\ r.reduceReservesBlockNumber = m.reduceReservesBlockNumber
<1> DEFINE r == redeemFresh(m, redeemer, tokens, amount)
           c == m.cash - amount
           s == m.totalSupply - tokens
           b == m.accountTokens[redeemer] - tokens
           left == [m.accountTokens EXCEPT ![redeemer] = b]
<1>1. m \in Market /\ tokensConserved(m) /\ snapshotsReached(m)
  BY DEF MarketInv
<1>2. r = [m EXCEPT !.totalSupply = s, !.accountTokens = left, !.cash = c]
  BY <1>1 DEF redeemFresh, Market
<1>3. c \in Nat /\ s \in Nat /\ b \in Nat
  BY <1>1 DEF Market, canRedeem
<1>4. m.accountTokens \in [Accounts -> Nat]
  BY <1>1 DEF Market
<1>5. left \in [Accounts -> Nat]
  BY <1>3, <1>4
<1>6. Total(left) = Total(m.accountTokens) - m.accountTokens[redeemer] + b
  <2> HIDE DEF b
  <2> QED BY <1>3, <1>4, MarketAssumption, TotalExcept
<1>7. Total(m.accountTokens) \in Nat
  BY <1>4, MarketAssumption, TotalBounds
<1> HIDE DEF r, left
<1>8. Total(left) = s
  BY <1>1, <1>4, <1>6, <1>7 DEF tokensConserved
<1> HIDE DEF c, s, b
<1>9. r \in Market
  BY <1>1, <1>2, <1>3, <1>5, Zenon DEF Market
<1>10. /\ r.cash = c /\ r.totalSupply = s /\ r.accountTokens = left
       /\ r.totalBorrows = m.totalBorrows /\ r.totalReserves = m.totalReserves
       /\ r.principal = m.principal /\ r.interestIndex = m.interestIndex
       /\ r.borrowIndex = m.borrowIndex
       /\ r.accrualBlockNumber = m.accrualBlockNumber
       /\ r.reduceReservesBlockNumber = m.reduceReservesBlockNumber
  BY <1>1, <1>2 DEF Market
<1>11. equity(r) = equity(m) - amount
  BY <1>1, <1>10 DEF equity, c, Market
<1>12. MarketInv(r)
  BY <1>1, <1>8, <1>9, <1>10
     DEF MarketInv, tokensConserved, snapshotsReached
<1> QED BY <1>10, <1>11, <1>12 DEF r, s

\* A transfer or a seizure moves tokens and changes nothing else.
LEMMA MoveFacts ==
  ASSUME NEW m, MarketInv(m), NEW src \in Accounts, NEW dst \in Accounts,
         NEW tokens \in Nat, canMove(m, src, dst, tokens)
  PROVE  LET r == moveTokens(m, src, dst, tokens)
         IN  /\ MarketInv(r)
             /\ equity(r) = equity(m)
             /\ r.totalSupply = m.totalSupply
             /\ r.borrowIndex = m.borrowIndex
             /\ r.accrualBlockNumber = m.accrualBlockNumber
             /\ r.reduceReservesBlockNumber = m.reduceReservesBlockNumber
<1> DEFINE r == moveTokens(m, src, dst, tokens)
           f == m.accountTokens
           v == f[src] - tokens
           w == f[dst] + tokens
           g == [f EXCEPT ![src] = v, ![dst] = w]
<1>1. m \in Market /\ tokensConserved(m) /\ snapshotsReached(m)
  BY DEF MarketInv
<1>2. f \in [Accounts -> Nat] /\ src # dst /\ tokens <= f[src]
  BY <1>1 DEF Market, canMove
<1>3. r = [m EXCEPT !.accountTokens = g]
  BY <1>1 DEF moveTokens, Market
<1>4. v \in Nat /\ w \in Nat /\ v + w = f[src] + f[dst]
  BY <1>2
<1>5. Total(g) = Total(f) /\ g \in [Accounts -> Nat]
  <2> DEFINE h == [f EXCEPT ![src] = v]
             k == [h EXCEPT ![dst] = w]
  <2> HIDE DEF f, v, w
  <2>1. h \in [Accounts -> Nat] /\ h[dst] = f[dst]
    BY <1>2, <1>4
  <2>2. Total(h) = Total(f) - f[src] + v
    BY <1>2, <1>4, MarketAssumption, TotalExcept
  <2>3. Total(k) = Total(h) - h[dst] + w
    <3> HIDE DEF h
    <3> QED BY <1>4, <2>1, MarketAssumption, TotalExcept
  <2>4. Total(f) \in Nat /\ f[src] \in Nat /\ f[dst] \in Nat
    BY <1>2, MarketAssumption, TotalBounds
  <2>5. Total(k) = Total(f)
    <3> HIDE DEF h, k
    <3> QED BY <1>4, <2>1, <2>2, <2>3, <2>4
  <2>6. g = k /\ g \in [Accounts -> Nat]
    BY <1>2, <1>4
  <2> HIDE DEF g, k
  <2> QED BY <2>5, <2>6
<1> HIDE DEF r, g
<1>6. r \in Market
  BY <1>1, <1>3, <1>5, Zenon DEF Market
<1>7. /\ r.cash = m.cash /\ r.totalSupply = m.totalSupply
      /\ r.accountTokens = g
      /\ r.totalBorrows = m.totalBorrows /\ r.totalReserves = m.totalReserves
      /\ r.principal = m.principal /\ r.interestIndex = m.interestIndex
      /\ r.borrowIndex = m.borrowIndex
      /\ r.accrualBlockNumber = m.accrualBlockNumber
      /\ r.reduceReservesBlockNumber = m.reduceReservesBlockNumber
  BY <1>1, <1>3 DEF Market
<1>8. MarketInv(r)
  BY <1>1, <1>5, <1>6, <1>7 DEF MarketInv, tokensConserved, snapshotsReached
<1> QED BY <1>7, <1>8 DEF r, equity

\* What an account owes is a natural number: the snapshot's index is positive.
LEMMA BorrowBalanceType ==
  ASSUME NEW m \in Market, snapshotsReached(m), NEW a \in Accounts
  PROVE  borrowBalanceStored(m, a) \in Nat
<1> DEFINE n == m.principal[a] * m.borrowIndex
           d == m.interestIndex[a]
<1>1. m.principal[a] \in Nat /\ m.borrowIndex \in Nat /\ d \in Nat
  BY DEF Market
<1>2. CASE m.principal[a] = 0
  BY <1>2 DEF borrowBalanceStored
<1>3. CASE m.principal[a] # 0
  <2>1. d \in Nat \ {0}
    BY <1>1, <1>3, ExpScaleAssumption DEF snapshotsReached
  <2>2. n \in Nat
    BY <1>1
  <2>3. borrowBalanceStored(m, a) = n \div d
    BY <1>3 DEF borrowBalanceStored
  <2> HIDE DEF n, d
  <2> QED BY <2>1, <2>2, <2>3, DivBounds
<1> QED BY <1>2, <1>3

\* A borrow turns cash into debt.
LEMMA BorrowFacts ==
  ASSUME NEW m, MarketInv(m), NEW borrower \in Accounts, NEW amount \in Nat,
         canBorrow(m, amount)
  PROVE  LET r == borrowFresh(m, borrower, amount)
         IN  /\ MarketInv(r)
             /\ equity(r) = equity(m)
             /\ r.totalSupply = m.totalSupply
             /\ r.borrowIndex = m.borrowIndex
             /\ r.accrualBlockNumber = m.accrualBlockNumber
             /\ r.reduceReservesBlockNumber = m.reduceReservesBlockNumber
<1> DEFINE r == borrowFresh(m, borrower, amount)
           debt == borrowBalanceStored(m, borrower)
           p == debt + amount
           b == m.totalBorrows + amount
           c == m.cash - amount
           ps == [m.principal EXCEPT ![borrower] = p]
           is == [m.interestIndex EXCEPT ![borrower] = m.borrowIndex]
<1>1. m \in Market /\ tokensConserved(m) /\ snapshotsReached(m)
  BY DEF MarketInv
<1>2. debt \in Nat
  BY <1>1, BorrowBalanceType
<1>3. r = [m EXCEPT !.principal = ps, !.interestIndex = is,
                    !.totalBorrows = b, !.cash = c]
  BY <1>1 DEF borrowFresh, Market
<1>4. p \in Nat /\ b \in Nat /\ c \in Nat
  <2> HIDE DEF debt
  <2> QED BY <1>1, <1>2 DEF Market, canBorrow
<1>5. /\ m.principal \in [Accounts -> Nat]
      /\ m.interestIndex \in [Accounts -> Nat]
      /\ m.borrowIndex \in Nat
  BY <1>1 DEF Market
<1> HIDE DEF p
<1>6. ps \in [Accounts -> Nat] /\ is \in [Accounts -> Nat]
  BY <1>4, <1>5
<1>7. \A a \in Accounts :
        \/ ps[a] = m.principal[a] /\ is[a] = m.interestIndex[a]
        \/ is[a] = m.borrowIndex
  BY <1>5
<1> HIDE DEF r, ps, is, b, c
<1>8. r \in Market
  BY <1>1, <1>3, <1>4, <1>6, Zenon DEF Market
<1>9. /\ r.cash = c /\ r.totalSupply = m.totalSupply
      /\ r.accountTokens = m.accountTokens
      /\ r.totalBorrows = b /\ r.totalReserves = m.totalReserves
      /\ r.principal = ps /\ r.interestIndex = is
      /\ r.borrowIndex = m.borrowIndex
      /\ r.accrualBlockNumber = m.accrualBlockNumber
      /\ r.reduceReservesBlockNumber = m.reduceReservesBlockNumber
  BY <1>1, <1>3 DEF Market
<1>10. equity(r) = equity(m)
  BY <1>1, <1>9 DEF equity, b, c, Market
<1>11. snapshotsReached(r)
  BY <1>1, <1>5, <1>7, <1>9, ExpScaleAssumption DEF snapshotsReached
<1>12. MarketInv(r)
  BY <1>1, <1>8, <1>9, <1>11 DEF MarketInv, tokensConserved
<1> QED BY <1>9, <1>10, <1>12 DEF r


\* A repayment turns debt into cash.
LEMMA RepayFacts ==
  ASSUME NEW m, MarketInv(m), NEW borrower \in Accounts, NEW amount \in Nat,
         canRepay(m, borrower, amount)
  PROVE  LET r == repayBorrowFresh(m, borrower, amount)
         IN  /\ MarketInv(r)
             /\ equity(r) = equity(m)
             /\ r.totalSupply = m.totalSupply
             /\ r.borrowIndex = m.borrowIndex
             /\ r.accrualBlockNumber = m.accrualBlockNumber
             /\ r.reduceReservesBlockNumber = m.reduceReservesBlockNumber
<1> DEFINE r == repayBorrowFresh(m, borrower, amount)
           debt == borrowBalanceStored(m, borrower)
           p == debt - amount
           b == m.totalBorrows - amount
           c == m.cash + amount
           ps == [m.principal EXCEPT ![borrower] = p]
           is == [m.interestIndex EXCEPT ![borrower] = m.borrowIndex]
<1>1. m \in Market /\ tokensConserved(m) /\ snapshotsReached(m)
  BY DEF MarketInv
<1>2. debt \in Nat
  BY <1>1, BorrowBalanceType
<1>3. r = [m EXCEPT !.principal = ps, !.interestIndex = is,
                    !.totalBorrows = b, !.cash = c]
  BY <1>1 DEF repayBorrowFresh, Market
<1>4. p \in Nat /\ b \in Nat /\ c \in Nat
  <2> HIDE DEF debt
  <2> QED BY <1>1, <1>2 DEF Market, canRepay, debt
<1>5. /\ m.principal \in [Accounts -> Nat]
      /\ m.interestIndex \in [Accounts -> Nat]
      /\ m.borrowIndex \in Nat
  BY <1>1 DEF Market
<1> HIDE DEF p
<1>6. ps \in [Accounts -> Nat] /\ is \in [Accounts -> Nat]
  BY <1>4, <1>5
<1>7. \A a \in Accounts :
        \/ ps[a] = m.principal[a] /\ is[a] = m.interestIndex[a]
        \/ is[a] = m.borrowIndex
  BY <1>5
<1> HIDE DEF r, ps, is, b, c
<1>8. r \in Market
  BY <1>1, <1>3, <1>4, <1>6, Zenon DEF Market
<1>9. /\ r.cash = c /\ r.totalSupply = m.totalSupply
      /\ r.accountTokens = m.accountTokens
      /\ r.totalBorrows = b /\ r.totalReserves = m.totalReserves
      /\ r.principal = ps /\ r.interestIndex = is
      /\ r.borrowIndex = m.borrowIndex
      /\ r.accrualBlockNumber = m.accrualBlockNumber
      /\ r.reduceReservesBlockNumber = m.reduceReservesBlockNumber
  BY <1>1, <1>3 DEF Market
<1>10. equity(r) = equity(m)
  BY <1>1, <1>9 DEF equity, b, c, Market
<1>11. snapshotsReached(r)
  BY <1>1, <1>5, <1>7, <1>9, ExpScaleAssumption DEF snapshotsReached
<1>12. MarketInv(r)
  BY <1>1, <1>8, <1>9, <1>11 DEF MarketInv, tokensConserved
<1> QED BY <1>9, <1>10, <1>12 DEF r


-----------------------------------------------------------------------------
\* Reserves added by anyone are not equity.
LEMMA AddReservesFacts ==
  ASSUME NEW m, MarketInv(m), NEW amount \in Nat
  PROVE  LET r == addReservesFresh(m, amount)
         IN  /\ MarketInv(r)
             /\ equity(r) = equity(m)
             /\ r.totalSupply = m.totalSupply
             /\ r.borrowIndex = m.borrowIndex
             /\ r.accrualBlockNumber = m.accrualBlockNumber
             /\ r.reduceReservesBlockNumber = m.reduceReservesBlockNumber
<1> DEFINE r == addReservesFresh(m, amount)
           c == m.cash + amount
           t == m.totalReserves + amount
<1>1. m \in Market /\ tokensConserved(m) /\ snapshotsReached(m)
  BY DEF MarketInv
<1>2. c \in Nat /\ t \in Nat
  BY <1>1 DEF Market
<1>3. r = [m EXCEPT !.cash = c, !.totalReserves = t]
  BY DEF addReservesFresh
<1> HIDE DEF r, c, t
<1>4. r \in Market
  BY <1>1, <1>2, <1>3, Zenon DEF Market
<1>5. /\ r.cash = c /\ r.totalSupply = m.totalSupply
      /\ r.accountTokens = m.accountTokens
      /\ r.totalBorrows = m.totalBorrows /\ r.totalReserves = t
      /\ r.principal = m.principal /\ r.interestIndex = m.interestIndex
      /\ r.borrowIndex = m.borrowIndex
      /\ r.accrualBlockNumber = m.accrualBlockNumber
      /\ r.reduceReservesBlockNumber = m.reduceReservesBlockNumber
  BY <1>1, <1>3 DEF Market
<1>6. equity(r) = equity(m)
  BY <1>1, <1>5 DEF equity, c, t, Market
<1>7. MarketInv(r)
  BY <1>1, <1>4, <1>5 DEF MarketInv, tokensConserved, snapshotsReached
<1> QED BY <1>5, <1>6, <1>7 DEF r

\* A donation is equity.
LEMMA DonateFacts ==
  ASSUME NEW m, MarketInv(m), NEW amount \in Nat
  PROVE  LET r == [m EXCEPT !.cash = @ + amount]
         IN  /\ MarketInv(r)
             /\ equity(r) = equity(m) + amount
             /\ r.totalSupply = m.totalSupply
             /\ r.borrowIndex = m.borrowIndex
             /\ r.accrualBlockNumber = m.accrualBlockNumber
             /\ r.reduceReservesBlockNumber = m.reduceReservesBlockNumber
<1> DEFINE c == m.cash + amount
           r == [m EXCEPT !.cash = c]
<1>1. m \in Market /\ tokensConserved(m) /\ snapshotsReached(m)
  BY DEF MarketInv
<1>2. c \in Nat
  BY <1>1 DEF Market
<1> HIDE DEF c
<1>3. r \in Market
  BY <1>1, <1>2, Zenon DEF Market
<1>4. /\ r.cash = c /\ r.totalSupply = m.totalSupply
      /\ r.accountTokens = m.accountTokens
      /\ r.totalBorrows = m.totalBorrows /\ r.totalReserves = m.totalReserves
      /\ r.principal = m.principal /\ r.interestIndex = m.interestIndex
      /\ r.borrowIndex = m.borrowIndex
      /\ r.accrualBlockNumber = m.accrualBlockNumber
      /\ r.reduceReservesBlockNumber = m.reduceReservesBlockNumber
  BY <1>1 DEF Market
<1> HIDE DEF r
<1>5. equity(r) = equity(m) + amount
  BY <1>1, <1>4 DEF equity, c, Market
<1>6. MarketInv(r)
  BY <1>1, <1>3, <1>4 DEF MarketInv, tokensConserved, snapshotsReached
<1> QED BY <1>4, <1>5, <1>6 DEF r, c

\* Setting the reserve factor or the sweep interval moves no money.
LEMMA SetterFacts ==
  ASSUME NEW m, MarketInv(m), NEW r,
         \/ \E f \in 0 .. expScale : r = [m EXCEPT !.reserveFactorMantissa = f]
         \/ \E d \in Nat : r = [m EXCEPT !.reduceReservesBlockDelta = d]
  PROVE  /\ MarketInv(r)
         /\ equity(r) = equity(m)
         /\ r.totalSupply = m.totalSupply
         /\ r.borrowIndex = m.borrowIndex
         /\ r.accrualBlockNumber = m.accrualBlockNumber
         /\ r.reduceReservesBlockNumber = m.reduceReservesBlockNumber
<1>1. m \in Market /\ tokensConserved(m) /\ snapshotsReached(m)
  BY DEF MarketInv
<1>2. r \in Market
  BY <1>1, Zenon DEF Market
<1>3. /\ r.cash = m.cash /\ r.totalSupply = m.totalSupply
      /\ r.accountTokens = m.accountTokens
      /\ r.totalBorrows = m.totalBorrows /\ r.totalReserves = m.totalReserves
      /\ r.principal = m.principal /\ r.interestIndex = m.interestIndex
      /\ r.borrowIndex = m.borrowIndex
      /\ r.accrualBlockNumber = m.accrualBlockNumber
      /\ r.reduceReservesBlockNumber = m.reduceReservesBlockNumber
  BY <1>1 DEF Market
<1>4. MarketInv(r)
  BY <1>1, <1>2, <1>3 DEF MarketInv, tokensConserved, snapshotsReached
<1> QED BY <1>3, <1>4 DEF equity
=============================================================================
