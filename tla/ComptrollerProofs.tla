------------------------- MODULE ComptrollerProofs -------------------------
(***************************************************************************)
(* The safety theorems of the comptroller, for every set of markets,       *)
(* accounts and pools, every oracle and every scale: who owes is counted,  *)
(* who may borrow cannot be liquidated, a market that was unlisted stays   *)
(* out of use, a pool only has the debts it allows, a liquidation never    *)
(* takes more than the incentive, and no call pushes an account that is    *)
(* within its limits more than one truncated unit beyond them.             *)
(***************************************************************************)
EXTENDS Comptroller, VTokenMarketProofs

(* The inductive invariant. *)

MarketsInv ==
  \A v \in VTokens : MarketInv(markets[v]) /\ Timely(markets[v], blockNumber)

\* Who may still borrow is below the threshold in every market of every pool.
FactorsOrdered ==
  \A pool \in Pools, v \in VTokens :
    _poolMarkets[pool][v].collateralFactorMantissa
      <= _poolMarkets[pool][v].liquidationThresholdMantissa

Inv == TypeOK /\ MarketsInv /\ PositionsCounted /\ FactorsOrdered /\ UnlistedStaysFrozen

-----------------------------------------------------------------------------
(* The list of markets an account has entered. *)

\* Appending a market that is not in the list.
LEMMA AppendAsset ==
  ASSUME NEW S, NEW s \in Seq(S), IsInjective(s), NEW v \in S, v \notin ToSet(s)
  PROVE  /\ Append(s, v) \in Seq(S) /\ IsInjective(Append(s, v))
         /\ ToSet(Append(s, v)) = ToSet(s) \cup {v}
<1> DEFINE r == Append(s, v)
           n == Len(s)
<1>1. /\ r \in Seq(S) /\ n \in Nat /\ DOMAIN s = 1 .. n /\ DOMAIN r = 1 .. n + 1
      /\ r[n + 1] = v /\ \A i \in 1 .. n : r[i] = s[i]
  OBVIOUS
<1> HIDE DEF r, n
<1>2. \A i \in 1 .. n : s[i] # v
  BY <1>1 DEF ToSet
<1>3. IsInjective(r)
  <2>1. SUFFICES ASSUME NEW i \in 1 .. n + 1, NEW j \in 1 .. n + 1, r[i] = r[j]
                 PROVE  i = j
    BY <1>1 DEF IsInjective
  <2>2. CASE i \in 1 .. n /\ j \in 1 .. n
    BY <1>1, <2>1, <2>2 DEF IsInjective
  <2>3. CASE ~(i \in 1 .. n /\ j \in 1 .. n)
    BY <1>1, <1>2, <2>1, <2>3
  <2> QED BY <2>2, <2>3
<1>4. ToSet(r) = ToSet(s) \cup {v}
  <2>1. ASSUME NEW x \in ToSet(r) PROVE x \in ToSet(s) \cup {v}
    <3>1. PICK i \in 1 .. n + 1 : x = r[i]
      BY <1>1, <2>1 DEF ToSet
    <3>2. CASE i = n + 1
      BY <1>1, <3>1, <3>2
    <3>3. CASE i \in 1 .. n
      BY <1>1, <3>1, <3>3 DEF ToSet
    <3> QED BY <1>1, <3>1, <3>2, <3>3
  <2>2. ASSUME NEW x \in ToSet(s) PROVE x \in ToSet(r)
    <3>1. PICK i \in 1 .. n : x = s[i]
      BY <1>1, <2>2 DEF ToSet
    <3> QED BY <1>1, <3>1 DEF ToSet
  <2>3. v \in ToSet(r)
    BY <1>1 DEF ToSet
  <2> QED BY <2>1, <2>2, <2>3
<1> QED BY <1>1, <1>3, <1>4 DEF r

\* Removing a market, whose place the last one takes.
LEMMA WithoutAsset ==
  ASSUME NEW S, NEW s \in Seq(S), IsInjective(s), NEW v \in ToSet(s)
  PROVE  /\ withoutAsset(s, v) \in Seq(S) /\ IsInjective(withoutAsset(s, v))
         /\ ToSet(withoutAsset(s, v)) = ToSet(s) \ {v}
<1> DEFINE n == Len(s)
           k == CHOOSE j \in DOMAIN s : s[j] = v
           t == [s EXCEPT ![k] = s[n]]
           r == SubSeq(t, 1, n - 1)
<1>1. n \in Nat /\ DOMAIN s = 1 .. n /\ \A i \in 1 .. n : s[i] \in S
  OBVIOUS
<1>2. k \in 1 .. n /\ s[k] = v
  <2>1. \E j \in DOMAIN s : s[j] = v
    BY DEF ToSet
  <2> QED BY <1>1, <2>1
<1>3. withoutAsset(s, v) = r
  BY DEF withoutAsset
<1> HIDE DEF k
<1>4. t \in Seq(S) /\ Len(t) = n /\ \A i \in 1 .. n : t[i] = IF i = k THEN s[n] ELSE s[i]
  BY <1>1, <1>2
<1> HIDE DEF t
<1>5. /\ r \in Seq(S) /\ DOMAIN r = 1 .. n - 1
      /\ \A i \in 1 .. n - 1 : r[i] = IF i = k THEN s[n] ELSE s[i]
  BY <1>1, <1>2, <1>4
<1> HIDE DEF r, n
<1>6. \A i \in 1 .. n, j \in 1 .. n : s[i] = s[j] => i = j
  BY <1>1 DEF IsInjective
<1>7. IsInjective(r)
  <2>1. SUFFICES ASSUME NEW i \in 1 .. n - 1, NEW j \in 1 .. n - 1, r[i] = r[j]
                 PROVE  i = j
    BY <1>5 DEF IsInjective
  <2> QED BY <1>1, <1>2, <1>5, <1>6, <2>1
<1>8. ToSet(r) = ToSet(s) \ {v}
  <2>1. ASSUME NEW x \in ToSet(r) PROVE x \in ToSet(s) \ {v}
    <3>1. PICK i \in 1 .. n - 1 : x = r[i]
      BY <1>5, <2>1 DEF ToSet
    <3>2. PICK j \in 1 .. n : j # k /\ x = s[j]
      BY <1>1, <1>2, <1>5, <3>1
    <3> QED BY <1>1, <1>2, <1>6, <3>2 DEF ToSet
  <2>2. ASSUME NEW x \in ToSet(s) \ {v} PROVE x \in ToSet(r)
    <3>1. PICK j \in 1 .. n : x = s[j]
      BY <1>1, <2>2 DEF ToSet
    <3>2. j # k
      BY <1>2, <2>2, <3>1
    <3>3. CASE j = n
      <4>1. k \in 1 .. n - 1 /\ r[k] = x
        BY <1>1, <1>2, <1>5, <3>1, <3>2, <3>3
      <4> QED BY <1>5, <4>1 DEF ToSet
    <3>4. CASE j # n
      <4>1. j \in 1 .. n - 1 /\ r[j] = x
        BY <1>1, <1>5, <3>1, <3>2, <3>4
      <4> QED BY <1>5, <4>1 DEF ToSet
    <3> QED BY <3>3, <3>4
  <2> QED BY <2>1, <2>2
<1> QED BY <1>3, <1>5, <1>7, <1>8

-----------------------------------------------------------------------------
(* What the operators on a market do to the tokens and debts of accounts. *)

SameDebts(n, m) == n.principal = m.principal /\ n.interestIndex = m.interestIndex

\* Nobody has fewer tokens.
TokensKept(n, m) == \A a \in Accounts : n.accountTokens[a] >= m.accountTokens[a]

\* Who owes has owed before.
NoNewDebtor(n, m) == \A a \in Accounts : n.principal[a] > 0 => m.principal[a] > 0

\* The types of the fields of a market.
LEMMA MarketFields ==
  ASSUME NEW m \in Market
  PROVE  /\ m.cash \in Nat /\ m.totalBorrows \in Nat /\ m.totalReserves \in Nat
         /\ m.totalSupply \in Nat /\ m.borrowIndex \in Nat
         /\ m.accountTokens \in [Accounts -> Nat]
         /\ m.principal \in [Accounts -> Nat] /\ m.interestIndex \in [Accounts -> Nat]
  BY DEF Market

\* Tokens and debts as stored do not change by an accrual.
LEMMA AccrueKeeps ==
  ASSUME NEW m, MarketInv(m), NEW rate \in Nat, NEW block \in Nat, Timely(m, block)
  PROVE  LET r == accrueInterest(m, rate, block)
         IN  SameDebts(r, m) /\ r.accountTokens = m.accountTokens
<1> DEFINE s == withInterest(m, rate, block)
           r == withReservesReduced(s, block)
<1>1. m \in Market /\ m.accrualBlockNumber <= block
  BY DEF MarketInv, Timely
<1>2. s \in Market
  BY <1>1, WithInterestFacts DEF MarketInv
<1>3. SameDebts(s, m) /\ s.accountTokens = m.accountTokens
  BY <1>1 DEF withInterest, SameDebts, Market
<1> HIDE DEF s
<1>4. SameDebts(r, s) /\ r.accountTokens = s.accountTokens
  <2> DEFINE q == [s EXCEPT !.reduceReservesBlockNumber = block]
             amount == IF s.cash < s.totalReserves THEN s.cash ELSE s.totalReserves
  <2>1. q \in Market
    BY <1>2, Zenon DEF Market
  <2>2. SameDebts(q, s) /\ q.accountTokens = s.accountTokens
    BY <1>2 DEF SameDebts, Market
  <2>3. r = s \/ r = reduceReservesFresh(q, amount)
    BY DEF withReservesReduced
  <2> HIDE DEF q, amount, r
  <2>4. /\ SameDebts(reduceReservesFresh(q, amount), q)
        /\ reduceReservesFresh(q, amount).accountTokens = q.accountTokens
    BY <2>1 DEF reduceReservesFresh, SameDebts, Market
  <2> QED BY <2>2, <2>3, <2>4 DEF SameDebts
<1>5. accrueInterest(m, rate, block) = m \/ accrueInterest(m, rate, block) = r
  BY DEF accrueInterest, s
<1> HIDE DEF r
<1> QED BY <1>3, <1>4, <1>5 DEF SameDebts

\* Minting leaves every debt alone and takes no vTokens from anybody.
LEMMA MintKeeps ==
  ASSUME NEW m, MarketInv(m), canMint(m), NEW minter \in Accounts, NEW amount \in Nat
  PROVE  LET r == mintFresh(m, minter, amount)
         IN  SameDebts(r, m) /\ TokensKept(r, m)
<1> DEFINE t == mintTokensFor(m, amount)
           r == mintFresh(m, minter, amount)
<1>1. m \in Market /\ t \in Nat
  BY MintFacts DEF MarketInv
<1>2. m.accountTokens \in [Accounts -> Nat]
  BY <1>1, MarketFields
<1> HIDE DEF t
<1>3. /\ r.principal = m.principal /\ r.interestIndex = m.interestIndex
      /\ r.accountTokens = [m.accountTokens EXCEPT ![minter] = @ + t]
  BY <1>1 DEF mintFresh, t, Market
<1> HIDE DEF r
<1>4. TokensKept(r, m)
  BY <1>1, <1>2, <1>3 DEF TokensKept
<1> QED BY <1>3, <1>4 DEF SameDebts, r

\* Redeeming leaves every debt alone.
LEMMA RedeemKeeps ==
  ASSUME NEW m \in Market, NEW redeemer, NEW tokens, NEW amount
  PROVE  SameDebts(redeemFresh(m, redeemer, tokens, amount), m)
  BY DEF redeemFresh, SameDebts, Market

\* Moving vTokens leaves every debt alone and takes them from the sender only.
LEMMA MoveKeeps ==
  ASSUME NEW m \in Market, NEW src \in Accounts, NEW dst \in Accounts, src # dst,
         NEW tokens \in Nat
  PROVE  LET r == moveTokens(m, src, dst, tokens)
         IN  /\ SameDebts(r, m)
             /\ \A a \in Accounts \ {src} : r.accountTokens[a] >= m.accountTokens[a]
             /\ r.accountTokens[src] = m.accountTokens[src] - tokens
<1> DEFINE r == moveTokens(m, src, dst, tokens)
<1>1. m.accountTokens \in [Accounts -> Nat]
  BY MarketFields
<1>2. /\ r.principal = m.principal /\ r.interestIndex = m.interestIndex
      /\ r.accountTokens = [m.accountTokens EXCEPT ![src] = m.accountTokens[src] - tokens,
                                                   ![dst] = m.accountTokens[dst] + tokens]
  BY DEF moveTokens, Market
<1> HIDE DEF r
<1>3. /\ r.accountTokens[src] = m.accountTokens[src] - tokens
      /\ \A a \in Accounts \ {src} : r.accountTokens[a] >= m.accountTokens[a]
  BY <1>1, <1>2
<1> QED BY <1>2, <1>3 DEF SameDebts, r

\* A borrow changes the debt of the borrower alone.
LEMMA BorrowKeeps ==
  ASSUME NEW m \in Market, NEW borrower \in Accounts, NEW amount
  PROVE  LET r == borrowFresh(m, borrower, amount)
         IN  /\ r.accountTokens = m.accountTokens
             /\ \A a \in Accounts \ {borrower} : /\ r.principal[a] = m.principal[a]
                                                 /\ r.interestIndex[a] = m.interestIndex[a]
             /\ r.principal[borrower] = borrowBalanceStored(m, borrower) + amount
             /\ r.interestIndex[borrower] = m.borrowIndex
<1> DEFINE r == borrowFresh(m, borrower, amount)
           p == borrowBalanceStored(m, borrower) + amount
<1>1. m.principal \in [Accounts -> Nat] /\ m.interestIndex \in [Accounts -> Nat]
  BY MarketFields
<1> HIDE DEF p
<1>2. /\ r.accountTokens = m.accountTokens
      /\ r.principal = [m.principal EXCEPT ![borrower] = p]
      /\ r.interestIndex = [m.interestIndex EXCEPT ![borrower] = m.borrowIndex]
  BY DEF borrowFresh, p, Market
<1> HIDE DEF r
<1>3. /\ \A a \in Accounts \ {borrower} : /\ r.principal[a] = m.principal[a]
                                          /\ r.interestIndex[a] = m.interestIndex[a]
      /\ r.principal[borrower] = p /\ r.interestIndex[borrower] = m.borrowIndex
  BY <1>1, <1>2
<1> QED BY <1>2, <1>3 DEF r, p

\* A repayment settles the debt of the borrower at the present index.
LEMMA RepayKeeps ==
  ASSUME NEW m, MarketInv(m), NEW borrower \in Accounts, NEW amount \in Nat,
         canRepay(m, borrower, amount)
  PROVE  LET r == repayBorrowFresh(m, borrower, amount)
         IN  /\ r.accountTokens = m.accountTokens
             /\ NoNewDebtor(r, m)
             /\ \A a \in Accounts \ {borrower} : /\ r.principal[a] = m.principal[a]
                                                 /\ r.interestIndex[a] = m.interestIndex[a]
             /\ r.principal[borrower] = borrowBalanceStored(m, borrower) - amount
             /\ r.interestIndex[borrower] = m.borrowIndex
<1> DEFINE r == repayBorrowFresh(m, borrower, amount)
           b == borrowBalanceStored(m, borrower)
<1>1. m \in Market /\ b \in Nat /\ amount <= b
  BY BorrowBalanceType DEF MarketInv, canRepay
<1>2. m.principal \in [Accounts -> Nat] /\ m.interestIndex \in [Accounts -> Nat]
  BY <1>1, MarketFields
<1>3. m.principal[borrower] = 0 => b = 0
  BY DEF borrowBalanceStored
<1> HIDE DEF b
<1>4. /\ r.accountTokens = m.accountTokens
      /\ r.principal = [m.principal EXCEPT ![borrower] = b - amount]
      /\ r.interestIndex = [m.interestIndex EXCEPT ![borrower] = m.borrowIndex]
  BY <1>1 DEF repayBorrowFresh, b, Market
<1> HIDE DEF r
<1>5. NoNewDebtor(r, m)
  <2>1. SUFFICES ASSUME NEW a \in Accounts, r.principal[a] > 0
                 PROVE  m.principal[a] > 0
    BY DEF NoNewDebtor
  <2>2. CASE a = borrower
    BY <1>1, <1>2, <1>3, <1>4, <2>1, <2>2
  <2>3. CASE a # borrower
    BY <1>2, <1>4, <2>1, <2>3
  <2> QED BY <2>2, <2>3
<1>6. /\ r.principal[borrower] = b - amount /\ r.interestIndex[borrower] = m.borrowIndex
      /\ \A a \in Accounts \ {borrower} : /\ r.principal[a] = m.principal[a]
                                          /\ r.interestIndex[a] = m.interestIndex[a]
  BY <1>2, <1>4
<1> QED BY <1>4, <1>5, <1>6 DEF r, b

\* Who owes anything at all owes at least the principal, so that a balance of
\* 0 means that there is no debt.
LEMMA DebtVisible ==
  ASSUME NEW m, MarketInv(m), NEW a \in Accounts, borrowBalanceStored(m, a) = 0
  PROVE  m.principal[a] = 0
<1> DEFINE p == m.principal[a]
           i == m.interestIndex[a]
           I == m.borrowIndex
<1>1. p \in Nat /\ i \in Nat /\ I \in Nat /\ expScale \in Nat \ {0}
  BY MarketFields, ExpScaleAssumption DEF MarketInv
<1>2. p > 0 => expScale <= i /\ i <= I
  BY <1>1 DEF MarketInv, snapshotsReached
<1>3. p # 0 => (p * I) \div i = 0
  BY DEF borrowBalanceStored
<1> HIDE DEF p, i, I
<1>4. SUFFICES ASSUME p > 0 PROVE FALSE
  BY <1>1 DEF p
<1>5. i \in Nat \ {0} /\ i <= I
  BY <1>1, <1>2, <1>4
<1>6. p * I \in Nat /\ p * I < i
  <2>1. p * I \in Nat
    BY <1>1
  <2> DEFINE x == p * I
  <2> HIDE DEF x
  <2>2. x \in Nat => x < (x \div i) * i + i
    BY <1>5, DivBounds
  <2>3. x \div i = 0
    BY <1>3, <1>4 DEF x
  <2> QED BY <1>5, <2>1, <2>2, <2>3 DEF x
<1>7. p * I >= I
  <2>1. 1 * I <= p * I
    BY <1>1, <1>4, MulMonotone
  <2> QED BY <1>1, <2>1
<1> QED BY <1>1, <1>5, <1>6, <1>7

-----------------------------------------------------------------------------
(* What a step does to the invariant, to the debts of a pool and to those  *)
(* who could be liquidated.                                                *)

\* Every debt that a step leaves was there in the same pool, or its pool lets
\* the account borrow in the market.
DebtsPlaced ==
  \A a \in Accounts, v \in VTokens :
    markets'[v].principal[a] > 0 =>
      \/ markets[v].principal[a] > 0 /\ userPoolId'[a] = userPoolId[a]
      \/ _poolMarkets[userPoolId'[a]][v].isBorrowAllowed

\* Nobody loses tokens, or no debt is paid.
NobodyLiquidated ==
  \/ \A v \in VTokens : TokensKept(markets'[v], markets[v])
  \/ \A v \in VTokens : SameDebts(markets'[v], markets[v])

StepOK == Inv' /\ DebtsPlaced /\ NobodyLiquidated

\* A market before a call.
LEMMA MarketBefore ==
  ASSUME Inv, NEW v \in VTokens
  PROVE  /\ MarketInv(markets[v]) /\ Timely(markets[v], blockNumber)
         /\ markets[v] \in Market /\ blockNumber \in Nat
         /\ markets \in [VTokens -> Market]
  BY DEF Inv, TypeOK, MarketsInv

\* A market that has accrued its interest in this block.
LEMMA AccruedMarket ==
  ASSUME Inv, NEW v \in VTokens, NEW m \in Accrued(v)
  PROVE  /\ MarketInv(m) /\ Timely(m, blockNumber)
         /\ SameDebts(m, markets[v]) /\ m.accountTokens = markets[v].accountTokens
         /\ TokensKept(m, markets[v])
         /\ m.totalSupply = markets[v].totalSupply
<1>1. PICK rate \in BorrowRates : m = accrueInterest(markets[v], rate, blockNumber)
  BY DEF Accrued
<1>2. rate \in Nat
  BY ComptrollerAssumption
<1>3. /\ MarketInv(m) /\ Timely(m, blockNumber)
      /\ m.totalSupply = markets[v].totalSupply
  BY <1>1, <1>2, MarketBefore, AccrueInterestFacts
<1>4. SameDebts(m, markets[v]) /\ m.accountTokens = markets[v].accountTokens
  BY <1>1, <1>2, MarketBefore, AccrueKeeps
<1>5. TokensKept(m, markets[v])
  <2>1. markets[v].accountTokens \in [Accounts -> Nat]
    BY MarketBefore, MarketFields
  <2> QED BY <1>4, <2>1 DEF TokensKept
<1> QED BY <1>3, <1>4, <1>5

\* The invariant after a step of the markets and of who has entered them.
LEMMA MarketsStep ==
  ASSUME Inv, markets' \in [VTokens -> Market],
         \A v \in VTokens : MarketInv(markets'[v]) /\ Timely(markets'[v], blockNumber),
         accountMembership' \in [VTokens -> SUBSET Accounts],
         accountAssets' \in [Accounts -> Seq(VTokens)],
         AssetsMatchMembership',
         \A v \in VTokens, a \in Accounts :
           markets'[v].principal[a] > 0 => a \in accountMembership'[v],
         UNCHANGED <<userPoolId, poolVars, settingVars, environmentVars>>
  PROVE  Inv'
<1>1. TypeOK'
  BY DEF Inv, TypeOK, poolVars, settingVars, environmentVars
<1>2. MarketsInv'
  BY DEF MarketsInv, environmentVars
<1>3. PositionsCounted'
  BY DEF PositionsCounted, BorrowersAreMembers
<1>4. FactorsOrdered' /\ UnlistedStaysFrozen'
  BY DEF Inv, FactorsOrdered, UnlistedStaysFrozen, isListed, poolVars, settingVars
<1> QED BY <1>1, <1>2, <1>3, <1>4 DEF Inv

\* A call in one market that makes no new debtor.
LEMMA OneMarketStep ==
  ASSUME Inv, NEW v \in VTokens, NEW n, MarketInv(n), Timely(n, blockNumber),
         markets' = [markets EXCEPT ![v] = n], NoNewDebtor(n, markets[v]),
         TokensKept(n, markets[v]) \/ SameDebts(n, markets[v]),
         UNCHANGED <<membershipVars, poolVars, settingVars, environmentVars>>
  PROVE  StepOK
<1>1. /\ markets \in [VTokens -> Market] /\ n \in Market
      /\ markets' \in [VTokens -> Market] /\ markets'[v] = n
      /\ \A w \in VTokens \ {v} : markets'[w] = markets[w]
  BY MarketBefore DEF MarketInv
<1>2. \A w \in VTokens : MarketInv(markets'[w]) /\ Timely(markets'[w], blockNumber)
  BY <1>1, MarketBefore
<1>3. \A w \in VTokens : NoNewDebtor(markets'[w], markets[w])
  BY <1>1 DEF NoNewDebtor
<1>4. UNCHANGED <<accountMembership, accountAssets, userPoolId>>
  BY DEF membershipVars
<1>5. AssetsMatchMembership'
  BY <1>4 DEF Inv, PositionsCounted, AssetsMatchMembership
<1>6. \A w \in VTokens, a \in Accounts :
        markets'[w].principal[a] > 0 => a \in accountMembership'[w]
  BY <1>3, <1>4 DEF Inv, PositionsCounted, BorrowersAreMembers, NoNewDebtor
<1>7. Inv'
  BY <1>1, <1>2, <1>4, <1>5, <1>6, MarketsStep DEF Inv, TypeOK
<1>8. DebtsPlaced
  BY <1>3, <1>4 DEF DebtsPlaced, NoNewDebtor
<1>9. NobodyLiquidated
  <2>1. \A w \in VTokens \ {v} : SameDebts(markets'[w], markets[w])
    BY <1>1 DEF SameDebts
  <2>2. \A w \in VTokens \ {v} : TokensKept(markets'[w], markets[w])
    <3>1. SUFFICES ASSUME NEW w \in VTokens \ {v}
                   PROVE  TokensKept(markets[w], markets[w])
      BY <1>1
    <3>2. markets[w].accountTokens \in [Accounts -> Nat]
      BY MarketBefore, MarketFields
    <3> QED BY <3>2 DEF TokensKept
  <2> QED BY <1>1, <2>1, <2>2 DEF NobodyLiquidated
<1> QED BY <1>7, <1>8, <1>9 DEF StepOK

\* The counters of a market that only moves amounts.
LEMMA StillTimely ==
  ASSUME NEW n, NEW m, Timely(m, blockNumber),
         n.accrualBlockNumber = m.accrualBlockNumber,
         n.reduceReservesBlockNumber = m.reduceReservesBlockNumber
  PROVE  Timely(n, blockNumber)
  BY DEF Timely

\* Where no debt changes there is no new debtor.
LEMMA SameDebtor ==
  ASSUME NEW n, NEW m, SameDebts(n, m)
  PROVE  NoNewDebtor(n, m)
  BY DEF SameDebts, NoNewDebtor

\* The step of accrueInterest.
LEMMA AccrueInterestStep ==
  ASSUME Inv, NEW v \in VTokens, AccrueInterest(v)
  PROVE  StepOK
<1>1. PICK m \in Accrued(v) : markets' = [markets EXCEPT ![v] = m]
  BY DEF AccrueInterest
<1>2. UNCHANGED <<membershipVars, poolVars, settingVars, environmentVars>>
  BY DEF AccrueInterest
<1>3. NoNewDebtor(m, markets[v])
  BY AccruedMarket, SameDebtor
<1> QED BY <1>1, <1>2, <1>3, AccruedMarket, OneMarketStep

\* The step of mint.
LEMMA MintStep ==
  ASSUME Inv, NEW minter \in Accounts, NEW v \in VTokens, NEW amount \in Amounts,
         Mint(minter, v, amount)
  PROVE  StepOK
<1>1. PICK m \in Accrued(v) :
        /\ canMint(m)
        /\ markets' = [[markets EXCEPT ![v] = m] EXCEPT ![v] = mintFresh(m, minter, amount)]
        /\ UNCHANGED <<membershipVars, poolVars, settingVars, environmentVars>>
  BY DEF Mint
<1>2. amount \in Nat
  BY ComptrollerAssumption
<1> DEFINE n == mintFresh(m, minter, amount)
<1>3. MarketInv(n) /\ n.accrualBlockNumber = m.accrualBlockNumber
        /\ n.reduceReservesBlockNumber = m.reduceReservesBlockNumber
  BY <1>1, <1>2, AccruedMarket, MintFacts
<1>4. SameDebts(n, m) /\ TokensKept(n, m)
  BY <1>1, <1>2, AccruedMarket, MintKeeps
<1>5. markets' = [markets EXCEPT ![v] = n]
  BY <1>1, MarketBefore
<1> HIDE DEF n
<1>6. /\ SameDebts(m, markets[v]) /\ m.accountTokens = markets[v].accountTokens
      /\ Timely(m, blockNumber)
  BY AccruedMarket
<1>7. NoNewDebtor(n, markets[v]) /\ TokensKept(n, markets[v])
  BY <1>4, <1>6 DEF SameDebts, NoNewDebtor, TokensKept
<1>8. Timely(n, blockNumber)
  BY <1>3, <1>6, StillTimely
<1> QED BY <1>1, <1>3, <1>5, <1>7, <1>8, OneMarketStep

\* Both ways to redeem.
LEMMA RedeemStep ==
  ASSUME Inv, NEW redeemer \in Accounts, NEW v \in VTokens, NEW m \in Accrued(v),
         NEW tokens \in Nat, NEW amount \in Nat,
         redeemsFrom([markets EXCEPT ![v] = m], v, redeemer, tokens, amount),
         UNCHANGED <<membershipVars, poolVars, settingVars, environmentVars>>
  PROVE  StepOK
<1> DEFINE n == redeemFresh(m, redeemer, tokens, amount)
<1>1. canRedeem(m, redeemer, tokens, amount) /\ markets' = [markets EXCEPT ![v] = n]
  BY MarketBefore DEF redeemsFrom
<1>2. MarketInv(n) /\ n.accrualBlockNumber = m.accrualBlockNumber
        /\ n.reduceReservesBlockNumber = m.reduceReservesBlockNumber
  BY <1>1, AccruedMarket, RedeemFacts
<1>3. SameDebts(n, m)
  BY AccruedMarket, RedeemKeeps DEF MarketInv
<1> HIDE DEF n
<1>4. SameDebts(m, markets[v]) /\ Timely(m, blockNumber)
  BY AccruedMarket
<1>5. SameDebts(n, markets[v])
  BY <1>3, <1>4 DEF SameDebts
<1>6. NoNewDebtor(n, markets[v]) /\ Timely(n, blockNumber)
  BY <1>2, <1>4, <1>5, SameDebtor, StillTimely
<1> QED BY <1>1, <1>2, <1>5, <1>6, OneMarketStep

\* The steps of redeem and redeemUnderlying.
LEMMA RedeemSteps ==
  ASSUME Inv, NEW redeemer \in Accounts, NEW v \in VTokens, NEW n \in Amounts,
         Redeem(redeemer, v, n) \/ RedeemUnderlying(redeemer, v, n)
  PROVE  StepOK
<1>1. n \in Nat
  BY ComptrollerAssumption
<1>2. CASE Redeem(redeemer, v, n)
  <2>1. PICK m \in Accrued(v) :
          redeemsFrom([markets EXCEPT ![v] = m], v, redeemer, n, redeemAmountFor(m, n))
    BY <1>2 DEF Redeem
  <2>2. m \in Market /\ exchangeRateDefined(m)
    BY <2>1, AccruedMarket, MarketBefore DEF redeemsFrom, canRedeem, MarketInv
  <2>3. redeemAmountFor(m, n) \in Nat
    BY <1>1, <2>2, ExchangeRateFacts, MulScalarBounds DEF redeemAmountFor
  <2>4. UNCHANGED <<membershipVars, poolVars, settingVars, environmentVars>>
    BY <1>2 DEF Redeem
  <2> QED BY <1>1, <2>1, <2>3, <2>4, RedeemStep
<1>3. CASE RedeemUnderlying(redeemer, v, n)
  <2>1. PICK m \in Accrued(v) :
          /\ exchangeRateDefined(m) /\ exchangeRateStored(m) > 0
          /\ redeemsFrom([markets EXCEPT ![v] = m], v, redeemer, redeemTokensFor(m, n), n)
    BY <1>3 DEF RedeemUnderlying
  <2>2. exchangeRateStored(m) \in Nat \ {0}
    BY <2>1, AccruedMarket, ExchangeRateFacts DEF MarketInv
  <2>3. redeemTokensFor(m, n) \in Nat
    BY <1>1, <2>2, DivScalarBounds DEF redeemTokensFor
  <2>4. UNCHANGED <<membershipVars, poolVars, settingVars, environmentVars>>
    BY <1>3 DEF RedeemUnderlying
  <2> QED BY <1>1, <2>1, <2>3, <2>4, RedeemStep
<1> QED BY <1>2, <1>3

\* The step of repayBorrow.
LEMMA RepayStep ==
  ASSUME Inv, NEW borrower \in Accounts, NEW v \in VTokens, NEW amount \in Amounts,
         RepayBorrow(borrower, v, amount)
  PROVE  StepOK
<1>1. PICK m \in Accrued(v) :
        /\ canRepay(m, borrower, amount)
        /\ markets' = [markets EXCEPT ![v] = repayBorrowFresh(m, borrower, amount)]
  BY DEF RepayBorrow
<1>2. amount \in Nat
  BY ComptrollerAssumption
<1> DEFINE n == repayBorrowFresh(m, borrower, amount)
<1>3. MarketInv(n) /\ n.accrualBlockNumber = m.accrualBlockNumber
        /\ n.reduceReservesBlockNumber = m.reduceReservesBlockNumber
  BY <1>1, <1>2, AccruedMarket, RepayFacts
<1>4. n.accountTokens = m.accountTokens /\ NoNewDebtor(n, m)
  BY <1>1, <1>2, AccruedMarket, RepayKeeps
<1> HIDE DEF n
<1>5. /\ SameDebts(m, markets[v]) /\ TokensKept(m, markets[v]) /\ Timely(m, blockNumber)
  BY AccruedMarket
<1>6. NoNewDebtor(n, markets[v]) /\ TokensKept(n, markets[v])
  BY <1>4, <1>5 DEF SameDebts, NoNewDebtor, TokensKept
<1>7. Timely(n, blockNumber)
  BY <1>3, <1>5, StillTimely
<1>8. UNCHANGED <<membershipVars, poolVars, settingVars, environmentVars>>
  BY DEF RepayBorrow
<1>9. markets' = [markets EXCEPT ![v] = n]
  BY <1>1 DEF n
<1> QED BY <1>3, <1>6, <1>7, <1>8, <1>9, OneMarketStep

\* The step of transfer.
LEMMA TransferStep ==
  ASSUME Inv, NEW src \in Accounts, NEW dst \in Accounts, NEW v \in VTokens,
         NEW tokens \in Amounts, Transfer(src, dst, v, tokens)
  PROVE  StepOK
<1> DEFINE m == markets[v]
           n == moveTokens(m, src, dst, tokens)
<1>1. /\ canMove(m, src, dst, tokens) /\ markets' = [markets EXCEPT ![v] = n]
      /\ UNCHANGED <<membershipVars, poolVars, settingVars, environmentVars>>
  BY DEF Transfer
<1>2. tokens \in Nat
  BY ComptrollerAssumption
<1>3. MarketInv(n) /\ n.accrualBlockNumber = m.accrualBlockNumber
        /\ n.reduceReservesBlockNumber = m.reduceReservesBlockNumber
  BY <1>1, <1>2, MarketBefore, MoveFacts
<1>4. SameDebts(n, m)
  BY <1>1, <1>2, MarketBefore, MoveKeeps DEF canMove
<1> HIDE DEF n
<1>5. NoNewDebtor(n, m) /\ Timely(n, blockNumber)
  BY <1>3, <1>4, MarketBefore, SameDebtor, StillTimely
<1> QED BY <1>1, <1>3, <1>4, <1>5, OneMarketStep

\* A borrow, which enters the market for the borrower when necessary.
LEMMA BorrowStep ==
  ASSUME Inv, NEW borrower \in Accounts, NEW v \in VTokens, NEW amount \in Amounts,
         Borrow(borrower, v, amount)
  PROVE  StepOK
<1> DEFINE assets == IF borrower \in accountMembership[v]
                       THEN accountAssets[borrower]
                       ELSE Append(accountAssets[borrower], v)
<1>1. PICK m \in Accrued(v) :
        /\ borrowAllowed([markets EXCEPT ![v] = m], assets, v, borrower, amount)
        /\ canBorrow(m, amount)
        /\ markets' = [[markets EXCEPT ![v] = m] EXCEPT ![v] = borrowFresh(m, borrower, amount)]
        /\ accountMembership' = [accountMembership EXCEPT ![v] = @ \cup {borrower}]
        /\ accountAssets' = [accountAssets EXCEPT ![borrower] = assets]
  BY DEF Borrow
<1>2. UNCHANGED <<userPoolId, poolVars, settingVars, environmentVars>> /\ amount \in Nat
  BY ComptrollerAssumption DEF Borrow
<1> DEFINE n == borrowFresh(m, borrower, amount)
<1>3. MarketInv(n) /\ n.accrualBlockNumber = m.accrualBlockNumber
        /\ n.reduceReservesBlockNumber = m.reduceReservesBlockNumber
  BY <1>1, <1>2, AccruedMarket, BorrowFacts
<1>4. /\ n.accountTokens = m.accountTokens
      /\ \A a \in Accounts \ {borrower} : n.principal[a] = m.principal[a]
  BY AccruedMarket, BorrowKeeps DEF MarketInv
<1>5. markets' = [markets EXCEPT ![v] = n] /\ markets \in [VTokens -> Market]
  BY <1>1, MarketBefore
<1>6. _poolMarkets[userPoolId[borrower]][v].isBorrowAllowed
  BY <1>1 DEF borrowAllowed, poolBorrowAllowed
<1> HIDE DEF n
<1>7. SameDebts(m, markets[v]) /\ TokensKept(m, markets[v]) /\ Timely(m, blockNumber)
  BY AccruedMarket
<1>8. n \in Market /\ Timely(n, blockNumber)
  BY <1>3, <1>7, StillTimely DEF MarketInv
<1>9. /\ markets' \in [VTokens -> Market] /\ markets'[v] = n
      /\ \A w \in VTokens \ {v} : markets'[w] = markets[w]
  BY <1>5, <1>8
<1>10. \A w \in VTokens, a \in Accounts :
         markets'[w].principal[a] > 0 =>
           markets[w].principal[a] > 0 \/ (w = v /\ a = borrower)
  BY <1>4, <1>7, <1>9 DEF SameDebts
<1>11. /\ accountMembership \in [VTokens -> SUBSET Accounts]
       /\ accountAssets \in [Accounts -> Seq(VTokens)]
       /\ AssetsMatchMembership
  BY DEF Inv, TypeOK, PositionsCounted
<1>12. /\ assets \in Seq(VTokens) /\ IsInjective(assets)
       /\ ToSet(assets) = ToSet(accountAssets[borrower]) \cup {v}
  <2> DEFINE s == accountAssets[borrower]
  <2>1. /\ s \in Seq(VTokens) /\ IsInjective(s)
        /\ ToSet(s) = {w \in VTokens : borrower \in accountMembership[w]}
    BY <1>11 DEF AssetsMatchMembership
  <2> HIDE DEF s
  <2>2. CASE borrower \in accountMembership[v]
    BY <2>1, <2>2 DEF s
  <2>3. CASE borrower \notin accountMembership[v]
    <3>1. v \notin ToSet(s)
      BY <2>1, <2>3
    <3>2. assets = Append(s, v)
      BY <2>3 DEF s
    <3> HIDE DEF assets
    <3> QED BY <2>1, <3>1, <3>2, AppendAsset DEF s
  <2> QED BY <2>2, <2>3
<1> HIDE DEF assets
<1>13. /\ accountMembership' \in [VTokens -> SUBSET Accounts]
       /\ accountAssets' \in [Accounts -> Seq(VTokens)]
  BY <1>1, <1>11, <1>12
<1>14. \A w \in VTokens, a \in Accounts :
         a \in accountMembership'[w]
           <=> a \in accountMembership[w] \/ (w = v /\ a = borrower)
  BY <1>1, <1>11
<1>15. AssetsMatchMembership'
  <2>1. SUFFICES ASSUME NEW a \in Accounts
                 PROVE  /\ ToSet(accountAssets'[a])
                             = {w \in VTokens : a \in accountMembership'[w]}
                        /\ IsInjective(accountAssets'[a])
    BY DEF AssetsMatchMembership
  <2>2. /\ ToSet(accountAssets[a]) = {w \in VTokens : a \in accountMembership[w]}
        /\ IsInjective(accountAssets[a])
    BY <1>11 DEF AssetsMatchMembership
  <2>3. CASE a = borrower
    <3>1. accountAssets'[a] = assets
      BY <1>1, <1>11, <2>3
    <3>2. ToSet(accountAssets[a]) \cup {v} = {w \in VTokens : a \in accountMembership'[w]}
      BY <1>14, <2>2, <2>3
    <3> QED BY <1>12, <2>3, <3>1, <3>2
  <2>4. CASE a # borrower
    <3>1. accountAssets'[a] = accountAssets[a]
      BY <1>1, <1>11, <2>4
    <3>2. {w \in VTokens : a \in accountMembership[w]}
            = {w \in VTokens : a \in accountMembership'[w]}
      BY <1>14, <2>4
    <3> QED BY <2>2, <3>1, <3>2
  <2> QED BY <2>3, <2>4
<1>16. \A w \in VTokens, a \in Accounts :
         markets'[w].principal[a] > 0 => a \in accountMembership'[w]
  BY <1>10, <1>14 DEF Inv, PositionsCounted, BorrowersAreMembers
<1>17. Inv'
  <2>1. \A w \in VTokens : MarketInv(markets'[w]) /\ Timely(markets'[w], blockNumber)
    BY <1>3, <1>8, <1>9, MarketBefore
  <2> QED BY <1>2, <1>9, <1>13, <1>15, <1>16, <2>1, MarketsStep
<1>18. DebtsPlaced
  BY <1>2, <1>6, <1>10 DEF DebtsPlaced
<1>19. NobodyLiquidated
  <2>1. \A w \in VTokens : TokensKept(markets'[w], markets[w])
    <3>1. TokensKept(n, markets[v])
      BY <1>4, <1>7 DEF TokensKept
    <3>2. ASSUME NEW w \in VTokens PROVE TokensKept(markets[w], markets[w])
      <4>1. markets[w].accountTokens \in [Accounts -> Nat]
        BY MarketBefore, MarketFields
      <4> QED BY <4>1 DEF TokensKept
    <3> QED BY <1>9, <3>1, <3>2
  <2> QED BY <2>1 DEF NobodyLiquidated
<1> QED BY <1>17, <1>18, <1>19 DEF StepOK

\* A step that leaves the markets alone liquidates nobody.
LEMMA MarketsStill ==
  ASSUME Inv, UNCHANGED markets
  PROVE  NobodyLiquidated /\ (UNCHANGED userPoolId => DebtsPlaced)
  BY DEF NobodyLiquidated, SameDebts, DebtsPlaced

\* The steps of enterMarkets and exitMarket.
LEMMA MembershipStepKeeps ==
  ASSUME Inv, NEW a \in Accounts, NEW v \in VTokens, EnterMarket(a, v) \/ ExitMarket(a, v)
  PROVE  StepOK
<1>1. UNCHANGED <<markets, userPoolId, poolVars, settingVars, environmentVars>>
  BY DEF EnterMarket, ExitMarket
<1>2. /\ accountMembership \in [VTokens -> SUBSET Accounts]
      /\ accountAssets \in [Accounts -> Seq(VTokens)]
      /\ AssetsMatchMembership /\ BorrowersAreMembers
  BY DEF Inv, TypeOK, PositionsCounted
<1> DEFINE s == accountAssets[a]
<1>3. /\ s \in Seq(VTokens) /\ IsInjective(s)
      /\ ToSet(s) = {w \in VTokens : a \in accountMembership[w]}
  BY <1>2 DEF AssetsMatchMembership
\* The list and the set of members change together.
<1>4. PICK t \in Seq(VTokens), members \in SUBSET Accounts :
        /\ accountAssets' = [accountAssets EXCEPT ![a] = t] /\ IsInjective(t)
        /\ accountMembership' = [accountMembership EXCEPT ![v] = members]
        /\ \A b \in Accounts \ {a} : b \in members <=> b \in accountMembership[v]
        /\ ToSet(t) = IF a \in members THEN ToSet(s) \cup {v} ELSE ToSet(s) \ {v}
        /\ markets[v].principal[a] > 0 => a \in members
  <2>1. CASE EnterMarket(a, v)
    <3> DEFINE t == Append(s, v)
               members == accountMembership[v] \cup {a}
    <3>1. /\ accountAssets' = [accountAssets EXCEPT ![a] = t]
          /\ accountMembership' = [accountMembership EXCEPT ![v] = members]
          /\ a \notin accountMembership[v]
      BY <2>1 DEF EnterMarket
    <3>2. v \notin ToSet(s)
      BY <1>3, <3>1
    <3>3. t \in Seq(VTokens) /\ IsInjective(t) /\ ToSet(t) = ToSet(s) \cup {v}
      <4> HIDE DEF s
      <4> QED BY <1>3, <3>2, AppendAsset
    <3>4. members \in SUBSET Accounts
      BY <1>2
    <3> HIDE DEF t, s
    <3> QED BY <3>1, <3>3, <3>4
  <2>2. CASE ExitMarket(a, v)
    <3> DEFINE t == withoutAsset(s, v)
               members == accountMembership[v] \ {a}
    <3>1. /\ accountAssets' = [accountAssets EXCEPT ![a] = t]
          /\ accountMembership' = [accountMembership EXCEPT ![v] = members]
          /\ v \in ToSet(s) /\ borrowBalanceStored(markets[v], a) = 0
      BY <2>2 DEF ExitMarket, mayExit
    <3>2. t \in Seq(VTokens) /\ IsInjective(t) /\ ToSet(t) = ToSet(s) \ {v}
      <4> HIDE DEF s
      <4> QED BY <1>3, <3>1, WithoutAsset
    <3>3. members \in SUBSET Accounts
      BY <1>2
    <3>4. ~(markets[v].principal[a] > 0)
      <4>1. markets[v].principal[a] = 0
        BY <3>1, MarketBefore, DebtVisible
      <4> QED BY <4>1
    <3>5. a \notin members /\ \A b \in Accounts \ {a} : b \in members <=> b \in accountMembership[v]
      OBVIOUS
    <3> HIDE DEF t, s, members
    <3> QED BY <3>1, <3>2, <3>3, <3>4, <3>5, Zenon
  <2> QED BY <2>1, <2>2
<1> HIDE DEF s
<1>5. /\ accountMembership' \in [VTokens -> SUBSET Accounts]
      /\ accountAssets' \in [Accounts -> Seq(VTokens)]
  BY <1>2, <1>4
<1>6. \A w \in VTokens, b \in Accounts :
        b \in accountMembership'[w]
          <=> IF w = v /\ b = a THEN a \in members ELSE b \in accountMembership[w]
  BY <1>2, <1>4
<1>7. AssetsMatchMembership'
  <2>1. SUFFICES ASSUME NEW b \in Accounts
                 PROVE  /\ ToSet(accountAssets'[b])
                             = {w \in VTokens : b \in accountMembership'[w]}
                        /\ IsInjective(accountAssets'[b])
    BY DEF AssetsMatchMembership
  <2>2. CASE b = a
    <3>1. accountAssets'[b] = t
      BY <1>2, <1>4, <2>2
    <3>2. ToSet(t) = {w \in VTokens : b \in accountMembership'[w]}
      BY <1>3, <1>4, <1>6, <2>2
    <3> QED BY <1>4, <3>1, <3>2
  <2>3. CASE b # a
    <3>1. accountAssets'[b] = accountAssets[b]
      BY <1>2, <1>4, <2>3
    <3>2. {w \in VTokens : b \in accountMembership[w]}
            = {w \in VTokens : b \in accountMembership'[w]}
      BY <1>6, <2>3
    <3> QED BY <1>2, <3>1, <3>2 DEF AssetsMatchMembership
  <2> QED BY <2>2, <2>3
<1>8. \A w \in VTokens, b \in Accounts :
        markets'[w].principal[b] > 0 => b \in accountMembership'[w]
  BY <1>1, <1>2, <1>4, <1>6 DEF BorrowersAreMembers
<1>9. Inv'
  <2>1. /\ markets' \in [VTokens -> Market]
        /\ \A w \in VTokens : MarketInv(markets'[w]) /\ Timely(markets'[w], blockNumber)
    BY <1>1 DEF Inv, TypeOK, MarketsInv
  <2> QED BY <1>1, <1>5, <1>7, <1>8, <2>1, MarketsStep
<1> QED BY <1>1, <1>9, MarketsStill DEF StepOK

\* A change of pool, which the debts of the account allow.
LEMMA EnterPoolStep ==
  ASSUME Inv, NEW a \in Accounts, NEW pool \in Pools, EnterPool(a, pool)
  PROVE  StepOK
<1>1. /\ UNCHANGED <<markets, accountMembership, accountAssets, poolVars, settingVars,
                     environmentVars>>
      /\ userPoolId' = [userPoolId EXCEPT ![a] = pool]
      /\ hasValidPoolBorrows(a, pool)
  BY DEF EnterPool
<1>2. userPoolId \in [Accounts -> Pools]
  BY DEF Inv, TypeOK
<1>3. Inv'
  <2>1. TypeOK'
    <3>1. userPoolId' \in [Accounts -> Pools]
      BY <1>1, <1>2
    <3> QED BY <1>1, <3>1 DEF Inv, TypeOK, poolVars, settingVars, environmentVars
  <2>2. MarketsInv' /\ PositionsCounted'
    BY <1>1 DEF Inv, MarketsInv, PositionsCounted, AssetsMatchMembership,
                BorrowersAreMembers, environmentVars
  <2>3. FactorsOrdered' /\ UnlistedStaysFrozen'
    BY <1>1 DEF Inv, FactorsOrdered, UnlistedStaysFrozen, isListed, poolVars, settingVars
  <2> QED BY <2>1, <2>2, <2>3 DEF Inv
<1>4. ASSUME NEW v \in VTokens, markets[v].principal[a] > 0
      PROVE  _poolMarkets[pool][v].isBorrowAllowed
  <2>1. v \in ToSet(accountAssets[a])
    BY <1>4 DEF Inv, PositionsCounted, AssetsMatchMembership, BorrowersAreMembers
  <2>2. borrowBalanceStored(markets[v], a) # 0
    BY <1>4, MarketBefore, DebtVisible
  <2> QED BY <1>1, <2>1, <2>2 DEF hasValidPoolBorrows
<1>5. DebtsPlaced
  <2>1. SUFFICES ASSUME NEW b \in Accounts, NEW v \in VTokens, markets[v].principal[b] > 0
                 PROVE  \/ userPoolId'[b] = userPoolId[b]
                        \/ _poolMarkets[userPoolId'[b]][v].isBorrowAllowed
    BY <1>1 DEF DebtsPlaced
  <2>2. CASE b = a
    BY <1>1, <1>2, <1>4, <2>1, <2>2
  <2>3. CASE b # a
    BY <1>1, <1>2, <2>3
  <2> QED BY <2>2, <2>3
<1> QED BY <1>1, <1>3, <1>5, MarketsStill DEF StepOK

-----------------------------------------------------------------------------
(* Governance and the environment: steps that leave every position alone.  *)

\* A step that moves neither positions nor memberships keeps what is claimed of
\* them, if the settings it makes are in order.
LEMMA PositionsStill ==
  ASSUME Inv, UNCHANGED <<markets, membershipVars>>, blockNumber' >= blockNumber,
         TypeOK', FactorsOrdered', UnlistedStaysFrozen'
  PROVE  StepOK
<1>1. UNCHANGED <<accountMembership, accountAssets, userPoolId>>
  BY DEF membershipVars
<1>2. MarketsInv'
  <2>1. SUFFICES ASSUME NEW v \in VTokens
                 PROVE  MarketInv(markets[v]) /\ Timely(markets[v], blockNumber')
    BY DEF MarketsInv
  <2>2. /\ MarketInv(markets[v]) /\ Timely(markets[v], blockNumber)
        /\ markets[v].accrualBlockNumber \in Nat /\ blockNumber \in Nat
    BY MarketBefore DEF Market
  <2>3. blockNumber' \in Nat
    BY DEF TypeOK
  <2> QED BY <2>2, <2>3 DEF Timely
<1>3. PositionsCounted'
  BY <1>1 DEF Inv, PositionsCounted, AssetsMatchMembership, BorrowersAreMembers
<1> QED BY <1>1, <1>2, <1>3, MarketsStill DEF StepOK, Inv

\* One entry of the table of risk parameters changes.
LEMMA PoolMarketStep ==
  ASSUME Inv, NEW pool \in Pools, NEW v \in VTokens, NEW entry \in PoolMarket,
         _poolMarkets' = [_poolMarkets EXCEPT ![pool] = [@ EXCEPT ![v] = entry]],
         entry.collateralFactorMantissa <= entry.liquidationThresholdMantissa,
         allMarkets' \in SUBSET VTokens, allMarkets \subseteq allMarkets',
         allMarkets' \subseteq allMarkets \cup {v},
         pool = corePoolId =>
           \/ entry.isListed
           \/ _actionPaused[v] = Action /\ entry.collateralFactorMantissa = 0,
         pool # corePoolId => allMarkets' = allMarkets,
         UNCHANGED <<markets, membershipVars, pools, lastPoolId, settingVars,
                     environmentVars>>
  PROVE  StepOK
<1>1. _poolMarkets \in [Pools -> [VTokens -> PoolMarket]] /\ corePoolId \in Pools
  BY ComptrollerAssumption DEF Inv, TypeOK, Pools, corePoolId
<1> DEFINE row == [_poolMarkets[pool] EXCEPT ![v] = entry]
<1>2. row \in [VTokens -> PoolMarket] /\ row[v] = entry
        /\ \A w \in VTokens \ {v} : row[w] = _poolMarkets[pool][w]
  BY <1>1
<1>3. _poolMarkets' = [_poolMarkets EXCEPT ![pool] = row]
  OBVIOUS
<1> HIDE DEF row
<1>4. /\ _poolMarkets' \in [Pools -> [VTokens -> PoolMarket]]
      /\ _poolMarkets'[pool][v] = entry
      /\ \A p \in Pools, w \in VTokens :
           (p = pool /\ w = v) \/ _poolMarkets'[p][w] = _poolMarkets[p][w]
  BY <1>1, <1>2, <1>3
<1>5. TypeOK'
  BY <1>4 DEF Inv, TypeOK, membershipVars, settingVars, environmentVars
<1>6. FactorsOrdered'
  BY <1>4 DEF Inv, FactorsOrdered
<1>7. UnlistedStaysFrozen'
  <2>1. SUFFICES ASSUME NEW w \in allMarkets'
                 PROVE  \/ _poolMarkets'[corePoolId][w].isListed
                        \/ /\ _actionPaused[w] = Action
                           /\ _poolMarkets'[corePoolId][w].collateralFactorMantissa = 0
    BY DEF UnlistedStaysFrozen, isListed, settingVars
  <2>2. CASE pool = corePoolId /\ w = v
    BY <1>4, <2>2
  <2>3. CASE ~(pool = corePoolId /\ w = v)
    <3>1. w \in allMarkets /\ w \in VTokens
      BY <2>1, <2>3
    <3>2. _poolMarkets'[corePoolId][w] = _poolMarkets[corePoolId][w]
      BY <1>1, <1>4, <2>3, <3>1
    <3> QED BY <3>1, <3>2 DEF Inv, UnlistedStaysFrozen, isListed
  <2> QED BY <2>2, <2>3
<1>8. UNCHANGED <<markets, membershipVars>> /\ blockNumber' >= blockNumber
  BY DEF environmentVars, Inv, TypeOK
<1> QED BY <1>5, <1>6, <1>7, <1>8, PositionsStill

\* The entry of a market in a pool, before a setter changes it.
LEMMA PoolMarketBefore ==
  ASSUME Inv, NEW pool \in Pools, NEW v \in VTokens
  PROVE  /\ _poolMarkets[pool][v] \in PoolMarket
         /\ _poolMarkets[pool] \in [VTokens -> PoolMarket]
         /\ _poolMarkets \in [Pools -> [VTokens -> PoolMarket]]
         /\ _poolMarkets[pool][v].collateralFactorMantissa
              <= _poolMarkets[pool][v].liquidationThresholdMantissa
         /\ corePoolId \in Pools /\ allMarkets \in SUBSET VTokens
         /\ v \in allMarkets /\ ~_poolMarkets[corePoolId][v].isListed
              => /\ _actionPaused[v] = Action
                 /\ _poolMarkets[corePoolId][v].collateralFactorMantissa = 0
  BY ComptrollerAssumption
     DEF Inv, TypeOK, FactorsOrdered, UnlistedStaysFrozen, isListed, Pools, corePoolId

\* The steps of supportMarket and unlistMarket.
LEMMA ListingSteps ==
  ASSUME Inv, NEW v \in VTokens, SupportMarket(v) \/ UnlistMarket(v)
  PROVE  StepOK
<1> DEFINE old == _poolMarkets[corePoolId][v]
<1>1. old \in PoolMarket /\ corePoolId \in Pools
        /\ old.collateralFactorMantissa <= old.liquidationThresholdMantissa
        /\ allMarkets \in SUBSET VTokens
  BY ComptrollerAssumption, PoolMarketBefore DEF Pools, corePoolId
<1>2. CASE SupportMarket(v)
  <2> DEFINE new == [old EXCEPT !.isListed = TRUE, !.collateralFactorMantissa = 0]
  <2>1. _poolMarkets' = [_poolMarkets EXCEPT ![corePoolId] = [@ EXCEPT ![v] = new]]
    BY <1>2, Zenon, PoolMarketBefore DEF SupportMarket
  <2>2. new \in PoolMarket /\ new.isListed
          /\ new.collateralFactorMantissa <= new.liquidationThresholdMantissa
    <3>1. new.isListed = TRUE /\ new.collateralFactorMantissa = 0
      BY <1>1 DEF PoolMarket
    <3>2. 0 \in Nat
      OBVIOUS
    <3>3. new \in PoolMarket
      BY <1>1, <3>2, Zenon DEF PoolMarket
    <3>4. new.liquidationThresholdMantissa \in Nat
      BY <3>3 DEF PoolMarket
    <3> HIDE DEF new
    <3> QED BY <3>1, <3>3, <3>4
  <2>3. /\ allMarkets' = allMarkets \cup {v}
        /\ UNCHANGED <<markets, membershipVars, pools, lastPoolId, settingVars,
                       environmentVars>>
    BY <1>2 DEF SupportMarket
  <2> HIDE DEF new, old
  <2> QED BY <1>1, <2>1, <2>2, <2>3, PoolMarketStep
<1>3. CASE UnlistMarket(v)
  <2> DEFINE new == [old EXCEPT !.isListed = FALSE]
  <2>1. _poolMarkets' = [_poolMarkets EXCEPT ![corePoolId] = [@ EXCEPT ![v] = new]]
    BY <1>3, Zenon, PoolMarketBefore DEF UnlistMarket
  <2>2. new \in PoolMarket
          /\ new.collateralFactorMantissa = old.collateralFactorMantissa
          /\ new.collateralFactorMantissa <= new.liquidationThresholdMantissa
    BY <1>1 DEF PoolMarket
  <2>3. old.collateralFactorMantissa = 0 /\ _actionPaused[v] = Action
    BY <1>3 DEF UnlistMarket, mayUnlist, Inv, TypeOK
  <2>4. UNCHANGED <<markets, membershipVars, pools, lastPoolId, allMarkets, settingVars,
                    environmentVars>>
    BY <1>3 DEF UnlistMarket
  <2> HIDE DEF new, old
  <2> QED BY <1>1, <2>1, <2>2, <2>3, <2>4, PoolMarketStep
<1> QED BY <1>2, <1>3

\* The markets of a pool.
LEMMA PoolMarketSteps ==
  ASSUME Inv, NEW pool \in Pools, NEW v \in VTokens, NEW flag \in BOOLEAN,
         \/ AddPoolMarket(pool, v) \/ RemovePoolMarket(pool, v)
         \/ SetIsBorrowAllowed(pool, v, flag)
  PROVE  StepOK
<1> DEFINE old == _poolMarkets[pool][v]
<1>1. /\ old \in PoolMarket /\ allMarkets \in SUBSET VTokens
      /\ old.collateralFactorMantissa <= old.liquidationThresholdMantissa
  BY PoolMarketBefore
<1>2. UNCHANGED <<markets, membershipVars, pools, lastPoolId, allMarkets, settingVars,
                  environmentVars>>
  BY DEF AddPoolMarket, RemovePoolMarket, SetIsBorrowAllowed
<1>3. PICK new \in PoolMarket :
        /\ _poolMarkets' = [_poolMarkets EXCEPT ![pool] = [@ EXCEPT ![v] = new]]
        /\ new.collateralFactorMantissa <= new.liquidationThresholdMantissa
        /\ new.isListed \/ pool # corePoolId
  <2>1. CASE AddPoolMarket(pool, v)
    <3> DEFINE new == [old EXCEPT !.isListed = TRUE]
    <3>1. _poolMarkets' = [_poolMarkets EXCEPT ![pool] = [@ EXCEPT ![v] = new]]
      BY <2>1, Zenon, PoolMarketBefore DEF AddPoolMarket
    <3>2. new \in PoolMarket /\ new.isListed
            /\ new.collateralFactorMantissa <= new.liquidationThresholdMantissa
      BY <1>1 DEF PoolMarket
    <3> HIDE DEF new, old
    <3> QED BY <3>1, <3>2
  <2>2. CASE RemovePoolMarket(pool, v)
    <3>1. /\ _poolMarkets' = [_poolMarkets EXCEPT ![pool] = [@ EXCEPT ![v] = notListed]]
          /\ pool # corePoolId
      BY <2>2, Zenon, PoolMarketBefore DEF RemovePoolMarket
    <3>2. notListed \in PoolMarket
            /\ notListed.collateralFactorMantissa <= notListed.liquidationThresholdMantissa
      BY DEF PoolMarket, notListed
    <3> QED BY <3>1, <3>2
  <2>3. CASE SetIsBorrowAllowed(pool, v, flag)
    <3> DEFINE new == [old EXCEPT !.isBorrowAllowed = flag]
    <3>1. _poolMarkets' = [_poolMarkets EXCEPT ![pool] = [@ EXCEPT ![v] = new]]
            /\ old.isListed
      BY <2>3, Zenon, PoolMarketBefore DEF SetIsBorrowAllowed
    <3>2. new \in PoolMarket /\ new.isListed = old.isListed
            /\ new.collateralFactorMantissa <= new.liquidationThresholdMantissa
      BY <1>1 DEF PoolMarket
    <3> HIDE DEF new, old
    <3> QED BY <3>1, <3>2
  <2> QED BY <2>1, <2>2, <2>3
<1> HIDE DEF old
<1> QED BY <1>1, <1>2, <1>3, PoolMarketStep

\* The risk parameters of a market in a pool.
LEMMA RiskSteps ==
  ASSUME Inv, RiskStep
  PROVE  StepOK
<1>1. PICK pool \in Pools, v \in VTokens :
        \/ \E factors \in RiskFactors : SetCollateralFactor(pool, v, factors[1], factors[2])
        \/ \E incentive \in Incentives : SetLiquidationIncentive(pool, v, incentive)
  BY DEF RiskStep
<1> DEFINE old == _poolMarkets[pool][v]
<1>2. /\ old \in PoolMarket /\ allMarkets \in SUBSET VTokens
      /\ old.collateralFactorMantissa <= old.liquidationThresholdMantissa
  BY PoolMarketBefore
<1>3. UNCHANGED <<markets, membershipVars, pools, lastPoolId, allMarkets, settingVars,
                  environmentVars>>
  BY <1>1 DEF SetCollateralFactor, SetLiquidationIncentive
<1>4. PICK new \in PoolMarket :
        /\ _poolMarkets' = [_poolMarkets EXCEPT ![pool] = [@ EXCEPT ![v] = new]]
        /\ new.collateralFactorMantissa <= new.liquidationThresholdMantissa
        /\ new.isListed
  <2>1. ASSUME NEW factors \in RiskFactors,
               SetCollateralFactor(pool, v, factors[1], factors[2])
        PROVE  \E new \in PoolMarket :
                 /\ _poolMarkets' = [_poolMarkets EXCEPT ![pool] = [@ EXCEPT ![v] = new]]
                 /\ new.collateralFactorMantissa <= new.liquidationThresholdMantissa
                 /\ new.isListed
    <3> DEFINE cf == factors[1]
               lt == factors[2]
               new == [old EXCEPT !.collateralFactorMantissa = cf,
                                  !.liquidationThresholdMantissa = lt]
    <3>1. cf \in Nat /\ lt \in Nat
      BY ComptrollerAssumption
    <3> HIDE DEF cf, lt
    <3>2. old.isListed /\ cf <= lt
      BY <2>1 DEF SetCollateralFactor, validRiskFactors, cf, lt
    <3>3. _poolMarkets' = [_poolMarkets EXCEPT ![pool] = [@ EXCEPT ![v] = new]]
      BY <2>1, Zenon, PoolMarketBefore DEF SetCollateralFactor, cf, lt
    <3>4. new \in PoolMarket /\ new.isListed = old.isListed
            /\ new.collateralFactorMantissa = cf /\ new.liquidationThresholdMantissa = lt
      BY <1>2, <3>1 DEF PoolMarket
    <3> HIDE DEF new, old
    <3> QED BY <3>2, <3>3, <3>4
  <2>2. ASSUME NEW incentive \in Incentives, SetLiquidationIncentive(pool, v, incentive)
        PROVE  \E new \in PoolMarket :
                 /\ _poolMarkets' = [_poolMarkets EXCEPT ![pool] = [@ EXCEPT ![v] = new]]
                 /\ new.collateralFactorMantissa <= new.liquidationThresholdMantissa
                 /\ new.isListed
    <3> DEFINE new == [old EXCEPT !.liquidationIncentiveMantissa = incentive]
    <3>1. incentive \in Nat
      BY ComptrollerAssumption
    <3>2. old.isListed
      BY <2>2 DEF SetLiquidationIncentive
    <3>3. _poolMarkets' = [_poolMarkets EXCEPT ![pool] = [@ EXCEPT ![v] = new]]
      BY <2>2, Zenon, PoolMarketBefore DEF SetLiquidationIncentive
    <3>4. new \in PoolMarket /\ new.isListed = old.isListed
            /\ new.collateralFactorMantissa <= new.liquidationThresholdMantissa
      BY <1>2, <3>1 DEF PoolMarket
    <3> HIDE DEF new, old
    <3> QED BY <3>2, <3>3, <3>4
  <2> QED BY <1>1, <2>1, <2>2
<1> HIDE DEF old
<1> QED BY <1>2, <1>3, <1>4, PoolMarketStep

\* A step that leaves the table of risk parameters alone.
LEMMA SettingKeeps ==
  ASSUME Inv, UNCHANGED <<markets, membershipVars, _poolMarkets, allMarkets>>,
         blockNumber' >= blockNumber, TypeOK',
         \A v \in allMarkets : ~isListed(v) => _actionPaused'[v] = Action
  PROVE  StepOK
<1>1. FactorsOrdered'
  BY DEF Inv, FactorsOrdered
<1>2. UnlistedStaysFrozen'
  BY DEF Inv, UnlistedStaysFrozen, isListed
<1>3. UNCHANGED <<markets, membershipVars>>
  OBVIOUS
<1> QED BY <1>1, <1>2, <1>3, PositionsStill

\* The pools themselves.
LEMMA PoolSteps ==
  ASSUME Inv, NEW pool \in Pools, NEW flag \in BOOLEAN,
         CreatePool \/ SetPoolActive(pool, flag) \/ SetAllowCorePoolFallback(pool, flag)
  PROVE  StepOK
<1>1. UNCHANGED <<markets, membershipVars, _poolMarkets, allMarkets, settingVars,
                  environmentVars>>
  BY DEF CreatePool, SetPoolActive, SetAllowCorePoolFallback
<1>2. pools \in [Pools -> Pool] /\ lastPoolId \in Pools
  BY DEF Inv, TypeOK
<1>3. pools' \in [Pools -> Pool] /\ lastPoolId' \in Pools
  <2>1. CASE CreatePool
    <3> DEFINE p == lastPoolId + 1
               new == [pools[p] EXCEPT !.isActive = TRUE]
    <3>1. p \in Pools /\ lastPoolId' = p
      BY <1>2, <2>1, ComptrollerAssumption DEF CreatePool, Pools, corePoolId
    <3>2. pools' = [pools EXCEPT ![p] = new]
      BY <2>1, Zenon DEF CreatePool
    <3> HIDE DEF p
    <3>3. new \in Pool
      BY <1>2, <3>1 DEF Pool
    <3> HIDE DEF new
    <3> QED BY <1>2, <3>1, <3>2, <3>3
  <2>2. CASE SetPoolActive(pool, flag)
    <3> DEFINE new == [pools[pool] EXCEPT !.isActive = flag]
    <3>1. pools' = [pools EXCEPT ![pool] = new] /\ lastPoolId' = lastPoolId
      BY <2>2, Zenon DEF SetPoolActive
    <3>2. new \in Pool
      BY <1>2 DEF Pool
    <3> HIDE DEF new
    <3> QED BY <1>2, <3>1, <3>2
  <2>3. CASE SetAllowCorePoolFallback(pool, flag)
    <3> DEFINE new == [pools[pool] EXCEPT !.allowCorePoolFallback = flag]
    <3>1. pools' = [pools EXCEPT ![pool] = new] /\ lastPoolId' = lastPoolId
      BY <2>3, Zenon DEF SetAllowCorePoolFallback
    <3>2. new \in Pool
      BY <1>2 DEF Pool
    <3> HIDE DEF new
    <3> QED BY <1>2, <3>1, <3>2
  <2> QED BY <2>1, <2>2, <2>3
<1>4. TypeOK'
  BY <1>1, <1>3 DEF Inv, TypeOK, membershipVars, settingVars, environmentVars
<1>5. blockNumber' >= blockNumber
  BY <1>1 DEF Inv, TypeOK, environmentVars
<1>6. \A v \in allMarkets : ~isListed(v) => _actionPaused'[v] = Action
  BY <1>1 DEF Inv, UnlistedStaysFrozen, settingVars
<1>7. UNCHANGED <<markets, membershipVars, _poolMarkets, allMarkets>>
  BY <1>1
<1> QED BY <1>4, <1>5, <1>6, <1>7, SettingKeeps

\* Caps, pauses, the close factor, forced liquidations, prices and blocks.
LEMMA CapSteps ==
  ASSUME Inv, NEW v \in VTokens, NEW cap \in Caps,
         SetMarketSupplyCap(v, cap) \/ SetMarketBorrowCap(v, cap)
  PROVE  StepOK
<1>1. /\ UNCHANGED <<markets, membershipVars, poolVars, _actionPaused, protocolPaused,
                     closeFactorMantissa, isForcedLiquidationEnabled,
                     isForcedLiquidationEnabledForUser, environmentVars>>
      /\ cap \in Nat
  BY ComptrollerAssumption DEF SetMarketSupplyCap, SetMarketBorrowCap
<1>2. /\ supplyCaps \in [VTokens -> Nat] /\ borrowCaps \in [VTokens -> Nat]
      /\ \/ supplyCaps' = [supplyCaps EXCEPT ![v] = cap] /\ borrowCaps' = borrowCaps
         \/ borrowCaps' = [borrowCaps EXCEPT ![v] = cap] /\ supplyCaps' = supplyCaps
  BY DEF SetMarketSupplyCap, SetMarketBorrowCap, Inv, TypeOK
<1>3. supplyCaps' \in [VTokens -> Nat] /\ borrowCaps' \in [VTokens -> Nat]
  BY <1>1, <1>2
<1>4. TypeOK' /\ blockNumber' >= blockNumber
  <2>1. UNCHANGED <<blockNumber, underlyingPrice>> /\ blockNumber \in Nat
    BY <1>1 DEF Inv, TypeOK, environmentVars
  <2>2. TypeOK'
    BY <1>1, <1>3, <2>1 DEF Inv, TypeOK, membershipVars, poolVars
  <2> QED BY <2>1, <2>2
<1>5. /\ UNCHANGED <<markets, membershipVars, _poolMarkets, allMarkets>>
      /\ \A w \in allMarkets : ~isListed(w) => _actionPaused'[w] = Action
  BY <1>1 DEF Inv, UnlistedStaysFrozen, poolVars
<1> QED BY <1>4, <1>5, SettingKeeps

\* The only pauses that change are those of a listed market.
LEMMA PauseStep ==
  ASSUME Inv, NEW v \in VTokens, NEW actions \in SUBSET Action, NEW paused \in BOOLEAN,
         SetActionsPaused(v, actions, paused)
  PROVE  StepOK
<1>1. /\ UNCHANGED <<markets, membershipVars, poolVars, supplyCaps, borrowCaps,
                     protocolPaused, closeFactorMantissa, isForcedLiquidationEnabled,
                     isForcedLiquidationEnabledForUser, environmentVars>>
      /\ isListed(v)
  BY DEF SetActionsPaused, mayPause
<1>2. _actionPaused \in [VTokens -> SUBSET Action]
  BY DEF Inv, TypeOK
<1> DEFINE new == IF paused THEN _actionPaused[v] \cup actions
                            ELSE _actionPaused[v] \ actions
<1>3. new \in SUBSET Action /\ _actionPaused' = [_actionPaused EXCEPT ![v] = new]
  BY <1>2 DEF SetActionsPaused
<1> HIDE DEF new
<1>4. /\ _actionPaused' \in [VTokens -> SUBSET Action]
      /\ \A w \in VTokens \ {v} : _actionPaused'[w] = _actionPaused[w]
  BY <1>2, <1>3
<1>5. TypeOK' /\ blockNumber' >= blockNumber
  <2>1. UNCHANGED <<blockNumber, underlyingPrice>> /\ blockNumber \in Nat
    BY <1>1 DEF Inv, TypeOK, environmentVars
  <2>2. TypeOK'
    BY <1>1, <1>4, <2>1 DEF Inv, TypeOK, membershipVars, poolVars
  <2> QED BY <2>1, <2>2
<1>6. \A w \in allMarkets : ~isListed(w) => _actionPaused'[w] = Action
  BY <1>1, <1>4 DEF Inv, TypeOK, UnlistedStaysFrozen
<1>7. UNCHANGED <<markets, membershipVars, _poolMarkets, allMarkets>>
  BY <1>1 DEF poolVars
<1> QED BY <1>5, <1>6, <1>7, SettingKeeps

\* The steps of the governance setters.
LEMMA SettingSteps ==
  ASSUME Inv, SettingStep \/ ForcedStep
  PROVE  StepOK
<1>1. UNCHANGED <<markets, membershipVars, poolVars, supplyCaps, borrowCaps, _actionPaused,
                  environmentVars>>
  BY DEF SettingStep, ForcedStep, SetCloseFactor, SetProtocolPaused,
         SetForcedLiquidation, SetForcedLiquidationForUser
<1>2. /\ closeFactorMantissa' \in Nat /\ protocolPaused' \in BOOLEAN
      /\ isForcedLiquidationEnabled' \subseteq VTokens
      /\ isForcedLiquidationEnabledForUser' \subseteq Accounts \X VTokens
  <2>1. /\ closeFactorMantissa \in Nat /\ protocolPaused \in BOOLEAN
        /\ isForcedLiquidationEnabled \subseteq VTokens
        /\ isForcedLiquidationEnabledForUser \subseteq Accounts \X VTokens
    BY DEF Inv, TypeOK
  <2>2. CASE SettingStep
    BY <2>1, <2>2, ComptrollerAssumption
       DEF SettingStep, SetCloseFactor, SetProtocolPaused
  <2>3. CASE ForcedStep
    BY <2>1, <2>3 DEF ForcedStep, SetForcedLiquidation, SetForcedLiquidationForUser
  <2> QED BY <2>2, <2>3
<1>3. TypeOK' /\ blockNumber' >= blockNumber
  BY <1>1, <1>2 DEF Inv, TypeOK, membershipVars, poolVars, environmentVars
<1>4. /\ UNCHANGED <<markets, membershipVars, _poolMarkets, allMarkets>>
      /\ \A w \in allMarkets : ~isListed(w) => _actionPaused'[w] = Action
  BY <1>1 DEF Inv, UnlistedStaysFrozen, poolVars
<1> QED BY <1>3, <1>4, SettingKeeps

\* The steps of the chain, the oracle and the donors.
LEMMA EnvironmentSteps ==
  ASSUME Inv, EnvironmentStep
  PROVE  StepOK
<1>1. UNCHANGED <<markets, membershipVars, poolVars, settingVars>>
  BY DEF EnvironmentStep, NextBlock, SetPrice
<1>2. /\ underlyingPrice \in [VTokens -> Nat] /\ blockNumber \in Nat
  BY DEF Inv, TypeOK
<1>3. /\ underlyingPrice' \in [VTokens -> Nat]
      /\ blockNumber' \in Nat /\ blockNumber' >= blockNumber
  <2>1. CASE NextBlock
    BY <1>2, <2>1 DEF NextBlock
  <2>2. ASSUME NEW v \in VTokens, NEW price \in Prices, SetPrice(v, price)
        PROVE  /\ underlyingPrice' \in [VTokens -> Nat] /\ blockNumber' = blockNumber
    BY <1>2, <2>2, ComptrollerAssumption DEF SetPrice
  <2> QED BY <1>2, <2>1, <2>2 DEF EnvironmentStep
<1>4. TypeOK'
  BY <1>1, <1>3 DEF Inv, TypeOK, membershipVars, poolVars, settingVars
<1>5. /\ UNCHANGED <<markets, membershipVars, _poolMarkets, allMarkets>>
      /\ \A w \in allMarkets : ~isListed(w) => _actionPaused'[w] = Action
  BY <1>1 DEF Inv, UnlistedStaysFrozen, poolVars, settingVars
<1> QED BY <1>3, <1>4, <1>5, SettingKeeps

-----------------------------------------------------------------------------
(* Liquidations. *)

\* A larger dividend has the larger quotient.
LEMMA DivMonotone ==
  ASSUME NEW a \in Int, NEW b \in Int, NEW k \in Nat \ {0}, a <= b
  PROVE  a \div k <= b \div k
<1> DEFINE p == a \div k
           q == b \div k
<1>1. p \in Int /\ q \in Int /\ p * k <= a /\ b < q * k + k
  OBVIOUS
<1> HIDE DEF p, q
<1>2. SUFFICES ASSUME p >= q + 1 PROVE FALSE
  BY <1>1 DEF p, q
<1>3. p * k >= (q + 1) * k
  BY <1>1, <1>2
<1>4. (q + 1) * k = q * k + k
  BY <1>1
<1> QED BY <1>1, <1>3, <1>4

\* The tokens seized for an amount, at B each, are worth at most the amount
\* at A each.
LEMMA SeizeBounded ==
  ASSUME NEW A \in Nat, NEW B \in Nat \ {0}, NEW amount \in Nat
  PROVE  /\ mulScalarTruncate(divExp(A, B), amount) \in Nat
         /\ mulScalarTruncate(divExp(A, B), amount) * B <= amount * A
<1> DEFINE K == expScale
           x == divExp(A, B)
           t == mulScalarTruncate(x, amount)
<1>1. K \in Nat \ {0} /\ A * K \in Nat
  BY ExpScaleAssumption
<1>2. x \in Nat /\ x * B <= A * K
  BY <1>1, DivBounds DEF divExp
<1> HIDE DEF x
<1>3. t \in Nat /\ t * K <= x * amount
  BY <1>2, MulScalarBounds
<1> HIDE DEF t, K
<1>4. (t * K) * B <= (x * amount) * B
  <2>1. t * K \in Nat /\ x * amount \in Nat
    BY <1>1, <1>2, <1>3
  <2> QED BY <1>3, <2>1, MulMonotone
<1>5. (x * B) * amount <= (A * K) * amount
  <2>1. x * B \in Nat
    BY <1>2
  <2> QED BY <1>1, <1>2, <2>1, MulMonotone
<1>6. (t * B) * K <= (amount * A) * K
  <2>1. (t * K) * B = (t * B) * K
    BY <1>1, <1>3
  <2>2. (x * amount) * B = (x * B) * amount
    BY <1>2
  <2>3. (A * K) * amount = (amount * A) * K
    BY <1>1
  <2>4. (t * K) * B \in Nat /\ (x * B) * amount \in Nat /\ (A * K) * amount \in Nat
    BY <1>1, <1>2, <1>3
  <2> DEFINE u == (t * K) * B
             v == (x * B) * amount
             w == (A * K) * amount
  <2> HIDE DEF u, v, w
  <2>5. u <= v /\ v <= w /\ u \in Nat /\ v \in Nat /\ w \in Nat
    BY <1>4, <1>5, <2>2, <2>4, Zenon DEF u, v, w
  <2>6. u <= w
    BY <2>5
  <2> QED BY <2>1, <2>3, <2>6, Zenon DEF u, w
<1>7. t * B \in Nat /\ amount * A \in Nat
  BY <1>3
<1> QED BY <1>1, <1>3, <1>6, <1>7, MulCancel DEF t, x

\* The risk parameters a pool answers for a market.
LEMMA LiquidationParams ==
  ASSUME Inv, NEW pool \in Pools, NEW v \in VTokens
  PROVE  LET params == getLiquidationParams(pool, v)
         IN  /\ params \in PoolMarket
             /\ params.collateralFactorMantissa <= params.liquidationThresholdMantissa
<1>1. corePoolId \in Pools
  BY ComptrollerAssumption DEF Pools, corePoolId
<1> QED BY <1>1, PoolMarketBefore DEF getLiquidationParams

\* What a liquidation does: mB is the market of the debt and c0 that of the
\* collateral as the seizure finds it, t the tokens it takes.
LiquidatedWith(liquidator, borrower, vB, vC, amount, mB, c0, t) ==
  LET n == repayBorrowFresh(mB, borrower, amount)
      c == moveTokens(c0, borrower, liquidator, t)
  IN  /\ vB = vC => c0 = n
      /\ vB # vC => c0 \in Accrued(vC)
      /\ canRepay(mB, borrower, amount) /\ canMove(c0, borrower, liquidator, t)
      /\ exchangeRateDefined(c0)
      /\ mulExp(underlyingPrice[vC], exchangeRateStored(c0)) > 0
      /\ t = mulScalarTruncate(
               divExp(mulExp(getLiquidationParams(userPoolId[borrower], vC)
                               .liquidationIncentiveMantissa, underlyingPrice[vB]),
                      mulExp(underlyingPrice[vC], exchangeRateStored(c0))), amount)
      /\ markets' = [v \in VTokens |-> IF v = vC THEN c
                                   ELSE IF v = vB THEN n ELSE markets[v]]
      /\ UNCHANGED <<membershipVars, poolVars, settingVars, environmentVars>>

\* What a liquidation does, with the accrued markets and the hook it passes named.
LEMMA LiquidateFacts ==
  ASSUME Inv, NEW liquidator \in Accounts, NEW borrower \in Accounts, NEW vB \in VTokens,
         NEW vC \in VTokens, NEW amount \in Amounts,
         LiquidateBorrow(liquidator, borrower, vB, vC, amount)
  PROVE  \E mB \in Accrued(vB), mC \in Accrued(vC) : \E c0, t :
           /\ LiquidatedWith(liquidator, borrower, vB, vC, amount, mB, c0, t)
           /\ vB # vC => c0 = mC
           /\ liquidateBorrowAllowed([markets EXCEPT ![vC] = mC, ![vB] = mB],
                                     vB, vC, borrower, amount)
<1> DEFINE Ms(mB, mC) == [markets EXCEPT ![vC] = mC, ![vB] = mB]
           Repaid(mB, mC) == [Ms(mB, mC) EXCEPT ![vB] = repayBorrowFresh(@, borrower, amount)]
           Seize(mB, mC) == seizeTokensFor(Repaid(mB, mC), borrower, vB, vC, amount)
<1>1. PICK mB \in Accrued(vB), mC \in Accrued(vC) :
        /\ liquidateBorrowAllowed(Ms(mB, mC), vB, vC, borrower, amount)
        /\ canRepay(Ms(mB, mC)[vB], borrower, amount)
        /\ exchangeRateDefined(Repaid(mB, mC)[vC])
        /\ mulExp(underlyingPrice[vC], exchangeRateStored(Repaid(mB, mC)[vC])) > 0
        /\ canMove(Repaid(mB, mC)[vC], borrower, liquidator, Seize(mB, mC))
        /\ markets' = [Repaid(mB, mC) EXCEPT ![vC] =
                         moveTokens(@, borrower, liquidator, Seize(mB, mC))]
  BY Zenon DEF LiquidateBorrow
<1> DEFINE n == repayBorrowFresh(mB, borrower, amount)
           c0 == IF vB = vC THEN n ELSE mC
           t == Seize(mB, mC)
           c == moveTokens(c0, borrower, liquidator, t)
           ms == Ms(mB, mC)
           repaidMs == Repaid(mB, mC)
<1>2. markets \in [VTokens -> Market]
  BY MarketBefore
<1>3. ms[vB] = mB /\ repaidMs = [v \in VTokens |-> IF v = vB THEN n
                                            ELSE IF v = vC THEN mC ELSE markets[v]]
  BY <1>2, Zenon
<1> HIDE DEF ms, repaidMs, n
<1>4. repaidMs[vC] = c0
  BY <1>3
<1>5. t = mulScalarTruncate(
             divExp(mulExp(getLiquidationParams(userPoolId[borrower], vC)
                             .liquidationIncentiveMantissa, underlyingPrice[vB]),
                    mulExp(underlyingPrice[vC], exchangeRateStored(c0))), amount)
  BY <1>4, Zenon DEF seizeTokensFor, repaidMs
<1> HIDE DEF t
<1>6. /\ canRepay(mB, borrower, amount) /\ canMove(c0, borrower, liquidator, t)
      /\ exchangeRateDefined(c0)
      /\ mulExp(underlyingPrice[vC], exchangeRateStored(c0)) > 0
      /\ markets' = [repaidMs EXCEPT ![vC] = moveTokens(@, borrower, liquidator, t)]
  BY <1>1, <1>3, <1>4 DEF t, ms, repaidMs
<1> HIDE DEF c0, c
<1>7. markets' = [v \in VTokens |-> IF v = vC THEN c ELSE IF v = vB THEN n ELSE markets[v]]
  <2>1. markets' = [repaidMs EXCEPT ![vC] = c]
    BY <1>4, <1>6 DEF c
  <2> QED BY <1>3, <2>1
<1>8. UNCHANGED <<membershipVars, poolVars, settingVars, environmentVars>>
  BY DEF LiquidateBorrow
<1>9. (vB = vC => c0 = n) /\ (vB # vC => c0 \in Accrued(vC) /\ c0 = mC)
  BY <1>1 DEF c0
<1>10. LiquidatedWith(liquidator, borrower, vB, vC, amount, mB, c0, t)
  BY <1>5, <1>6, <1>7, <1>8, <1>9 DEF LiquidatedWith, n, c
<1>11. liquidateBorrowAllowed([markets EXCEPT ![vC] = mC, ![vB] = mB],
                              vB, vC, borrower, amount)
  BY <1>1
<1> QED BY <1>1, <1>9, <1>10, <1>11

\* The two markets after a liquidation.
LEMMA LiquidatedMarkets ==
  ASSUME Inv, NEW liquidator \in Accounts, NEW borrower \in Accounts, NEW vB \in VTokens,
         NEW vC \in VTokens, NEW amount \in Amounts, NEW mB \in Accrued(vB), NEW c0, NEW t,
         LiquidatedWith(liquidator, borrower, vB, vC, amount, mB, c0, t)
  PROVE  LET n == repayBorrowFresh(mB, borrower, amount)
             c == moveTokens(c0, borrower, liquidator, t)
         IN  /\ MarketInv(n) /\ Timely(n, blockNumber) /\ n.borrowIndex = mB.borrowIndex
             /\ n.accountTokens = markets[vB].accountTokens
             /\ NoNewDebtor(n, markets[vB])
             /\ MarketInv(c0)
             /\ c0.accountTokens = markets[vC].accountTokens
             /\ vB # vC => SameDebts(c0, markets[vC])
             /\ MarketInv(c) /\ Timely(c, blockNumber) /\ SameDebts(c, c0)
             /\ c.borrowIndex = c0.borrowIndex
             /\ equity(c) = equity(c0) /\ c.totalSupply = c0.totalSupply
             /\ t \in Nat /\ amount \in Nat
             /\ \A a \in Accounts \ {borrower} :
                  c.accountTokens[a] >= markets[vC].accountTokens[a]
             /\ c.accountTokens[borrower] = markets[vC].accountTokens[borrower] - t
<1> DEFINE n == repayBorrowFresh(mB, borrower, amount)
           c == moveTokens(c0, borrower, liquidator, t)
           A == mulExp(getLiquidationParams(userPoolId[borrower], vC)
                         .liquidationIncentiveMantissa, underlyingPrice[vB])
           B == mulExp(underlyingPrice[vC], exchangeRateStored(c0))
<1>1. /\ vB = vC => c0 = n
      /\ vB # vC => c0 \in Accrued(vC)
      /\ canRepay(mB, borrower, amount) /\ canMove(c0, borrower, liquidator, t)
      /\ exchangeRateDefined(c0) /\ B > 0
      /\ t = mulScalarTruncate(divExp(A, B), amount)
  BY DEF LiquidatedWith
<1>2. amount \in Nat /\ expScale \in Nat \ {0}
  BY ComptrollerAssumption, ExpScaleAssumption
<1>3. /\ MarketInv(n) /\ n.borrowIndex = mB.borrowIndex
      /\ n.accrualBlockNumber = mB.accrualBlockNumber
      /\ n.reduceReservesBlockNumber = mB.reduceReservesBlockNumber
  BY <1>1, <1>2, AccruedMarket, RepayFacts
<1>4. n.accountTokens = mB.accountTokens /\ NoNewDebtor(n, mB)
  BY <1>1, <1>2, AccruedMarket, RepayKeeps
<1> HIDE DEF n
<1>5. /\ n.accountTokens = markets[vB].accountTokens /\ NoNewDebtor(n, markets[vB])
      /\ Timely(n, blockNumber)
  <2>1. /\ SameDebts(mB, markets[vB]) /\ mB.accountTokens = markets[vB].accountTokens
        /\ Timely(mB, blockNumber)
    BY AccruedMarket
  <2>2. Timely(n, blockNumber)
    BY <1>3, <2>1, StillTimely
  <2> QED BY <1>4, <2>1, <2>2 DEF SameDebts, NoNewDebtor
<1>6. /\ MarketInv(c0) /\ c0.accountTokens = markets[vC].accountTokens
      /\ Timely(c0, blockNumber)
      /\ vB # vC => SameDebts(c0, markets[vC])
  <2>1. CASE vB = vC
    BY <1>1, <1>3, <1>5, <2>1
  <2>2. CASE vB # vC
    BY <1>1, <2>2, AccruedMarket
  <2> QED BY <2>1, <2>2
<1>7. t \in Nat
  <2>1. exchangeRateStored(c0) \in Nat
    BY <1>1, <1>6, ExchangeRateFacts DEF MarketInv
  <2>2. /\ underlyingPrice \in [VTokens -> Nat] /\ userPoolId[borrower] \in Pools
    BY DEF Inv, TypeOK
  <2>3. getLiquidationParams(userPoolId[borrower], vC).liquidationIncentiveMantissa \in Nat
    BY <2>2, LiquidationParams DEF PoolMarket
  <2>4. A \in Nat
    <3> DEFINE i == getLiquidationParams(userPoolId[borrower], vC).liquidationIncentiveMantissa
               p == underlyingPrice[vB]
    <3>1. i * p \in Nat
      BY <2>2, <2>3
    <3> QED BY <1>2, <3>1, DivBounds DEF mulExp
  <2>5. B \in Nat
    <3>1. underlyingPrice[vC] * exchangeRateStored(c0) \in Nat
      BY <2>1, <2>2
    <3> QED BY <1>2, <3>1, DivBounds DEF mulExp
  <2>6. B \in Nat \ {0}
    BY <1>1, <2>5
  <2> HIDE DEF A, B
  <2> QED BY <1>1, <1>2, <2>4, <2>6, SeizeBounded
<1> HIDE DEF A, B
<1>8. /\ MarketInv(c) /\ c.borrowIndex = c0.borrowIndex
      /\ equity(c) = equity(c0) /\ c.totalSupply = c0.totalSupply
      /\ c.accrualBlockNumber = c0.accrualBlockNumber
      /\ c.reduceReservesBlockNumber = c0.reduceReservesBlockNumber
  BY <1>1, <1>6, <1>7, MoveFacts
<1>9. /\ SameDebts(c, c0)
      /\ \A a \in Accounts \ {borrower} : c.accountTokens[a] >= c0.accountTokens[a]
      /\ c.accountTokens[borrower] = c0.accountTokens[borrower] - t
  BY <1>1, <1>6, <1>7, MoveKeeps DEF MarketInv, canMove
<1> HIDE DEF c
<1>10. Timely(c, blockNumber)
  BY <1>6, <1>8, StillTimely
<1> QED BY <1>2, <1>3, <1>5, <1>6, <1>7, <1>8, <1>9, <1>10 DEF n, c

\* A liquidation keeps the invariant and makes no new debtor.
LEMMA LiquidateStep ==
  ASSUME Inv, NEW liquidator \in Accounts, NEW borrower \in Accounts, NEW vB \in VTokens,
         NEW vC \in VTokens, NEW amount \in Amounts, NEW mB \in Accrued(vB), NEW c0, NEW t,
         LiquidatedWith(liquidator, borrower, vB, vC, amount, mB, c0, t)
  PROVE  Inv' /\ DebtsPlaced
<1> DEFINE n == repayBorrowFresh(mB, borrower, amount)
           c == moveTokens(c0, borrower, liquidator, t)
<1>1. /\ markets' = [v \in VTokens |-> IF v = vC THEN c ELSE IF v = vB THEN n ELSE markets[v]]
      /\ UNCHANGED <<membershipVars, poolVars, settingVars, environmentVars>>
      /\ vB = vC => c0 = n
  BY DEF LiquidatedWith
<1>2. /\ MarketInv(n) /\ Timely(n, blockNumber) /\ NoNewDebtor(n, markets[vB])
      /\ vB # vC => SameDebts(c0, markets[vC])
      /\ MarketInv(c) /\ Timely(c, blockNumber) /\ SameDebts(c, c0)
  BY LiquidatedMarkets
<1> HIDE DEF n, c
<1>3. \A v \in VTokens : MarketInv(markets'[v]) /\ Timely(markets'[v], blockNumber)
  BY <1>1, <1>2, MarketBefore
<1>4. markets' \in [VTokens -> Market]
  BY <1>1, <1>3 DEF MarketInv
<1>5. \A v \in VTokens : NoNewDebtor(markets'[v], markets[v])
  <2>1. NoNewDebtor(c, markets[vC])
    <3>1. CASE vB = vC
      BY <1>1, <1>2, <3>1 DEF SameDebts, NoNewDebtor
    <3>2. CASE vB # vC
      BY <1>2, <3>2 DEF SameDebts, NoNewDebtor
    <3> QED BY <3>1, <3>2
  <2>2. \A v \in VTokens : NoNewDebtor(markets[v], markets[v])
    BY DEF NoNewDebtor
  <2> QED BY <1>1, <1>2, <2>1, <2>2
<1>6. UNCHANGED <<accountMembership, accountAssets, userPoolId, poolVars, settingVars,
                  environmentVars>>
  BY <1>1 DEF membershipVars
<1>7. /\ accountMembership' \in [VTokens -> SUBSET Accounts]
      /\ accountAssets' \in [Accounts -> Seq(VTokens)]
  BY <1>6 DEF Inv, TypeOK
<1>8. AssetsMatchMembership'
  BY <1>6 DEF Inv, PositionsCounted, AssetsMatchMembership
<1>9. \A v \in VTokens, a \in Accounts :
        markets'[v].principal[a] > 0 => a \in accountMembership'[v]
  BY <1>5, <1>6 DEF Inv, PositionsCounted, BorrowersAreMembers, NoNewDebtor
<1>10. Inv'
  BY <1>3, <1>4, <1>6, <1>7, <1>8, <1>9, MarketsStep
<1>11. DebtsPlaced
  BY <1>5, <1>6 DEF DebtsPlaced, NoNewDebtor
<1> QED BY <1>10, <1>11

\* LiquidationFair, of one step.
FairlyLiquidated ==
  steady =>
    \A a \in Accounts, b, c \in VTokens :
      seized(a, c) > 0 /\ repaid(a, b) > 0
        => seized(a, c) * mulExp(underlyingPrice[c], exchangeRateStored(markets[c]))
             <= repaid(a, b) *
                  mulExp(getLiquidationParams(userPoolId[a], c)
                           .liquidationIncentiveMantissa, underlyingPrice[b])

\* Who has neither a new principal nor a new index has the same debt.
LEMMA SameBalance ==
  ASSUME NEW n, NEW m, NEW a, n.borrowIndex = m.borrowIndex,
         n.principal[a] = m.principal[a], n.interestIndex[a] = m.interestIndex[a]
  PROVE  borrowBalanceStored(n, a) = borrowBalanceStored(m, a)
  BY DEF borrowBalanceStored

\* A debt that was just written is the principal.
LEMMA FreshBalance ==
  ASSUME NEW m, NEW a, m.principal[a] \in Nat, m.borrowIndex \in Nat \ {0},
         m.interestIndex[a] = m.borrowIndex
  PROVE  borrowBalanceStored(m, a) = m.principal[a]
<1> DEFINE p == m.principal[a]
           i == m.borrowIndex
           x == p * i
           q == x \div i
<1>1. borrowBalanceStored(m, a) = IF p = 0 THEN 0 ELSE q
  BY DEF borrowBalanceStored
<1> HIDE DEF p, i
<1>2. p \in Nat /\ i \in Nat \ {0}
  BY DEF p, i
<1>3. x \in Nat
  BY <1>2
<1> HIDE DEF x
<1>4. q \in Nat /\ q * i <= x /\ x < q * i + i
  BY <1>2, <1>3, DivBounds
<1> HIDE DEF q
<1>5. q <= p /\ p < q + 1
  <2>1. q * i + i = (q + 1) * i /\ q + 1 \in Nat
    BY <1>2, <1>4
  <2>2. q * i <= p * i /\ p * i < (q + 1) * i
    BY <1>4, <2>1 DEF x
  <2> QED BY <1>2, <1>4, <2>1, <2>2, MulCancel
<1>6. q = p
  BY <1>2, <1>4, <1>5
<1> QED BY <1>1, <1>6 DEF p

\* Where nobody loses tokens, or no debt is paid, nobody is liquidated.
LEMMA FairByAbsence ==
  ASSUME Inv, Inv', NobodyLiquidated
  PROVE  FairlyLiquidated
<1>1. SUFFICES ASSUME steady, NEW a \in Accounts, NEW b \in VTokens, NEW c \in VTokens,
                      seized(a, c) > 0, repaid(a, b) > 0
               PROVE  FALSE
  BY DEF FairlyLiquidated
<1>2. /\ markets[c].accountTokens[a] \in Nat /\ markets'[c].accountTokens[a] \in Nat
      /\ borrowBalanceStored(markets[b], a) \in Nat
  BY BorrowBalanceType DEF Inv, TypeOK, MarketsInv, MarketInv, Market
<1>3. markets'[c].accountTokens[a] < markets[c].accountTokens[a]
  BY <1>1, <1>2 DEF seized
<1>4. SameDebts(markets'[b], markets[b])
  BY <1>2, <1>3 DEF NobodyLiquidated, TokensKept
<1>5. markets'[b].borrowIndex = markets[b].borrowIndex
  BY <1>1 DEF steady
<1>6. borrowBalanceStored(markets'[b], a) = borrowBalanceStored(markets[b], a)
  BY <1>4, <1>5, SameBalance DEF SameDebts
<1>7. repaid(a, b) = borrowBalanceStored(markets[b], a) - borrowBalanceStored(markets'[b], a)
  BY DEF repaid, debtOf, borrowBalanceStored
<1> QED BY <1>1, <1>2, <1>6, <1>7

\* What the liquidator gets is priced by the rate before the step, which is
\* not above the rate the seizure was computed at.
LEMMA LiquidationIsFair ==
  ASSUME Inv, NEW liquidator \in Accounts, NEW borrower \in Accounts, NEW vB \in VTokens,
         NEW vC \in VTokens, NEW amount \in Amounts, NEW mB \in Accrued(vB), NEW c0, NEW t,
         LiquidatedWith(liquidator, borrower, vB, vC, amount, mB, c0, t)
  PROVE  FairlyLiquidated
<1> DEFINE n == repayBorrowFresh(mB, borrower, amount)
           cc == moveTokens(c0, borrower, liquidator, t)
<1>1. SUFFICES ASSUME steady, NEW a \in Accounts, NEW b \in VTokens, NEW c \in VTokens,
                      seized(a, c) > 0, repaid(a, b) > 0
               PROVE  seized(a, c) * mulExp(underlyingPrice[c], exchangeRateStored(markets[c]))
                        <= repaid(a, b) *
                             mulExp(getLiquidationParams(userPoolId[a], c)
                                      .liquidationIncentiveMantissa, underlyingPrice[b])
  BY DEF FairlyLiquidated
<1>2. /\ markets' = [v \in VTokens |-> IF v = vC THEN cc ELSE IF v = vB THEN n ELSE markets[v]]
      /\ vB = vC => c0 = n
      /\ canRepay(mB, borrower, amount) /\ exchangeRateDefined(c0)
      /\ mulExp(underlyingPrice[vC], exchangeRateStored(c0)) > 0
      /\ t = mulScalarTruncate(
               divExp(mulExp(getLiquidationParams(userPoolId[borrower], vC)
                               .liquidationIncentiveMantissa, underlyingPrice[vB]),
                      mulExp(underlyingPrice[vC], exchangeRateStored(c0))), amount)
  BY DEF LiquidatedWith
<1>3. /\ MarketInv(n) /\ n.borrowIndex = mB.borrowIndex
      /\ n.accountTokens = markets[vB].accountTokens
      /\ MarketInv(c0) /\ c0.accountTokens = markets[vC].accountTokens
      /\ vB # vC => SameDebts(c0, markets[vC])
      /\ MarketInv(cc) /\ SameDebts(cc, c0)
      /\ cc.borrowIndex = c0.borrowIndex
      /\ equity(cc) = equity(c0) /\ cc.totalSupply = c0.totalSupply
      /\ t \in Nat /\ amount \in Nat
      /\ \A x \in Accounts \ {borrower} :
           cc.accountTokens[x] >= markets[vC].accountTokens[x]
      /\ cc.accountTokens[borrower] = markets[vC].accountTokens[borrower] - t
  BY LiquidatedMarkets
<1>4. /\ MarketInv(mB) /\ mB.borrowIndex \in Nat /\ SameDebts(mB, markets[vB])
  BY AccruedMarket DEF MarketInv, Market
<1>5. /\ \A x \in Accounts \ {borrower} : /\ n.principal[x] = markets[vB].principal[x]
                                          /\ n.interestIndex[x] = markets[vB].interestIndex[x]
      /\ n.principal[borrower] = borrowBalanceStored(mB, borrower) - amount
      /\ n.interestIndex[borrower] = mB.borrowIndex
  BY <1>2, <1>3, <1>4, RepayKeeps DEF SameDebts
<1>6. \A v \in VTokens : markets'[v].borrowIndex = markets[v].borrowIndex
  BY <1>1 DEF steady
<1>7. /\ \A x \in Accounts, v \in VTokens :
           markets[v].accountTokens[x] \in Nat /\ borrowBalanceStored(markets[v], x) \in Nat
  BY BorrowBalanceType DEF Inv, TypeOK, MarketsInv, MarketInv, Market
<1>8. seized(a, c) = markets[c].accountTokens[a] - markets'[c].accountTokens[a]
        /\ repaid(a, b) = borrowBalanceStored(markets[b], a) - borrowBalanceStored(markets'[b], a)
  BY DEF seized, repaid, debtOf, borrowBalanceStored
<1> HIDE DEF n, cc
\* Only the borrower loses tokens, and those in the market of the collateral.
<1>9. c = vC
  <2>1. SUFFICES ASSUME c # vC PROVE FALSE
    OBVIOUS
  <2>2. markets'[c].accountTokens = markets[c].accountTokens
    BY <1>2, <1>3, <2>1
  <2> QED BY <1>1, <1>7, <1>8, <2>2
<1>10. markets'[vC] = cc
  BY <1>2
<1>11. a = borrower
  <2>1. SUFFICES ASSUME a # borrower PROVE FALSE
    OBVIOUS
  <2>2. cc.accountTokens[a] >= markets[vC].accountTokens[a] /\ cc.accountTokens[a] \in Nat
    BY <1>3, <2>1 DEF MarketInv, Market
  <2> QED BY <1>1, <1>7, <1>8, <1>9, <1>10, <2>2
<1>12. seized(a, c) = t /\ t > 0
  BY <1>1, <1>3, <1>7, <1>8, <1>9, <1>10, <1>11
\* Only the debt that the liquidator repays shrinks, by the amount.
<1>13. b = vB
  <2>1. SUFFICES ASSUME b # vB PROVE FALSE
    OBVIOUS
  <2>2. SameDebts(markets'[b], markets[b])
    BY <1>2, <1>3, <2>1 DEF SameDebts
  <2>3. borrowBalanceStored(markets'[b], a) = borrowBalanceStored(markets[b], a)
    BY <1>6, <2>2, SameBalance DEF SameDebts
  <2> QED BY <1>1, <1>7, <1>8, <2>3
<1>14. repaid(a, b) = amount
  <2> DEFINE r == markets'[vB]
             debt == borrowBalanceStored(mB, borrower)
  <2>1. /\ r.principal[borrower] = debt - amount
        /\ r.interestIndex[borrower] = mB.borrowIndex
        /\ r.borrowIndex = mB.borrowIndex
    BY <1>2, <1>3, <1>5 DEF SameDebts
  <2>2. debt = borrowBalanceStored(markets[vB], borrower)
    <3>1. mB.borrowIndex = markets[vB].borrowIndex
      BY <1>6, <2>1
    <3> QED BY <1>4, <3>1, SameBalance DEF SameDebts
  <2>3. debt \in Nat /\ amount <= debt
    BY <1>2, <1>7, <2>2 DEF canRepay
  <2>4. mB.borrowIndex \in Nat \ {0}
    BY <1>4, ExpScaleAssumption DEF MarketInv, snapshotsReached
  <2>5. borrowBalanceStored(r, borrower) = debt - amount
    <3> HIDE DEF debt, r
    <3>1. r.principal[borrower] \in Nat /\ r.borrowIndex \in Nat \ {0}
      BY <1>3, <2>1, <2>3, <2>4
    <3> QED BY <2>1, <3>1, FreshBalance
  <2> QED BY <1>8, <1>11, <1>13, <2>2, <2>3, <2>5, <1>3
\* The exchange rate at the seizure.
<1> DEFINE R == exchangeRateStored(c0)
           S == exchangeRateStored(markets[vC])
<1>15. R \in Nat /\ S \in Int /\ S <= R
  <2>1. R \in Nat
    BY <1>2, <1>3, ExchangeRateFacts DEF MarketInv
  <2>2. cc.totalSupply > 0
    <3>1. markets[vC].accountTokens[borrower] >= t
      <4>1. cc.accountTokens[borrower] \in Nat
        BY <1>3 DEF MarketInv, Market
      <4> QED BY <1>3, <1>7, <4>1
    <3>2. /\ c0.accountTokens \in [Accounts -> Nat]
          /\ c0.totalSupply = Total(c0.accountTokens)
      BY <1>3 DEF MarketInv, Market, tokensConserved
    <3>3. c0.accountTokens[borrower] <= Total(c0.accountTokens) /\ Total(c0.accountTokens) \in Nat
      BY <3>2, MarketAssumption, TotalBounds
    <3> QED BY <1>3, <1>7, <1>12, <3>1, <3>2, <3>3
  <2>3. exchangeRateStored(cc) = R
    BY <1>3 DEF exchangeRateStored
  <2>4. exchangeRateStored(markets'[vC]) = exchangeRateStored(markets[vC])'
    BY DEF exchangeRateStored, equity
  <2>5. exchangeRateStored(cc) >= S
    BY <1>1, <1>10, <2>2, <2>4 DEF steady
  <2>6. S \in Int
    <3>1. markets[vC] \in Market
      BY MarketBefore
    <3>2. equity(markets[vC]) \in Int /\ markets[vC].totalSupply \in Nat
      BY <3>1, EquityType DEF Market
    <3>3. equity(markets[vC]) * expScale \in Int
      BY <3>2, ExpScaleAssumption
    <3>4. CASE markets[vC].totalSupply = 0
      BY <3>4, MarketAssumption DEF exchangeRateStored
    <3>5. CASE markets[vC].totalSupply # 0
      BY <3>2, <3>3, <3>5 DEF exchangeRateStored, getExp
    <3> QED BY <3>4, <3>5
  <2> QED BY <2>1, <2>3, <2>5, <2>6
<1> DEFINE incentive == getLiquidationParams(userPoolId[borrower], vC).liquidationIncentiveMantissa
           A == mulExp(incentive, underlyingPrice[vB])
           B == mulExp(underlyingPrice[vC], R)
           C == mulExp(underlyingPrice[vC], S)
<1>16. A \in Nat /\ B \in Nat \ {0} /\ C \in Int /\ C <= B
  <2>1. underlyingPrice \in [VTokens -> Nat] /\ userPoolId[borrower] \in Pools
    BY DEF Inv, TypeOK
  <2>2. incentive \in Nat
    BY <2>1, LiquidationParams DEF PoolMarket
  <2> DEFINE p == underlyingPrice[vC]
             q == underlyingPrice[vB]
  <2>3. p \in Nat /\ q \in Nat
    BY <2>1
  <2> HIDE DEF p, q, incentive, R, S
  <2>4. incentive * q \in Nat /\ p * R \in Nat /\ p * S \in Int /\ p * S <= p * R
    BY <1>15, <2>2, <2>3
  <2>5. A \in Nat
    BY <2>4, ExpScaleAssumption, DivBounds DEF mulExp, q
  <2>6. B \in Nat
    BY <2>4, ExpScaleAssumption, DivBounds DEF mulExp, p
  <2>7. C <= B
    BY <2>4, ExpScaleAssumption, DivMonotone DEF mulExp, p
  <2>8. C \in Int
    <3> DEFINE x == p * S
    <3> HIDE DEF x
    <3>1. x \in Int => x \div expScale \in Int
      BY ExpScaleAssumption
    <3> QED BY <2>4, <3>1 DEF mulExp, p, x
  <2> HIDE DEF A, B, C
  <2>9. B > 0
    BY <1>2 DEF B, R
  <2> QED BY <2>5, <2>6, <2>7, <2>8, <2>9
<1> HIDE DEF A, B, C
<1>17. t * B <= amount * A
  <2>1. t = mulScalarTruncate(divExp(A, B), amount)
    BY <1>2 DEF A, B
  <2> QED BY <1>3, <1>16, <2>1, SeizeBounded
<1>18. t * C <= amount * A
  <2>1. t * C <= t * B
    BY <1>3, <1>16
  <2>2. t * C \in Int /\ t * B \in Int /\ amount * A \in Int
    BY <1>3, <1>16
  <2> DEFINE x == t * C
             y == t * B
             z == amount * A
  <2> HIDE DEF x, y, z
  <2>3. x <= y /\ y <= z /\ x \in Int /\ y \in Int /\ z \in Int
    BY <1>17, <2>1, <2>2 DEF x, y, z
  <2>4. x <= z
    BY <2>3
  <2> QED BY <2>4 DEF x, z
<1> QED BY <1>9, <1>11, <1>12, <1>13, <1>14, <1>18, Zenon DEF A, C

-----------------------------------------------------------------------------
(* The invariant of the specification. *)

\* The invariant holds initially.
LEMMA InitEstablishes ==
  ASSUME Init
  PROVE  Inv
<1>1. /\ markets = InitialMarkets
      /\ accountMembership = [v \in VTokens |-> {}]
      /\ accountAssets = [a \in Accounts |-> <<>>]
      /\ userPoolId = [a \in Accounts |-> corePoolId]
      /\ _poolMarkets = InitialPoolMarkets
      /\ pools = InitialPools
      /\ allMarkets = {v \in VTokens : InitialPoolMarkets[corePoolId][v].isListed}
      /\ supplyCaps = InitialSupplyCaps /\ borrowCaps = InitialBorrowCaps
      /\ _actionPaused = [v \in VTokens |-> {}]
      /\ protocolPaused = FALSE
      /\ closeFactorMantissa = InitialCloseFactor
      /\ isForcedLiquidationEnabled = {}
      /\ isForcedLiquidationEnabledForUser = {}
      /\ underlyingPrice = InitialPrices
      /\ blockNumber = 1
  BY DEF Init, InitWith
<1>2. lastPoolId = Max({corePoolId} \cup {p \in Pools : InitialPools[p].isActive})
  BY DEF Init, InitWith
<1>3. corePoolId \in Pools
  BY ComptrollerAssumption DEF Pools, corePoolId
<1>4. lastPoolId \in Pools
  <2> DEFINE P == {corePoolId} \cup {p \in Pools : InitialPools[p].isActive}
             D == {MaxPoolId - p : p \in P}
  <2>1. P \subseteq Pools /\ MaxPoolId \in Nat /\ corePoolId \in P
    BY <1>3, ComptrollerAssumption
  <2>2. Pools = 0 .. MaxPoolId
    BY DEF Pools, corePoolId
  <2>3. lastPoolId = Max(P)
    BY <1>2
  <2> HIDE DEF P
  <2>4. D \subseteq Nat /\ D # {}
    BY <2>1, <2>2
  <2>5. PICK d \in D : \A k \in D : d <= k
    BY <2>4, LeastNatural
  <2>6. PICK p \in P : d = MaxPoolId - p
    OBVIOUS
  <2>7. \A q \in P : q <= p
    <3>1. SUFFICES ASSUME NEW q \in P PROVE q <= p
      OBVIOUS
    <3>2. d <= MaxPoolId - q
      BY <2>5
    <3> QED BY <2>1, <2>2, <2>6, <3>2
  <2>8. Max(P) \in P
    BY <2>7, Zenon DEF Max
  <2> QED BY <2>1, <2>3, <2>8
<1>5. TypeOK
  <2>1. allMarkets \subseteq VTokens /\ userPoolId \in [Accounts -> Pools]
    BY <1>1, <1>3
  <2>2. /\ accountMembership \in [VTokens -> SUBSET Accounts]
        /\ _actionPaused \in [VTokens -> SUBSET Action]
        /\ accountAssets \in [Accounts -> Seq(VTokens)]
    BY <1>1
  <2>3. /\ markets \in [VTokens -> Market]
        /\ _poolMarkets \in [Pools -> [VTokens -> PoolMarket]]
        /\ pools \in [Pools -> Pool]
        /\ supplyCaps \in [VTokens -> Nat] /\ borrowCaps \in [VTokens -> Nat]
        /\ underlyingPrice \in [VTokens -> Nat] /\ closeFactorMantissa \in Nat
    BY <1>1, InitialAssumption
  <2>4. protocolPaused \in BOOLEAN /\ blockNumber \in Nat
    BY <1>1
  <2>5. /\ isForcedLiquidationEnabled \subseteq VTokens
        /\ isForcedLiquidationEnabledForUser \subseteq Accounts \X VTokens
    BY <1>1
  <2> QED BY <1>4, <2>1, <2>2, <2>3, <2>4, <2>5 DEF TypeOK
<1>6. MarketsInv
  <2>1. SUFFICES ASSUME NEW v \in VTokens
                 PROVE  MarketInv(InitialMarkets[v]) /\ Timely(InitialMarkets[v], 1)
    BY <1>1 DEF MarketsInv
  <2>2. InitialMarkets[v] \in Market /\ tokensConserved(InitialMarkets[v])
          /\ Timely(InitialMarkets[v], 1)
    BY InitialAssumption DEF Timely
  <2>3. snapshotsReached(InitialMarkets[v])
    BY InitialAssumption DEF snapshotsReached
  <2> QED BY <2>2, <2>3 DEF MarketInv
<1>7. PositionsCounted
  <2>1. AssetsMatchMembership
    <3>1. SUFFICES ASSUME NEW a \in Accounts
                   PROVE  /\ ToSet(accountAssets[a]) = {v \in VTokens : a \in accountMembership[v]}
                          /\ IsInjective(accountAssets[a])
      BY DEF AssetsMatchMembership
    <3>2. accountAssets[a] = <<>> /\ DOMAIN <<>> = {}
      BY <1>1
    <3>3. \A v \in VTokens : accountMembership[v] = {}
      BY <1>1
    <3> QED BY <3>2, <3>3 DEF ToSet, IsInjective
  <2>2. BorrowersAreMembers
    BY <1>1, InitialAssumption DEF BorrowersAreMembers
  <2> QED BY <2>1, <2>2 DEF PositionsCounted
<1>8. FactorsOrdered
  BY <1>1, InitialAssumption DEF FactorsOrdered
<1>9. UnlistedStaysFrozen
  BY <1>1 DEF UnlistedStaysFrozen, isListed
<1> QED BY <1>5, <1>6, <1>7, <1>8, <1>9 DEF Inv

\* The steps of the operations of the markets.
LEMMA MarketSteps ==
  ASSUME Inv, MarketStep
  PROVE  StepOK
<1>1. PICK a \in Accounts, v \in VTokens :
        \/ AccrueInterest(v)
        \/ \E n \in Amounts :
             \/ Mint(a, v, n) \/ Redeem(a, v, n) \/ RedeemUnderlying(a, v, n)
             \/ Borrow(a, v, n) \/ RepayBorrow(a, v, n)
             \/ \E dst \in Accounts : Transfer(a, dst, v, n)
  BY DEF MarketStep
<1>2. CASE AccrueInterest(v)
  BY <1>2, AccrueInterestStep
<1>3. ASSUME NEW n \in Amounts, Mint(a, v, n) PROVE StepOK
  BY <1>3, MintStep
<1>4. ASSUME NEW n \in Amounts, Redeem(a, v, n) \/ RedeemUnderlying(a, v, n) PROVE StepOK
  BY <1>4, RedeemSteps
<1>5. ASSUME NEW n \in Amounts, Borrow(a, v, n) PROVE StepOK
  BY <1>5, BorrowStep
<1>6. ASSUME NEW n \in Amounts, RepayBorrow(a, v, n) PROVE StepOK
  BY <1>6, RepayStep
<1>7. ASSUME NEW n \in Amounts, NEW dst \in Accounts, Transfer(a, dst, v, n) PROVE StepOK
  BY <1>7, TransferStep
<1> QED BY <1>1, <1>2, <1>3, <1>4, <1>5, <1>6, <1>7

\* The steps of listings and pools.
LEMMA ListingAndPoolSteps ==
  ASSUME Inv, PoolStep \/ ListingStep
  PROVE  StepOK
<1>1. CASE PoolStep
  <2>1. CASE CreatePool
    <3>1. corePoolId \in Pools
      BY ComptrollerAssumption DEF Pools, corePoolId
    <3> QED BY <2>1, <3>1, PoolSteps
  <2>2. ASSUME NEW pool \in Pools, NEW v \in VTokens, NEW flag \in BOOLEAN,
               \/ AddPoolMarket(pool, v) \/ RemovePoolMarket(pool, v)
               \/ SetIsBorrowAllowed(pool, v, flag)
        PROVE  StepOK
    BY <2>2, PoolMarketSteps
  <2>3. ASSUME NEW pool \in Pools, NEW flag \in BOOLEAN,
               SetPoolActive(pool, flag) \/ SetAllowCorePoolFallback(pool, flag)
        PROVE  StepOK
    BY <2>3, PoolSteps
  <2> QED BY <1>1, <2>1, <2>2, <2>3 DEF PoolStep
<1>2. CASE ListingStep
  <2>1. PICK v \in VTokens, flag \in BOOLEAN :
          \/ SupportMarket(v) \/ UnlistMarket(v)
          \/ \E cap \in Caps : SetMarketSupplyCap(v, cap) \/ SetMarketBorrowCap(v, cap)
          \/ SetActionsPaused(v, Action, flag)
          \/ \E action \in PausableActions : SetActionsPaused(v, {action}, flag)
    BY <1>2 DEF ListingStep
  <2>2. CASE SupportMarket(v) \/ UnlistMarket(v)
    BY <2>2, ListingSteps
  <2>3. ASSUME NEW cap \in Caps, SetMarketSupplyCap(v, cap) \/ SetMarketBorrowCap(v, cap)
        PROVE  StepOK
    BY <2>3, CapSteps
  <2>4. ASSUME NEW actions \in SUBSET Action, SetActionsPaused(v, actions, flag)
        PROVE  StepOK
    BY <2>4, PauseStep
  <2>5. Action \in SUBSET Action /\ \A action \in PausableActions : {action} \in SUBSET Action
    BY ComptrollerAssumption
  <2> QED BY <2>1, <2>2, <2>3, <2>4, <2>5
<1> QED BY <1>1, <1>2

\* Every step keeps the invariant, places debts only where their pool allows them,
\* and liquidates fairly.
LEMMA NextKeeps ==
  ASSUME Inv, [Next]_vars
  PROVE  Inv' /\ DebtsPlaced /\ FairlyLiquidated
<1>1. ASSUME StepOK PROVE Inv' /\ DebtsPlaced /\ FairlyLiquidated
  BY <1>1, FairByAbsence DEF StepOK
<1>2. CASE UNCHANGED vars
  <2>1. /\ UNCHANGED <<markets, membershipVars, poolVars, settingVars, environmentVars>>
    BY <1>2 DEF vars
  <2>2. TypeOK' /\ FactorsOrdered' /\ UnlistedStaysFrozen' /\ blockNumber' >= blockNumber
    BY <2>1 DEF Inv, TypeOK, FactorsOrdered, UnlistedStaysFrozen, isListed, membershipVars,
                poolVars, settingVars, environmentVars
  <2> QED BY <1>1, <2>1, <2>2, PositionsStill
<1>3. CASE MarketStep
  BY <1>1, <1>3, MarketSteps
<1>4. CASE LiquidationStep
  <2>1. PICK liquidator \in Accounts, borrower \in Accounts, vB \in VTokens, vC \in VTokens,
             amount \in Amounts : LiquidateBorrow(liquidator, borrower, vB, vC, amount)
    BY <1>4 DEF LiquidationStep
  <2>2. PICK mB \in Accrued(vB) : \E c0, t :
          LiquidatedWith(liquidator, borrower, vB, vC, amount, mB, c0, t)
    BY <2>1, LiquidateFacts
  <2>3. PICK c0, t : LiquidatedWith(liquidator, borrower, vB, vC, amount, mB, c0, t)
    BY <2>2
  <2> QED BY <2>3, LiquidateStep, LiquidationIsFair
<1>5. CASE MembershipStep
  BY <1>1, <1>5, MembershipStepKeeps DEF MembershipStep
<1>6. CASE PoolChoiceStep
  BY <1>1, <1>6, EnterPoolStep DEF PoolChoiceStep
<1>7. CASE ForcedStep \/ SettingStep
  BY <1>1, <1>7, SettingSteps
<1>8. CASE RiskStep
  BY <1>1, <1>8, RiskSteps
<1>9. CASE PoolStep \/ ListingStep
  BY <1>1, <1>9, ListingAndPoolSteps
<1>10. CASE EnvironmentStep
  BY <1>1, <1>10, EnvironmentSteps
<1> QED BY <1>2, <1>3, <1>4, <1>5, <1>6, <1>7, <1>8, <1>9, <1>10 DEF Next

\* In every behaviour of the comptroller and its markets the invariant holds:
\* types, the books of each market, the record of who has entered what, the
\* order of the two factors, and the freeze of unlisted markets.
THEOREM Invariance == Spec => []Inv
<1>1. Init => Inv
  BY InitEstablishes
<1>2. Inv /\ [Next]_vars => Inv'
  BY NextKeeps
<1> QED BY <1>1, <1>2, PTL DEF Spec

\* TypeOK is the type invariant: no call, setter or pool leaves the types.
THEOREM TypeCorrect == Spec => []TypeOK
<1>1. Inv => TypeOK
  BY DEF Inv
<1> QED BY <1>1, Invariance, PTL

\* Every debt is in the liquidity calculation and every market is counted once
\* (PositionsCounted), after any sequence of borrows, repayments, liquidations,
\* transfers, entries and exits: exitMarket cannot drop a market with a debt,
\* because a balance of 0 means that the principal is 0 too.
THEOREM DebtsAreCounted == Spec => []PositionsCounted
<1>1. Inv => PositionsCounted
  BY DEF Inv
<1> QED BY <1>1, Invariance, PTL

\* unlistMarket is final (UnlistedStaysFrozen): whatever governance does later,
\* every action of a market that has left the list stays paused and its
\* collateral factor stays 0.
THEOREM UnlistedForGood == Spec => []UnlistedStaysFrozen
<1>1. Inv => UnlistedStaysFrozen
  BY DEF Inv
<1> QED BY <1>1, Invariance, PTL

\* An account in a pool only owes what the pool lets its members borrow
\* (PoolDebtsAllowed): the checks of borrowAllowed and hasValidPoolBorrows
\* leave no way around isBorrowAllowed.
THEOREM PoolsKeepTheirDebts == Spec => PoolDebtsAllowed
<1>1. Inv /\ [Next]_vars =>
        [UNCHANGED _poolMarkets =>
           \A a \in Accounts, v \in VTokens : misplaced(a, v)' => misplaced(a, v)]_vars
  <2>1. SUFFICES ASSUME Inv, [Next]_vars, UNCHANGED _poolMarkets,
                        NEW a \in Accounts, NEW v \in VTokens, misplaced(a, v)'
                 PROVE  misplaced(a, v)
    OBVIOUS
  <2>2. DebtsPlaced
    BY <2>1, NextKeeps
  <2>3. /\ markets'[v].principal[a] > 0
        /\ ~_poolMarkets[userPoolId'[a]][v].isBorrowAllowed
    BY <2>1 DEF misplaced
  <2>4. markets[v].principal[a] > 0 /\ userPoolId'[a] = userPoolId[a]
    BY <2>2, <2>3 DEF DebtsPlaced
  <2> QED BY <2>3, <2>4 DEF misplaced
<1> QED BY <1>1, Invariance, PTL DEF PoolDebtsAllowed, Spec

\* A liquidator never gets more value than it repaid plus the incentive
\* (LiquidationFair), whatever the prices, the exchange rate and the scale:
\* every truncation of liquidateCalculateSeizeTokens is in the borrower's favour.
THEOREM LiquidationsAreFair == Spec => LiquidationFair
<1>1. Inv /\ [Next]_vars => FairlyLiquidated
  BY NextKeeps
<1>2. [][FairlyLiquidated]_vars => LiquidationFair
  BY Zenon DEF LiquidationFair, FairlyLiquidated
<1> QED BY <1>1, <1>2, Invariance, PTL DEF Spec

-----------------------------------------------------------------------------
(* The two ways to weigh a position. *)

\* The factors of a market stand in the order of the risk parameters, and what
\* they say a token is worth follows.
LEMMA DenomOrdered ==
  ASSUME Inv, NEW pool \in Pools, NEW v \in VTokens, NEW ms, ms[v] \in Market,
         exchangeRateDefined(ms[v])
  PROVE  LET cf == tokensToDenom(ms, pool, v, USE_COLLATERAL_FACTOR)
             lt == tokensToDenom(ms, pool, v, USE_LIQUIDATION_THRESHOLD)
         IN  cf \in Nat /\ lt \in Nat /\ cf <= lt
<1> DEFINE params == getLiquidationParams(pool, v)
           cf == params.collateralFactorMantissa
           lt == params.liquidationThresholdMantissa
           rate == exchangeRateStored(ms[v])
           price == underlyingPrice[v]
<1>1. cf \in Nat /\ lt \in Nat /\ cf <= lt
  BY LiquidationParams DEF PoolMarket
<1>2. rate \in Nat
  BY ExchangeRateFacts
<1>3. price \in Nat
  BY DEF Inv, TypeOK
<1>4. /\ tokensToDenom(ms, pool, v, USE_COLLATERAL_FACTOR) = mulExp(mulExp(cf, rate), price)
      /\ tokensToDenom(ms, pool, v, USE_LIQUIDATION_THRESHOLD) = mulExp(mulExp(lt, rate), price)
  BY DEF tokensToDenom, USE_COLLATERAL_FACTOR, USE_LIQUIDATION_THRESHOLD
<1>5. ASSUME NEW x \in Nat, NEW y \in Nat, NEW k \in Nat, x <= y
      PROVE  mulExp(x, k) \in Nat /\ mulExp(y, k) \in Nat /\ mulExp(x, k) <= mulExp(y, k)
  <2>1. x * k \in Nat /\ y * k \in Nat /\ x * k <= y * k
    BY <1>5, MulMonotone
  <2> DEFINE p == x * k
             q == y * k
  <2> HIDE DEF p, q
  <2>2. p \div expScale \in Nat /\ q \div expScale \in Nat
    BY <2>1, ExpScaleAssumption, DivBounds DEF p, q
  <2>3. p \div expScale <= q \div expScale
    BY <2>1, ExpScaleAssumption, DivMonotone DEF p, q
  <2> QED BY <2>2, <2>3 DEF mulExp, p, q
<1> HIDE DEF cf, lt, rate, price
<1>6. /\ mulExp(cf, rate) \in Nat /\ mulExp(lt, rate) \in Nat
      /\ mulExp(cf, rate) <= mulExp(lt, rate)
  BY <1>1, <1>2, <1>5
<1>7. /\ mulExp(mulExp(cf, rate), price) \in Nat /\ mulExp(mulExp(lt, rate), price) \in Nat
      /\ mulExp(mulExp(cf, rate), price) <= mulExp(mulExp(lt, rate), price)
  BY <1>3, <1>5, <1>6
<1> QED BY <1>4, <1>7

\* Rates that do not fall do not lower what a token is worth.
LEMMA DenomMonotone ==
  ASSUME Inv, NEW pool \in Pools, NEW v \in VTokens,
         NEW ms, ms[v] \in Market, exchangeRateDefined(ms[v]),
         NEW ns, ns[v] \in Market, exchangeRateDefined(ns[v]),
         exchangeRateStored(ms[v]) <= exchangeRateStored(ns[v])
  PROVE  tokensToDenom(ms, pool, v, USE_COLLATERAL_FACTOR)
           <= tokensToDenom(ns, pool, v, USE_COLLATERAL_FACTOR)
<1> DEFINE cf == getLiquidationParams(pool, v).collateralFactorMantissa
           x == exchangeRateStored(ms[v])
           y == exchangeRateStored(ns[v])
           price == underlyingPrice[v]
<1>1. cf \in Nat /\ x \in Nat /\ y \in Nat /\ x <= y /\ price \in Nat
  BY LiquidationParams, ExchangeRateFacts DEF PoolMarket, Inv, TypeOK
<1>2. /\ tokensToDenom(ms, pool, v, USE_COLLATERAL_FACTOR) = mulExp(mulExp(cf, x), price)
      /\ tokensToDenom(ns, pool, v, USE_COLLATERAL_FACTOR) = mulExp(mulExp(cf, y), price)
  BY DEF tokensToDenom, USE_COLLATERAL_FACTOR
<1> HIDE DEF cf, x, y, price
<1>3. cf * x \in Nat /\ cf * y \in Nat /\ cf * x <= cf * y
  <2>1. x * cf <= y * cf
    BY <1>1, MulMonotone
  <2> QED BY <1>1, <2>1
<1> DEFINE p == mulExp(cf, x)
           q == mulExp(cf, y)
<1>4. p \in Nat /\ q \in Nat /\ p <= q
  <2> DEFINE u == cf * x
             w == cf * y
  <2> HIDE DEF u, w
  <2>1. u \div expScale \in Nat /\ w \div expScale \in Nat
    BY <1>3, ExpScaleAssumption, DivBounds DEF u, w
  <2>2. u \div expScale <= w \div expScale
    BY <1>3, ExpScaleAssumption, DivMonotone DEF u, w
  <2> QED BY <2>1, <2>2 DEF mulExp, u, w
<1> HIDE DEF p, q
<1>5. p * price \in Nat /\ q * price \in Nat /\ p * price <= q * price
  BY <1>1, <1>4, MulMonotone
<1>6. mulExp(p, price) <= mulExp(q, price)
  <2> DEFINE u == p * price
             w == q * price
  <2> HIDE DEF u, w
  <2>1. u \div expScale <= w \div expScale
    BY <1>5, ExpScaleAssumption, DivMonotone DEF u, w
  <2> QED BY <2>1 DEF mulExp, u, w
<1> QED BY <1>2, <1>6 DEF p, q

\* A higher factor never weighs the same tokens less.
LEMMA WeighedTokensOrdered ==
  ASSUME NEW x \in Nat, NEW y \in Nat, x <= y, NEW tokens \in Nat
  PROVE  /\ mulScalarTruncate(x, tokens) \in Nat /\ mulScalarTruncate(y, tokens) \in Nat
         /\ mulScalarTruncate(x, tokens) <= mulScalarTruncate(y, tokens)
<1>1. x * tokens \in Nat /\ y * tokens \in Nat /\ x * tokens <= y * tokens
  BY MulMonotone
<1> DEFINE p == x * tokens
           q == y * tokens
<1> HIDE DEF p, q
<1>2. p \div expScale <= q \div expScale
  BY <1>1, ExpScaleAssumption, DivMonotone DEF p, q
<1>3. mulScalarTruncate(x, tokens) <= mulScalarTruncate(y, tokens)
  BY <1>2 DEF mulScalarTruncate, truncate, p, q
<1> QED BY <1>3, MulScalarBounds

\* Thresholds that are not below the factors leave no safe borrower liquidatable.
LEMMA InvImpliesSafeBorrowers ==
  ASSUME Inv
  PROVE  BorrowableIsNotLiquidatable
<1>1. SUFFICES ASSUME NEW a \in Accounts, known(a), shortfall(a, USE_COLLATERAL_FACTOR) = 0
               PROVE  shortfall(a, USE_LIQUIDATION_THRESHOLD) = 0
  BY DEF BorrowableIsNotLiquidatable
<1> DEFINE assets == accountAssets[a]
           pool == userPoolId[a]
           D == getAssetsIn(assets)
           worth(weight) == [i \in D |->
                              mulScalarTruncate(tokensToDenom(markets, pool, assets[i], weight),
                                                markets[assets[i]].accountTokens[a])]
           owed == [i \in D |-> mulScalarTruncate(underlyingPrice[assets[i]],
                                  borrowBalanceStored(markets[assets[i]], a))]
           cf == worth(USE_COLLATERAL_FACTOR)
           lt == worth(USE_LIQUIDATION_THRESHOLD)
<1>2. assets \in Seq(VTokens) /\ pool \in Pools
  BY DEF Inv, TypeOK
<1>3. IsFiniteSet(D) /\ \A i \in D : assets[i] \in VTokens
  <2>1. Len(assets) \in Nat /\ D \subseteq 1 .. Len(assets)
    BY <1>2 DEF getAssetsIn
  <2>2. IsFiniteSet(1 .. Len(assets))
    BY <2>1, FS_Interval
  <2> QED BY <1>2, <2>1, <2>2, FS_Subset
<1>4. \A i \in D : exchangeRateDefined(markets[assets[i]])
  BY <1>1 DEF known, positionKnown
<1> HIDE DEF assets, pool, D
<1>5. ASSUME NEW i \in D
      PROVE  cf[i] \in Nat /\ lt[i] \in Nat /\ cf[i] <= lt[i] /\ owed[i] \in Nat
  <2> DEFINE v == assets[i]
  <2>1. v \in VTokens
    BY <1>3
  <2> HIDE DEF v
  <2>2. markets[v] \in Market /\ snapshotsReached(markets[v])
    BY <2>1, MarketBefore DEF MarketInv
  <2>3. /\ markets[v].accountTokens[a] \in Nat /\ borrowBalanceStored(markets[v], a) \in Nat
        /\ underlyingPrice[v] \in Nat
    BY <2>1, <2>2, BorrowBalanceType DEF Market, Inv, TypeOK
  <2>4. /\ cf[i] = mulScalarTruncate(tokensToDenom(markets, pool, v, USE_COLLATERAL_FACTOR),
                                     markets[v].accountTokens[a])
        /\ lt[i] = mulScalarTruncate(tokensToDenom(markets, pool, v, USE_LIQUIDATION_THRESHOLD),
                                     markets[v].accountTokens[a])
        /\ owed[i] = mulScalarTruncate(underlyingPrice[v], borrowBalanceStored(markets[v], a))
    BY <1>5 DEF v
  <2>5. exchangeRateDefined(markets[v])
    BY <1>4, <1>5 DEF v
  <2> HIDE DEF cf, lt, owed
  <2> DEFINE x == tokensToDenom(markets, pool, v, USE_COLLATERAL_FACTOR)
             y == tokensToDenom(markets, pool, v, USE_LIQUIDATION_THRESHOLD)
  <2>6. x \in Nat /\ y \in Nat /\ x <= y
    BY <1>2, <2>1, <2>2, <2>5, DenomOrdered
  <2> DEFINE tokens == markets[v].accountTokens[a]
  <2>7. /\ cf[i] = mulScalarTruncate(x, tokens) /\ lt[i] = mulScalarTruncate(y, tokens)
        /\ tokens \in Nat
    BY <2>3, <2>4
  <2> HIDE DEF x, y, tokens
  <2>8. cf[i] \in Nat /\ lt[i] \in Nat /\ cf[i] <= lt[i]
    <3>1. /\ mulScalarTruncate(x, tokens) \in Nat /\ mulScalarTruncate(y, tokens) \in Nat
          /\ mulScalarTruncate(x, tokens) <= mulScalarTruncate(y, tokens)
      BY <2>6, <2>7, WeighedTokensOrdered
    <3> QED BY <2>7, <3>1
  <2>9. owed[i] \in Nat
    BY <2>3, <2>4, MulScalarBounds
  <2> QED BY <2>8, <2>9
<1>6. /\ DOMAIN cf = D /\ DOMAIN lt = D /\ DOMAIN owed = D
      /\ cf \in [D -> Nat] /\ lt \in [D -> Nat] /\ owed \in [D -> Nat]
  BY <1>5
<1> HIDE DEF worth, owed
<1>7. Total(cf) \in Nat /\ Total(lt) \in Nat /\ Total(owed) \in Nat /\ Total(cf) <= Total(lt)
  <2> HIDE DEF cf, lt
  <2> QED BY <1>3, <1>5, <1>6, TotalBounds, TotalMonotone
<1> DEFINE atFactor == sumCollateral(markets, accountAssets[a], userPoolId[a], a,
                                      USE_COLLATERAL_FACTOR)
           atThreshold == sumCollateral(markets, accountAssets[a], userPoolId[a], a,
                                        USE_LIQUIDATION_THRESHOLD)
           borrowed == sumBorrow(markets, accountAssets[a], a)
<1>8. atFactor = Total(cf) /\ atThreshold = Total(lt) /\ borrowed = Total(owed)
  BY Zenon DEF sumCollateral, sumBorrow, cf, lt, worth, owed, D, assets, pool
<1>9. shortfall(a, USE_COLLATERAL_FACTOR) =
        IF atFactor > borrowed + 0 THEN 0 ELSE (borrowed + 0) - atFactor
  BY DEF shortfall, shortfallOf
<1>10. shortfall(a, USE_LIQUIDATION_THRESHOLD) =
         IF atThreshold > borrowed + 0 THEN 0 ELSE (borrowed + 0) - atThreshold
  BY DEF shortfall, shortfallOf
<1> HIDE DEF cf, lt, atFactor, atThreshold, borrowed
<1>11. /\ atFactor \in Nat /\ atThreshold \in Nat /\ borrowed \in Nat
       /\ atFactor <= atThreshold
  BY <1>7, <1>8
<1> QED BY <1>1, <1>9, <1>10, <1>11

\* Who may still borrow cannot be liquidated (BorrowableIsNotLiquidatable), in
\* every pool, with and without the fallback to the core pool, and however the
\* sums of the lens truncate: setCollateralFactor keeps each factor below its
\* threshold and every term of the sum is monotone in it.
THEOREM BorrowersAreSafe == Spec => []BorrowableIsNotLiquidatable
<1>1. Inv => BorrowableIsNotLiquidatable
  BY InvImpliesSafeBorrowers
<1> QED BY <1>1, Invariance, PTL

-----------------------------------------------------------------------------
(* A call leaves its caller at most a unit short.  The lens adds up over    *)
(* the places of a list; by market the sums are easier to compare.          *)

Worth(ms, pool, a, v) ==
  mulScalarTruncate(tokensToDenom(ms, pool, v, USE_COLLATERAL_FACTOR),
                    ms[v].accountTokens[a])

Owed(ms, a, v) == mulScalarTruncate(underlyingPrice[v], borrowBalanceStored(ms[v], a))

Counted(assets) == {v \in ToSet(assets) : isListed(v)}

\* Markets that the lens can look at.
Readable(ms) ==
  ms \in [VTokens -> Market] /\ \A v \in VTokens : MarketInv(ms[v])

\* What a position is worth and what is owed on it are natural numbers.
LEMMA PositionTypes ==
  ASSUME Inv, NEW ms, Readable(ms), NEW pool \in Pools, NEW a \in Accounts,
         NEW v \in VTokens, exchangeRateDefined(ms[v])
  PROVE  Worth(ms, pool, a, v) \in Nat /\ Owed(ms, a, v) \in Nat
<1>1. ms[v] \in Market /\ snapshotsReached(ms[v])
  BY DEF Readable, MarketInv
<1>2. /\ ms[v].accountTokens[a] \in Nat /\ borrowBalanceStored(ms[v], a) \in Nat
      /\ underlyingPrice[v] \in Nat
  BY <1>1, BorrowBalanceType DEF Market, Inv, TypeOK
<1> DEFINE x == tokensToDenom(ms, pool, v, USE_COLLATERAL_FACTOR)
<1>3. x \in Nat
  BY <1>1, DenomOrdered
<1> HIDE DEF x
<1>4. mulScalarTruncate(x, ms[v].accountTokens[a]) \in Nat
  BY <1>2, <1>3, MulScalarBounds
<1>5. mulScalarTruncate(underlyingPrice[v], borrowBalanceStored(ms[v], a)) \in Nat
  BY <1>2, MulScalarBounds
<1> QED BY <1>4, <1>5 DEF Worth, Owed, x

\* The sums of the lens, along the list of assets, are sums over the set of markets.
LEMMA SumsByMarket ==
  ASSUME Inv, NEW ms, Readable(ms), NEW assets \in Seq(VTokens), IsInjective(assets),
         positionKnown(ms, assets), NEW pool \in Pools, NEW a \in Accounts
  PROVE  LET L == Counted(assets)
             f == [v \in L |-> Worth(ms, pool, a, v)]
             g == [v \in L |-> Owed(ms, a, v)]
         IN  /\ IsFiniteSet(L) /\ f \in [L -> Nat] /\ g \in [L -> Nat]
             /\ sumCollateral(ms, assets, pool, a, USE_COLLATERAL_FACTOR) = Total(f)
             /\ sumBorrow(ms, assets, a) = Total(g)
<1> DEFINE L == Counted(assets)
           f == [v \in L |-> Worth(ms, pool, a, v)]
           g == [v \in L |-> Owed(ms, a, v)]
           D == getAssetsIn(assets)
           h == [i \in D |-> assets[i]]
           p == [i \in D |-> Worth(ms, pool, a, assets[i])]
           q == [i \in D |-> Owed(ms, a, assets[i])]
<1>1. /\ D \subseteq 1 .. Len(assets) /\ Len(assets) \in Nat
      /\ DOMAIN assets = 1 .. Len(assets)
      /\ \A i \in 1 .. Len(assets) : assets[i] \in VTokens
  BY DEF getAssetsIn
<1>2. IsFiniteSet(D)
  <2>1. IsFiniteSet(1 .. Len(assets))
    BY <1>1, FS_Interval
  <2> QED BY <1>1, <2>1, FS_Subset
<1>3. L \subseteq VTokens /\ \A v \in L : exchangeRateDefined(ms[v])
  <2>1. SUFFICES ASSUME NEW v \in L PROVE v \in VTokens /\ exchangeRateDefined(ms[v])
    OBVIOUS
  <2>2. PICK i \in 1 .. Len(assets) : assets[i] = v /\ isListed(v)
    BY <1>1 DEF Counted, ToSet
  <2>3. i \in D
    BY <1>1, <2>2 DEF getAssetsIn
  <2> QED BY <1>1, <2>2, <2>3 DEF positionKnown
<1>4. \A v \in L : Worth(ms, pool, a, v) \in Nat /\ Owed(ms, a, v) \in Nat
  BY <1>3, PositionTypes
<1>5. f \in [L -> Nat] /\ g \in [L -> Nat]
  BY <1>4
<1>6. h \in Bijection(D, L)
  <2>1. \A i \in D : assets[i] \in L
    BY <1>1 DEF Counted, ToSet, getAssetsIn
  <2>2. \A i, j \in D : assets[i] = assets[j] => i = j
    BY <1>1 DEF IsInjective
  <2>3. \A v \in L : \E i \in D : assets[i] = v
    BY <1>1 DEF Counted, ToSet, getAssetsIn
  <2> HIDE DEF L, D
  <2> QED BY <2>1, <2>2, <2>3 DEF Bijection, Injection, Surjection, IsInjective
<1>7. \A i \in D : h[i] = assets[i] /\ assets[i] \in L
  BY <1>1 DEF Counted, ToSet, getAssetsIn
<1>8. p \in [D -> Nat] /\ q \in [D -> Nat]
  <2> HIDE DEF L, D
  <2> QED BY <1>4, <1>7
<1>9. \A i \in D : p[i] = f[h[i]] /\ q[i] = g[h[i]]
  <2> HIDE DEF L, D
  <2> QED BY <1>7
<1>10. /\ sumCollateral(ms, assets, pool, a, USE_COLLATERAL_FACTOR) = Total(p)
       /\ sumBorrow(ms, assets, a) = Total(q)
  BY DEF sumCollateral, sumBorrow, Worth, Owed
<1> HIDE DEF L, D, f, g, h, p, q
<1>11. ASSUME NEW P \in [D -> Nat], NEW F \in [L -> Nat], \A i \in D : P[i] = F[h[i]]
       PROVE  IsFiniteSet(L) /\ Total(P) = Total(F)
  BY <1>2, <1>6, <1>11, TotalReindex
<1>12. IsFiniteSet(L) /\ Total(p) = Total(f)
  BY <1>5, <1>8, <1>9, <1>11
<1>13. Total(q) = Total(g)
  BY <1>5, <1>8, <1>9, <1>11
<1> QED BY <1>5, <1>10, <1>12, <1>13 DEF f, g, L

\* One market gets worse by e and a unit of rounding, and no other does.
LEMMA OneShortAtMost ==
  ASSUME NEW L, IsFiniteSet(L), NEW f \in [L -> Nat], NEW g \in [L -> Nat],
         NEW f2 \in [L -> Nat], NEW g2 \in [L -> Nat], NEW v \in L, NEW e \in Nat,
         \A w \in L \ {v} : f[w] <= f2[w] /\ g2[w] <= g[w],
         f[v] + g2[v] <= f2[v] + g[v] + e + 1,
         Total(g) + e <= Total(f)
  PROVE  Total(g2) <= Total(f2) + 1
<1> DEFINE h == [f EXCEPT ![v] = f2[v]]
           k == [g EXCEPT ![v] = g2[v]]
<1>1. /\ h \in [L -> Nat] /\ k \in [L -> Nat]
      /\ \A w \in L : h[w] <= f2[w] /\ g2[w] <= k[w]
  OBVIOUS
<1>2. f[v] \in Nat /\ g[v] \in Nat /\ f2[v] \in Nat /\ g2[v] \in Nat
  OBVIOUS
<1>3. Total([f EXCEPT ![v] = f2[v]]) = Total(f) - f[v] + f2[v]
  BY <1>2, TotalExcept
<1>4. Total([g EXCEPT ![v] = g2[v]]) = Total(g) - g[v] + g2[v]
  BY <1>2, TotalExcept
<1>5. Total(h) = Total(f) - f[v] + f2[v] /\ Total(k) = Total(g) - g[v] + g2[v]
  BY <1>3, <1>4
<1> HIDE DEF h, k
<1>6. Total(h) <= Total(f2) /\ Total(g2) <= Total(k)
  BY <1>1, TotalMonotone
<1>7. /\ Total(f) \in Nat /\ Total(g) \in Nat /\ Total(f2) \in Nat /\ Total(g2) \in Nat
      /\ Total(h) \in Nat /\ Total(k) \in Nat
  BY <1>1, TotalBounds
<1> QED BY <1>2, <1>5, <1>6, <1>7

\* Two truncated terms lose at most one unit against their sum.
LEMMA TruncatedSum ==
  ASSUME NEW d \in Nat, NEW x \in Nat, NEW y \in Nat
  PROVE  mulScalarTruncate(d, x + y)
           <= mulScalarTruncate(d, x) + mulScalarTruncate(d, y) + 1
<1> DEFINE K == expScale
           p == mulScalarTruncate(d, x)
           q == mulScalarTruncate(d, y)
           s == mulScalarTruncate(d, x + y)
<1>a. p \in Nat /\ d * x < p * K + K
  BY MulScalarBounds
<1>b. q \in Nat /\ d * y < q * K + K
  BY MulScalarBounds
<1>c. x + y \in Nat
  OBVIOUS
<1>d. s \in Nat /\ s * K <= d * (x + y)
  BY <1>c, MulScalarBounds
<1>1. /\ p \in Nat /\ d * x < p * K + K
      /\ q \in Nat /\ d * y < q * K + K
      /\ s \in Nat /\ s * K <= d * (x + y) /\ K \in Nat \ {0}
  BY <1>a, <1>b, <1>d, ExpScaleAssumption
<1> HIDE DEF K, p, q, s
<1>2. s * K < (p + q + 2) * K
  <2>1. d * (x + y) = d * x + d * y /\ d * x \in Nat /\ d * y \in Nat
    OBVIOUS
  <2>2. (p + q + 2) * K = p * K + K + (q * K + K)
    BY <1>1
  <2>3. p * K \in Nat /\ q * K \in Nat /\ s * K \in Nat
    BY <1>1
  <2> QED BY <1>1, <2>1, <2>2, <2>3
<1>3. s < p + q + 2
  BY <1>1, <1>2, MulCancel
<1> QED BY <1>1, <1>3 DEF p, q, s

-----------------------------------------------------------------------------
(* While the borrow index stands still, accrueInterest changes nothing that *)
(* the lens looks at.                                                       *)

\* Nothing at any rate, and anything at no rate, is nothing.
LEMMA NothingTimes ==
  ASSUME NEW x \in Nat
  PROVE  mulScalarTruncate(0, x) = 0 /\ mulScalarTruncate(x, 0) = 0
<1>1. 0 * x = 0 /\ x * 0 = 0 /\ 0 \div expScale = 0
  BY ExpScaleAssumption
<1> QED BY <1>1 DEF mulScalarTruncate, truncate

\* An index of at least one moves with every positive factor.
LEMMA QuietInterest ==
  ASSUME NEW m, MarketInv(m), NEW rate \in Nat, NEW block \in Nat,
         m.accrualBlockNumber <= block,
         withInterest(m, rate, block).borrowIndex = m.borrowIndex
  PROVE  equity(withInterest(m, rate, block)) = equity(m)
<1> DEFINE r == withInterest(m, rate, block)
           factor == rate * (block - m.accrualBlockNumber)
           interest == mulScalarTruncate(factor, m.totalBorrows)
           toReserves == mulScalarTruncate(m.reserveFactorMantissa, interest)
           onIndex == mulScalarTruncate(factor, m.borrowIndex)
           index == m.borrowIndex
<1>1. m \in Market /\ index \in Nat /\ index >= expScale
  BY DEF MarketInv, snapshotsReached, Market
<1>2. factor \in Nat
  <2>1. block - m.accrualBlockNumber \in Nat
    BY <1>1 DEF Market
  <2> QED BY <2>1
<1>3. /\ r.borrowIndex = onIndex + index
      /\ r.cash = m.cash
      /\ r.totalBorrows = m.totalBorrows + interest
      /\ r.totalReserves = toReserves + m.totalReserves
  BY <1>1 DEF withInterest, mulScalarTruncateAddUInt, mulScalarTruncate, Market
<1> HIDE DEF factor
<1>4. onIndex \in Nat /\ factor * index < onIndex * expScale + expScale
  BY <1>1, <1>2, MulScalarBounds
<1>5. onIndex = 0
  <2> HIDE DEF onIndex, index
  <2> QED BY <1>1, <1>3, <1>4 DEF index
<1>6. factor = 0
  <2> HIDE DEF index, onIndex
  <2>1. factor * index < expScale
    BY <1>4, <1>5, ExpScaleAssumption
  <2>2. factor >= 1 => factor * index >= 1 * index
    BY <1>1, <1>2, MulMonotone
  <2>3. factor * index \in Nat
    BY <1>1, <1>2
  <2> DEFINE p == factor * index
  <2>4. p \in Nat /\ p < expScale /\ (factor >= 1 => p >= index)
    BY <1>1, <2>1, <2>2, <2>3
  <2> HIDE DEF p
  <2> QED BY <1>1, <1>2, <2>4, ExpScaleAssumption
<1>7. interest = 0
  BY <1>1, <1>6, NothingTimes DEF Market
<1>8. toReserves = 0
  <2> HIDE DEF interest
  <2>1. m.reserveFactorMantissa \in Nat
    BY <1>1, ExpScaleAssumption DEF Market
  <2> QED BY <1>7, <2>1, NothingTimes
<1> HIDE DEF interest, toReserves, r
<1> QED BY <1>1, <1>3, <1>7, <1>8 DEF equity, Market, r

\* An accrual that leaves the index alone leaves alone all that the lens reads.
LEMMA QuietAccrual ==
  ASSUME Inv, NEW v \in VTokens, NEW m \in Accrued(v),
         m.borrowIndex = markets[v].borrowIndex
  PROVE  /\ equity(m) = equity(markets[v])
         /\ exchangeRateStored(m) = exchangeRateStored(markets[v])
         /\ exchangeRateDefined(m) <=> exchangeRateDefined(markets[v])
         /\ \A a \in Accounts : borrowBalanceStored(m, a) = borrowBalanceStored(markets[v], a)
<1> DEFINE o == markets[v]
<1>1. PICK rate \in BorrowRates : m = accrueInterest(o, rate, blockNumber)
  BY DEF Accrued
<1>2. /\ rate \in Nat /\ blockNumber \in Nat /\ MarketInv(o) /\ Timely(o, blockNumber)
      /\ o.accrualBlockNumber <= blockNumber /\ o.accrualBlockNumber \in Nat
      /\ o.reduceReservesBlockNumber <= blockNumber
  BY ComptrollerAssumption, MarketBefore DEF Timely, Market
<1>3. SameDebts(m, o) /\ m.totalSupply = o.totalSupply
  BY AccruedMarket
<1> DEFINE s == withInterest(o, rate, blockNumber)
<1>4. m = o \/ m = withReservesReduced(s, blockNumber)
  BY <1>1 DEF accrueInterest
<1>5. /\ MarketInv(s) /\ s.accrualBlockNumber = blockNumber
      /\ s.reduceReservesBlockNumber <= blockNumber
  BY <1>2, WithInterestFacts
<1>6. equity(m) = equity(o)
  <2>1. CASE m = o
    BY <2>1
  <2>2. CASE m = withReservesReduced(s, blockNumber)
    <3>1. equity(m) = equity(s) /\ m.borrowIndex = s.borrowIndex
      <4> HIDE DEF s
      <4> QED BY <1>2, <1>5, <2>2, WithReservesReducedFacts
    <3>2. s.borrowIndex = o.borrowIndex
      BY <3>1
    <3>3. equity(s) = equity(o)
      <4> HIDE DEF o
      <4> QED BY <1>2, <3>2, QuietInterest
    <3> QED BY <3>1, <3>3
  <2> QED BY <1>4, <2>1, <2>2
<1>7. exchangeRateStored(m) = exchangeRateStored(o)
  BY <1>3, <1>6 DEF exchangeRateStored
<1>8. exchangeRateDefined(m) <=> exchangeRateDefined(o)
  BY <1>3, <1>6 DEF exchangeRateDefined
<1>9. \A a \in Accounts : borrowBalanceStored(m, a) = borrowBalanceStored(o, a)
  BY <1>3, SameBalance DEF SameDebts
<1> QED BY <1>6, <1>7, <1>8, <1>9

\* Markets that look to the lens as the ones in storage do.
LooksAlike(m, o) ==
  /\ exchangeRateStored(m) = exchangeRateStored(o)
  /\ exchangeRateDefined(m) <=> exchangeRateDefined(o)
  /\ m.accountTokens = o.accountTokens
  /\ \A a \in Accounts : borrowBalanceStored(m, a) = borrowBalanceStored(o, a)

AllAlike(ms) ==
  Readable(ms) /\ \A v \in VTokens : LooksAlike(ms[v], markets[v])

\* The markets look to the lens as they do.
LEMMA AlikeNow ==
  ASSUME Inv
  PROVE  AllAlike(markets)
  BY MarketBefore DEF AllAlike, LooksAlike, Readable, Inv, TypeOK

\* A quiet accrual in one market makes no difference to the lens.
LEMMA AlikeAccrued ==
  ASSUME Inv, NEW v \in VTokens, NEW m \in Accrued(v),
         m.borrowIndex = markets[v].borrowIndex
  PROVE  LooksAlike(m, markets[v]) /\ AllAlike([markets EXCEPT ![v] = m])
<1> DEFINE ms == [markets EXCEPT ![v] = m]
<1>1. LooksAlike(m, markets[v])
  BY AccruedMarket, QuietAccrual DEF LooksAlike
<1>2. MarketInv(m) /\ m \in Market
  BY AccruedMarket DEF MarketInv
<1>3. /\ ms \in [VTokens -> Market] /\ ms[v] = m
      /\ \A w \in VTokens \ {v} : ms[w] = markets[w]
  BY <1>2, MarketBefore
<1> HIDE DEF ms
<1>4. Readable(ms)
  BY <1>2, <1>3, MarketBefore DEF Readable
<1>5. AllAlike(ms)
  <2>1. \A w \in VTokens : LooksAlike(markets[w], markets[w])
    BY DEF LooksAlike
  <2> QED BY <1>1, <1>3, <1>4, <2>1 DEF AllAlike
<1> QED BY <1>1, <1>5 DEF ms

-----------------------------------------------------------------------------
(* The lens before and after a call. *)

\* What the lens says after a step that leaves the parameters and prices.
LEMMA NextLooks ==
  ASSUME NEW a \in Accounts, UNCHANGED <<_poolMarkets, pools, underlyingPrice>>
  PROVE  /\ shortfall(a, USE_COLLATERAL_FACTOR)' =
              shortfallOf(markets', accountAssets'[a], userPoolId'[a], a,
                          USE_COLLATERAL_FACTOR, 0)
         /\ known(a)' <=> positionKnown(markets', accountAssets'[a])
<1> DEFINE assets == accountAssets'[a]
           pool == userPoolId'[a]
           ns == markets'
<1>0. _poolMarkets' = _poolMarkets /\ pools' = pools /\ underlyingPrice' = underlyingPrice
  OBVIOUS
<1>1. getAssetsIn(accountAssets[a])' = getAssetsIn(assets)
  BY <1>0, Zenon DEF getAssetsIn, isListed, corePoolId
<1>2. \A v : tokensToDenom(markets, userPoolId[a], v, USE_COLLATERAL_FACTOR)' =
            tokensToDenom(ns, pool, v, USE_COLLATERAL_FACTOR)
  BY <1>0, Zenon DEF tokensToDenom, getLiquidationParams, exchangeRateStored, equity, getExp,
                     mulExp, corePoolId, USE_COLLATERAL_FACTOR
<1>3. \A v : borrowBalanceStored(markets[v], a)' = borrowBalanceStored(ns[v], a)
  BY Zenon DEF borrowBalanceStored
<1>4. sumBorrow(markets, accountAssets[a], a)' = sumBorrow(ns, assets, a)
  BY <1>0, Zenon DEF sumBorrow, getAssetsIn, isListed, corePoolId, borrowBalanceStored,
                     mulScalarTruncate, truncate, Total, Units
<1>5. sumCollateral(markets, accountAssets[a], userPoolId[a], a, USE_COLLATERAL_FACTOR)' =
        sumCollateral(ns, assets, pool, a, USE_COLLATERAL_FACTOR)
  <2> DEFINE h == [i \in getAssetsIn(accountAssets[a]) |->
                     mulScalarTruncate(tokensToDenom(markets, userPoolId[a], accountAssets[a][i],
                                                     USE_COLLATERAL_FACTOR),
                                       markets[accountAssets[a][i]].accountTokens[a])]
             k == [i \in getAssetsIn(assets) |->
                     mulScalarTruncate(tokensToDenom(ns, pool, assets[i], USE_COLLATERAL_FACTOR),
                                       ns[assets[i]].accountTokens[a])]
  <2>1. sumCollateral(markets, accountAssets[a], userPoolId[a], a, USE_COLLATERAL_FACTOR)' =
          Total(h)'
    BY DEF sumCollateral
  <2>2. sumCollateral(ns, assets, pool, a, USE_COLLATERAL_FACTOR) = Total(k)
    BY DEF sumCollateral
  <2>3. h' = k
    BY <1>0, Zenon DEF getAssetsIn, isListed, corePoolId, tokensToDenom,
                       getLiquidationParams, exchangeRateStored, equity, getExp, mulExp,
                       USE_COLLATERAL_FACTOR, mulScalarTruncate, truncate
  <2> HIDE DEF h, k
  <2>4. Total(h)' = Total(h')
    BY DEF Total, Units
  <2> QED BY <2>1, <2>2, <2>3, <2>4
<1>6. known(a)' <=> positionKnown(markets', accountAssets'[a])
  BY Zenon DEF known, positionKnown, getAssetsIn, isListed, exchangeRateDefined, equity,
         corePoolId
<1> QED BY <1>4, <1>5, <1>6, Zenon DEF shortfall, shortfallOf, USE_COLLATERAL_FACTOR

\* The lens can read the markets after a step, too.
LEMMA ReadableNext ==
  ASSUME Inv'
  PROVE  Readable(markets')
<1>1. markets' \in [VTokens -> Market]
  BY DEF Inv, TypeOK
<1>2. \A v \in VTokens : MarketInv(markets'[v])
  BY DEF Inv, MarketsInv, MarketInv, tokensConserved, snapshotsReached, Total, Units
<1> QED BY <1>1, <1>2 DEF Readable

\* No shortfall: the collateral covers the debt and the effects.
LEMMA NoShortfall ==
  ASSUME Inv, NEW ms, Readable(ms), NEW assets \in Seq(VTokens), IsInjective(assets),
         positionKnown(ms, assets), NEW pool \in Pools, NEW a \in Accounts, NEW e \in Nat
  PROVE  LET L == Counted(assets)
             f == [v \in L |-> Worth(ms, pool, a, v)]
             g == [v \in L |-> Owed(ms, a, v)]
             s == shortfallOf(ms, assets, pool, a, USE_COLLATERAL_FACTOR, e)
         IN  /\ Total(f) \in Nat /\ Total(g) \in Nat
             /\ s = 0 <=> Total(g) + e <= Total(f)
             /\ s <= 1 <=> Total(g) + e <= Total(f) + 1
<1> DEFINE L == Counted(assets)
           f == [v \in L |-> Worth(ms, pool, a, v)]
           g == [v \in L |-> Owed(ms, a, v)]
           s == shortfallOf(ms, assets, pool, a, USE_COLLATERAL_FACTOR, e)
<1>1. /\ IsFiniteSet(L) /\ f \in [L -> Nat] /\ g \in [L -> Nat]
      /\ sumCollateral(ms, assets, pool, a, USE_COLLATERAL_FACTOR) = Total(f)
      /\ sumBorrow(ms, assets, a) = Total(g)
  BY SumsByMarket
<1> HIDE DEF L, f, g
<1>2. Total(f) \in Nat /\ Total(g) \in Nat
  BY <1>1, TotalBounds
<1> DEFINE c == sumCollateral(ms, assets, pool, a, USE_COLLATERAL_FACTOR)
           b == sumBorrow(ms, assets, a)
<1>3. s = IF c > b + e THEN 0 ELSE (b + e) - c
  BY DEF shortfallOf
<1> HIDE DEF s, c, b
<1>a. c = Total(f) /\ b = Total(g)
  BY <1>1 DEF c, b
<1>4. s = 0 <=> Total(g) + e <= Total(f)
  BY <1>2, <1>3, <1>a
<1>5. s <= 1 <=> Total(g) + e <= Total(f) + 1
  BY <1>2, <1>3, <1>a
<1> QED BY <1>2, <1>4, <1>5 DEF L, f, g, s

\* Tokens are worth no less after a call, because the exchange rate does not
\* fall as long as somebody has tokens.
LEMMA WorthGrows ==
  ASSUME Inv, Inv', steady, NEW ms, AllAlike(ms), NEW pool \in Pools, NEW a \in Accounts,
         NEW v \in VTokens, exchangeRateDefined(ms[v]), exchangeRateDefined(markets'[v]),
         NEW tokens \in Nat, tokens <= markets'[v].accountTokens[a]
  PROVE  mulScalarTruncate(tokensToDenom(ms, pool, v, USE_COLLATERAL_FACTOR), tokens)
           <= Worth(markets', pool, a, v)
<1> DEFINE ns == markets'
           x == tokensToDenom(ms, pool, v, USE_COLLATERAL_FACTOR)
           y == tokensToDenom(ns, pool, v, USE_COLLATERAL_FACTOR)
           new == ns[v].accountTokens[a]
<1>1. /\ ms[v] \in Market /\ ns[v] \in Market /\ MarketInv(ns[v])
      /\ exchangeRateStored(ms[v]) = exchangeRateStored(markets[v])
  BY ReadableNext DEF AllAlike, Readable, LooksAlike
<1>2. x \in Nat /\ y \in Nat
  BY <1>1, DenomOrdered
<1>3. /\ new \in Nat /\ new <= ns[v].totalSupply /\ ns[v].totalSupply \in Nat
  <2>1. /\ ns[v].accountTokens \in [Accounts -> Nat]
        /\ ns[v].totalSupply = Total(ns[v].accountTokens)
    BY <1>1 DEF MarketInv, tokensConserved, Market
  <2> DEFINE h == ns[v].accountTokens
  <2> HIDE DEF h
  <2>2. Total(h) \in Nat /\ h[a] <= Total(h)
    BY <2>1, MarketAssumption, TotalBounds DEF h
  <2> QED BY <2>1, <2>2 DEF h
<1>4. CASE tokens = 0
  <2>1. mulScalarTruncate(x, tokens) = 0
    <3> HIDE DEF x
    <3> QED BY <1>2, <1>4, NothingTimes
  <2>2. mulScalarTruncate(y, new) \in Nat
    <3> HIDE DEF y, new
    <3> QED BY <1>2, <1>3, MulScalarBounds
  <2> HIDE DEF x
  <2> QED BY <2>1, <2>2 DEF Worth, x
<1>5. CASE tokens > 0
  <2>1. exchangeRateStored(ns[v]) >= exchangeRateStored(markets[v])
    <3>1. ns[v].totalSupply > 0
      BY <1>3, <1>5
    <3>2. exchangeRateStored(ns[v]) = exchangeRateStored(markets[v])'
      BY DEF exchangeRateStored, equity
    <3> QED BY <3>1, <3>2 DEF steady
  <2>2. exchangeRateStored(ms[v]) <= exchangeRateStored(ns[v])
    BY <1>1, <2>1, ExchangeRateFacts
  <2>3. x <= y
    <3> HIDE DEF ns
    <3> QED BY <1>1, <2>2, DenomMonotone DEF ns
  <2> HIDE DEF x, y, new
  <2>4. x * tokens <= y * new
    <3>1. x * tokens <= y * tokens
      BY <1>2, <2>3, MulMonotone
    <3>2. tokens * y <= new * y
      BY <1>2, <1>3, MulMonotone DEF new
    <3>3. tokens * y = y * tokens /\ new * y = y * new
      BY <1>2, <1>3
    <3> DEFINE u == x * tokens
               w == y * tokens
               z == y * new
    <3>4. u \in Nat /\ w \in Nat /\ z \in Nat /\ u <= w /\ w <= z
      BY <1>2, <1>3, <3>1, <3>2, <3>3
    <3> HIDE DEF u, w, z
    <3>5. u <= z
      BY <3>4
    <3> QED BY <3>5 DEF u, z
  <2>5. mulScalarTruncate(x, tokens) <= mulScalarTruncate(y, new)
    <3>1. x * tokens \in Int /\ y * new \in Int
      BY <1>2, <1>3
    <3> QED BY <2>4, <3>1, ExpScaleAssumption, DivMonotone DEF mulScalarTruncate, truncate
  <2> QED BY <2>5 DEF Worth, x, y, new
<1> QED BY <1>4, <1>5

\* The markets whose position is known have a defined rate.
LEMMA CountedKnown ==
  ASSUME NEW ms, NEW assets \in Seq(VTokens), positionKnown(ms, assets),
         NEW v \in Counted(assets)
  PROVE  v \in VTokens /\ exchangeRateDefined(ms[v])
<1>1. DOMAIN assets = 1 .. Len(assets) /\ \A i \in 1 .. Len(assets) : assets[i] \in VTokens
  OBVIOUS
<1>2. PICK i \in 1 .. Len(assets) : assets[i] = v /\ isListed(v)
  BY <1>1 DEF Counted, ToSet
<1>3. i \in getAssetsIn(assets)
  BY <1>1, <1>2 DEF getAssetsIn
<1> QED BY <1>1, <1>2, <1>3 DEF positionKnown

\* The lists and pools of the state after the step.
LEMMA NextAccount ==
  ASSUME Inv', NEW a \in Accounts
  PROVE  /\ accountAssets'[a] \in Seq(VTokens) /\ IsInjective(accountAssets'[a])
         /\ userPoolId'[a] \in Pools
<1>1. accountAssets'[a] \in Seq(VTokens) /\ userPoolId'[a] \in Pools
  BY DEF Inv, TypeOK, Pools, corePoolId
<1>2. IsInjective(accountAssets'[a])
  BY DEF Inv, PositionsCounted, AssetsMatchMembership, IsInjective
<1> QED BY <1>1, <1>2

\* The heart of SafeStaysSafe.  ms is what the call checked, e what it checked
\* it with: the call makes only the market v worse, by e and one unit.
LEMMA Afterwards ==
  ASSUME Inv, Inv', steady, NEW a \in Accounts, NEW ms, AllAlike(ms), known(a)',
         positionKnown(ms, accountAssets'[a]), NEW e \in Nat,
         shortfallOf(ms, accountAssets'[a], userPoolId'[a], a, USE_COLLATERAL_FACTOR, e) = 0,
         NEW v,
         \A w \in Counted(accountAssets'[a]) \ {v} :
           /\ ms[w].accountTokens[a] <= markets'[w].accountTokens[a]
           /\ borrowBalanceStored(markets'[w], a) <= borrowBalanceStored(ms[w], a),
         v \in Counted(accountAssets'[a]) =>
           Worth(ms, userPoolId'[a], a, v) + Owed(markets', a, v)
             <= Worth(markets', userPoolId'[a], a, v) + Owed(ms, a, v) + e + 1
  PROVE  shortfall(a, USE_COLLATERAL_FACTOR)' <= 1
<1> DEFINE ns == markets'
           assets == accountAssets'[a]
           pool == userPoolId'[a]
           L == Counted(assets)
           f == [w \in L |-> Worth(ms, pool, a, w)]
           g == [w \in L |-> Owed(ms, a, w)]
           f2 == [w \in L |-> Worth(ns, pool, a, w)]
           g2 == [w \in L |-> Owed(ns, a, w)]
<1>1. assets \in Seq(VTokens) /\ IsInjective(assets) /\ pool \in Pools
  BY NextAccount
<1>2. /\ shortfall(a, USE_COLLATERAL_FACTOR)' =
           shortfallOf(ns, assets, pool, a, USE_COLLATERAL_FACTOR, 0)
      /\ positionKnown(ns, assets)
  BY NextLooks DEF steady
<1>3. Readable(ms) /\ Readable(ns)
  BY ReadableNext DEF AllAlike
<1>4. \A w \in L : /\ w \in VTokens /\ exchangeRateDefined(ms[w]) /\ exchangeRateDefined(ns[w])
                   /\ ms[w].accountTokens[a] \in Nat
                   /\ borrowBalanceStored(ms[w], a) \in Nat
                   /\ borrowBalanceStored(ns[w], a) \in Nat /\ underlyingPrice[w] \in Nat
  <2>1. SUFFICES ASSUME NEW w \in L
                 PROVE  /\ w \in VTokens
                        /\ exchangeRateDefined(ms[w]) /\ exchangeRateDefined(ns[w])
                        /\ ms[w].accountTokens[a] \in Nat
                        /\ borrowBalanceStored(ms[w], a) \in Nat
                        /\ borrowBalanceStored(ns[w], a) \in Nat /\ underlyingPrice[w] \in Nat
    OBVIOUS
  <2>2. w \in VTokens /\ exchangeRateDefined(ms[w]) /\ exchangeRateDefined(ns[w])
    <3> HIDE DEF assets, ns
    <3> QED BY <1>1, <1>2, CountedKnown DEF assets
  <2> HIDE DEF ns
  <2>3. MarketInv(ms[w]) /\ MarketInv(ns[w])
    BY <1>3, <2>2 DEF Readable
  <2>4. borrowBalanceStored(ms[w], a) \in Nat /\ borrowBalanceStored(ns[w], a) \in Nat
    BY <2>3, BorrowBalanceType DEF MarketInv
  <2>5. ms[w].accountTokens[a] \in Nat /\ underlyingPrice[w] \in Nat
    BY <2>2, <2>3 DEF MarketInv, Market, Inv, TypeOK
  <2> QED BY <2>2, <2>4, <2>5
<1>a. \A qs : Readable(qs) /\ positionKnown(qs, assets) =>
        /\ IsFiniteSet(L)
        /\ [w \in L |-> Worth(qs, pool, a, w)] \in [L -> Nat]
        /\ [w \in L |-> Owed(qs, a, w)] \in [L -> Nat]
  <2> SUFFICES ASSUME NEW qs, Readable(qs), positionKnown(qs, assets)
               PROVE  /\ IsFiniteSet(L)
                      /\ [w \in L |-> Worth(qs, pool, a, w)] \in [L -> Nat]
                      /\ [w \in L |-> Owed(qs, a, w)] \in [L -> Nat]
    OBVIOUS
  <2> HIDE DEF assets, pool
  <2> QED BY <1>1, SumsByMarket, ZenonT(60)
<1>5. /\ IsFiniteSet(L) /\ f \in [L -> Nat] /\ g \in [L -> Nat]
  BY <1>3, <1>a
<1>6. /\ f2 \in [L -> Nat] /\ g2 \in [L -> Nat]
  BY <1>2, <1>3, <1>a
<1>7. Total(g) + e <= Total(f)
  <2> HIDE DEF ns, assets, pool
  <2> QED BY <1>1, <1>3, NoShortfall DEF assets, pool
<1>8. shortfallOf(ns, assets, pool, a, USE_COLLATERAL_FACTOR, 0) <= 1
        <=> Total(g2) + 0 <= Total(f2) + 1
  <2> HIDE DEF ns, assets, pool
  <2> QED BY <1>1, <1>2, <1>3, NoShortfall
<1>9. \A w \in L \ {v} : f[w] <= f2[w] /\ g2[w] <= g[w]
  <2>1. SUFFICES ASSUME NEW w \in L \ {v}
                 PROVE  /\ Worth(ms, pool, a, w) <= Worth(ns, pool, a, w)
                        /\ Owed(ns, a, w) <= Owed(ms, a, w)
    OBVIOUS
  <2>2. Worth(ms, pool, a, w) <= Worth(ns, pool, a, w)
    BY <1>1, <1>4, WorthGrows DEF Worth
  <2> DEFINE x == borrowBalanceStored(ns[w], a)
             y == borrowBalanceStored(ms[w], a)
             price == underlyingPrice[w]
  <2>3. x \in Nat /\ y \in Nat /\ price \in Nat /\ x <= y
    BY <1>4
  <2> HIDE DEF x, y, price
  <2>4. mulScalarTruncate(price, x) <= mulScalarTruncate(price, y)
    <3>1. x * price <= y * price /\ x * price = price * x /\ y * price = price * y
            /\ price * x \in Int /\ price * y \in Int
      BY <2>3, MulMonotone
    <3> QED BY <3>1, ExpScaleAssumption, DivMonotone DEF mulScalarTruncate, truncate
  <2> QED BY <2>2, <2>4 DEF Owed, x, y, price
<1>10. v \in L => f[v] + g2[v] <= f2[v] + g[v] + e + 1
  OBVIOUS
<1> HIDE DEF L, f, g, f2, g2
<1>11. Total(f) \in Nat /\ Total(g) \in Nat /\ Total(f2) \in Nat /\ Total(g2) \in Nat
  BY <1>5, <1>6, TotalBounds
<1>12. Total(g2) <= Total(f2) + 1
  <2>1. CASE v \in L
    BY <1>5, <1>6, <1>7, <1>9, <1>10, <2>1, OneShortAtMost
  <2>2. CASE v \notin L
    <3>1. \A w \in L : f[w] <= f2[w] /\ g2[w] <= g[w]
      BY <1>9, <2>2
    <3>2. Total(f) <= Total(f2)
      BY <1>5, <1>6, <3>1, TotalMonotone
    <3>3. Total(g2) <= Total(g)
      BY <1>5, <1>6, <3>1, TotalMonotone
    <3> QED BY <1>7, <1>11, <3>2, <3>3
  <2> QED BY <2>1, <2>2
<1> QED BY <1>2, <1>8, <1>11, <1>12

\* Whose tokens only grow and whose debts only shrink, where it counts.
LEMMA BystanderSafe ==
  ASSUME Inv, Inv', steady, NEW a \in Accounts, known(a), known(a)',
         shortfall(a, USE_COLLATERAL_FACTOR) = 0,
         accountAssets'[a] = accountAssets[a], userPoolId'[a] = userPoolId[a],
         \A w \in VTokens :
           w \in ToSet(accountAssets[a]) =>
             /\ markets[w].accountTokens[a] <= markets'[w].accountTokens[a]
             /\ borrowBalanceStored(markets'[w], a) <= borrowBalanceStored(markets[w], a)
  PROVE  shortfall(a, USE_COLLATERAL_FACTOR)' <= 1
<1> DEFINE assets == accountAssets'[a]
<1>1. /\ assets \in Seq(VTokens) /\ userPoolId[a] \in Pools
      /\ \A w \in Counted(assets) : w \in VTokens /\ w \in ToSet(accountAssets[a])
  <2>1. \A w \in Counted(assets) : w \in ToSet(accountAssets[a])
    BY DEF Counted
  <2>2. assets \in Seq(VTokens) /\ userPoolId[a] \in Pools
    BY NextAccount
  <2>3. ToSet(assets) \subseteq VTokens
    BY <2>2 DEF ToSet
  <2> QED BY <2>1, <2>2, <2>3
<1>2. \E x : x \notin VTokens
  <2>1. {w \in VTokens : w \notin w} \notin VTokens
    OBVIOUS
  <2> QED BY <2>1
<1>3. PICK x : x \notin VTokens
  BY <1>2
<1>4. positionKnown(markets, assets) /\ AllAlike(markets)
  BY AlikeNow DEF known
<1>5. shortfallOf(markets, assets, userPoolId'[a], a, USE_COLLATERAL_FACTOR, 0) = 0
  BY DEF shortfall
<1>6. x \notin Counted(assets)
  BY <1>1, <1>3
<1>7. \A w \in Counted(assets) \ {x} :
        /\ markets[w].accountTokens[a] <= markets'[w].accountTokens[a]
        /\ borrowBalanceStored(markets'[w], a) <= borrowBalanceStored(markets[w], a)
  BY <1>1
<1>8. 0 \in Nat
  OBVIOUS
<1> QED BY <1>4, <1>5, <1>6, <1>7, <1>8, Afterwards, Zenon

-----------------------------------------------------------------------------
(* SafeStaysSafe, call by call. *)

InLimits(a) ==
  /\ known(a) /\ known(a)' /\ shortfall(a, USE_COLLATERAL_FACTOR) = 0
  /\ \A v \in VTokens : ~forced(a, v)

OneShort(a) == shortfall(a, USE_COLLATERAL_FACTOR)' <= 1

SafeAfter == steady => \A a \in Accounts : InLimits(a) => OneShort(a)

\* Nobody owes more.
DebtsShrink(n, m) ==
  \A a \in Accounts : borrowBalanceStored(n, a) <= borrowBalanceStored(m, a)

\* A call in one market that makes nobody worse: interest, deposits, repayments.
LEMMA HarmlessCall ==
  ASSUME Inv, Inv', NEW v \in VTokens, NEW m \in Accrued(v), NEW n,
         markets' = [markets EXCEPT ![v] = n], n.borrowIndex = m.borrowIndex,
         TokensKept(n, m), DebtsShrink(n, m), UNCHANGED membershipVars
  PROVE  SafeAfter
<1>1. SUFFICES ASSUME steady, NEW a \in Accounts, InLimits(a) PROVE OneShort(a)
  BY DEF SafeAfter
<1>2. /\ markets'[v] = n
      /\ \A w \in VTokens \ {v} : markets'[w] = markets[w]
  BY MarketBefore
<1>3. LooksAlike(m, markets[v])
  BY <1>1, <1>2, AlikeAccrued DEF steady
<1>4. \A w \in VTokens : /\ markets[w].accountTokens[a] \in Nat
                         /\ borrowBalanceStored(markets[w], a) \in Nat
  BY MarketBefore, BorrowBalanceType DEF MarketInv, Market
<1>5. \A w \in VTokens :
        /\ markets[w].accountTokens[a] <= markets'[w].accountTokens[a]
        /\ borrowBalanceStored(markets'[w], a) <= borrowBalanceStored(markets[w], a)
  <2>1. \A w \in VTokens \ {v} :
          /\ markets[w].accountTokens[a] <= markets'[w].accountTokens[a]
          /\ borrowBalanceStored(markets'[w], a) <= borrowBalanceStored(markets[w], a)
    BY <1>2, <1>4
  <2>2. n.accountTokens[a] >= m.accountTokens[a]
    BY DEF TokensKept
  <2>3. borrowBalanceStored(n, a) <= borrowBalanceStored(m, a)
    BY DEF DebtsShrink
  <2>4. n \in Market
    BY <1>2 DEF Inv, TypeOK
  <2>5. n.accountTokens[a] \in Nat
    BY <2>4 DEF Market
  <2>6. /\ markets[v].accountTokens[a] <= markets'[v].accountTokens[a]
        /\ borrowBalanceStored(markets'[v], a) <= borrowBalanceStored(markets[v], a)
    BY <1>2, <1>3, <1>4, <2>2, <2>3, <2>5 DEF LooksAlike
  <2> QED BY <2>1, <2>6
<1>6. /\ known(a) /\ known(a)' /\ shortfall(a, USE_COLLATERAL_FACTOR) = 0
      /\ accountAssets'[a] = accountAssets[a] /\ userPoolId'[a] = userPoolId[a]
  BY <1>1 DEF InLimits, membershipVars
<1>7. shortfall(a, USE_COLLATERAL_FACTOR)' <= 1
  BY <1>1, <1>5, <1>6, BystanderSafe
<1> QED BY <1>7 DEF OneShort

\* A repayment lowers the debt of the borrower, and no other.
LEMMA RepaidDebt ==
  ASSUME NEW m, MarketInv(m), NEW borrower \in Accounts, NEW amount \in Nat,
         canRepay(m, borrower, amount)
  PROVE  LET n == repayBorrowFresh(m, borrower, amount)
         IN  /\ n.borrowIndex = m.borrowIndex /\ n.accountTokens = m.accountTokens
             /\ DebtsShrink(n, m)
             /\ \A a \in Accounts \ {borrower} :
                  borrowBalanceStored(n, a) = borrowBalanceStored(m, a)
<1> DEFINE n == repayBorrowFresh(m, borrower, amount)
           debt == borrowBalanceStored(m, borrower)
<1>1. /\ n.accountTokens = m.accountTokens
      /\ \A a \in Accounts \ {borrower} : /\ n.principal[a] = m.principal[a]
                                          /\ n.interestIndex[a] = m.interestIndex[a]
      /\ n.principal[borrower] = debt - amount
      /\ n.interestIndex[borrower] = m.borrowIndex
  BY RepayKeeps
<1>2. n.borrowIndex = m.borrowIndex
  BY RepayFacts
<1>3. /\ m \in Market /\ snapshotsReached(m)
      /\ m.borrowIndex \in Nat \ {0} /\ amount <= debt
  BY ExpScaleAssumption DEF MarketInv, snapshotsReached, Market, canRepay
<1>4. \A a \in Accounts : borrowBalanceStored(m, a) \in Nat
  BY <1>3, BorrowBalanceType
<1> HIDE DEF n, debt
<1>5. \A a \in Accounts \ {borrower} : borrowBalanceStored(n, a) = borrowBalanceStored(m, a)
  BY <1>1, <1>2, SameBalance
<1>6. n.principal[borrower] \in Nat /\ n.principal[borrower] <= debt
  BY <1>1, <1>3, <1>4 DEF debt
<1>7. borrowBalanceStored(n, borrower) = n.principal[borrower]
  BY <1>1, <1>2, <1>3, <1>6, FreshBalance
<1>8. DebtsShrink(n, m)
  BY <1>4, <1>5, <1>6, <1>7 DEF DebtsShrink, debt
<1> QED BY <1>1, <1>2, <1>5, <1>8 DEF n

\* Accruals, mints and repayments push nobody out of the limits.
LEMMA HarmlessCalls ==
  ASSUME Inv, Inv', NEW x \in Accounts, NEW v \in VTokens, NEW amount \in Nat,
         AccrueInterest(v) \/ Mint(x, v, amount) \/ RepayBorrow(x, v, amount)
  PROVE  SafeAfter
<1>1. amount \in Nat /\ UNCHANGED membershipVars
  BY DEF AccrueInterest, Mint, RepayBorrow
<1>2. \A m \in Accrued(v) :
        /\ MarketInv(m) /\ m \in Market /\ DebtsShrink(m, m) /\ TokensKept(m, m)
        /\ \A a \in Accounts : borrowBalanceStored(m, a) \in Nat
  <2>1. SUFFICES ASSUME NEW m \in Accrued(v)
                 PROVE  /\ MarketInv(m) /\ m \in Market
                        /\ DebtsShrink(m, m) /\ TokensKept(m, m)
                        /\ \A a \in Accounts : borrowBalanceStored(m, a) \in Nat
    OBVIOUS
  <2>2. MarketInv(m) /\ m \in Market /\ snapshotsReached(m)
    BY AccruedMarket DEF MarketInv
  <2>3. \A a \in Accounts : borrowBalanceStored(m, a) \in Nat
    BY <2>2, BorrowBalanceType
  <2>4. m.accountTokens \in [Accounts -> Nat]
    BY <2>2, MarketFields
  <2> QED BY <2>2, <2>3, <2>4 DEF DebtsShrink, TokensKept
<1>3. CASE AccrueInterest(v)
  <2>1. PICK m \in Accrued(v) : markets' = [markets EXCEPT ![v] = m]
    BY <1>3 DEF AccrueInterest
  <2> QED BY <1>1, <1>2, <2>1, HarmlessCall
<1>4. CASE Mint(x, v, amount)
  <2>1. PICK m \in Accrued(v) :
          /\ canMint(m)
          /\ markets' = [[markets EXCEPT ![v] = m] EXCEPT ![v] = mintFresh(m, x, amount)]
    BY <1>4 DEF Mint
  <2> DEFINE n == mintFresh(m, x, amount)
  <2>2. n.borrowIndex = m.borrowIndex
    BY <1>1, <1>2, <2>1, MintFacts
  <2>3. SameDebts(n, m) /\ TokensKept(n, m)
    BY <1>1, <1>2, <2>1, MintKeeps
  <2>4. markets' = [markets EXCEPT ![v] = n]
    BY <2>1, MarketBefore
  <2> HIDE DEF n
  <2>5. \A a \in Accounts : borrowBalanceStored(n, a) = borrowBalanceStored(m, a)
    BY <2>2, <2>3, SameBalance DEF SameDebts
  <2>6. DebtsShrink(n, m)
    BY <1>2, <2>5 DEF DebtsShrink
  <2> QED BY <1>1, <2>2, <2>3, <2>4, <2>6, HarmlessCall
<1>5. CASE RepayBorrow(x, v, amount)
  <2>1. PICK m \in Accrued(v) :
          /\ canRepay(m, x, amount)
          /\ markets' = [markets EXCEPT ![v] = repayBorrowFresh(m, x, amount)]
    BY <1>5 DEF RepayBorrow
  <2> DEFINE n == repayBorrowFresh(m, x, amount)
  <2>2. n.borrowIndex = m.borrowIndex /\ TokensKept(n, m) /\ DebtsShrink(n, m)
    BY <1>1, <1>2, <2>1, RepaidDebt DEF TokensKept
  <2>3. markets' = [markets EXCEPT ![v] = n]
    BY <2>1
  <2> HIDE DEF n
  <2> QED BY <1>1, <2>2, <2>3, HarmlessCall
<1> QED BY <1>3, <1>4, <1>5

\* Who gives tokens away, and what the comptroller asks for that.
LEMMA GivesTokens ==
  ASSUME Inv, Inv', steady, NEW a \in Accounts, InLimits(a), NEW v \in VTokens,
         NEW ms, AllAlike(ms), NEW t \in Nat, redeemAllowedInternal(ms, v, a, t),
         t <= ms[v].accountTokens[a],
         markets'[v].accountTokens[a] = ms[v].accountTokens[a] - t,
         \A w \in VTokens \ {v} : ms[w].accountTokens[a] <= markets'[w].accountTokens[a],
         \A w \in VTokens :
           borrowBalanceStored(markets'[w], a) = borrowBalanceStored(ms[w], a),
         UNCHANGED membershipVars
  PROVE  OneShort(a)
<1> DEFINE assets == accountAssets[a]
           pool == userPoolId[a]
<1>1. /\ known(a) /\ known(a)' /\ shortfall(a, USE_COLLATERAL_FACTOR) = 0
      /\ accountAssets'[a] = assets /\ userPoolId'[a] = pool
  BY DEF InLimits, membershipVars
<1>2. /\ assets \in Seq(VTokens) /\ IsInjective(assets) /\ pool \in Pools
      /\ ToSet(assets) = {w \in VTokens : a \in accountMembership[w]}
  BY DEF Inv, TypeOK, PositionsCounted, AssetsMatchMembership
<1>3. /\ \A w \in VTokens : LooksAlike(ms[w], markets[w])
      /\ Readable(ms) /\ Readable(markets')
  BY ReadableNext DEF AllAlike
<1>4. \A w \in VTokens : /\ ms[w].accountTokens[a] \in Nat
                         /\ borrowBalanceStored(ms[w], a) \in Nat
  BY <1>3, BorrowBalanceType DEF Readable, MarketInv, Market
<1>5. CASE a \notin accountMembership[v]
  <2>1. \A w \in VTokens : w \in ToSet(accountAssets[a]) =>
          /\ markets[w].accountTokens[a] <= markets'[w].accountTokens[a]
          /\ borrowBalanceStored(markets'[w], a) <= borrowBalanceStored(markets[w], a)
    <3>1. SUFFICES ASSUME NEW w \in VTokens, w \in ToSet(accountAssets[a])
                   PROVE  /\ markets[w].accountTokens[a] <= markets'[w].accountTokens[a]
                          /\ borrowBalanceStored(markets'[w], a)
                               <= borrowBalanceStored(markets[w], a)
      OBVIOUS
    <3>2. w # v
      BY <1>2, <1>5, <3>1
    <3>3. LooksAlike(ms[w], markets[w])
      BY <1>3
    <3>4. /\ ms[w].accountTokens[a] = markets[w].accountTokens[a]
          /\ borrowBalanceStored(ms[w], a) = borrowBalanceStored(markets[w], a)
      BY <3>3 DEF LooksAlike
    <3> QED BY <1>4, <3>2, <3>4
  <2>2. shortfall(a, USE_COLLATERAL_FACTOR)' <= 1
    BY <1>1, <2>1, BystanderSafe
  <2> QED BY <2>2 DEF OneShort
<1>6. CASE a \in accountMembership[v]
  <2> DEFINE d == tokensToDenom(ms, pool, v, USE_COLLATERAL_FACTOR)
             e == mulScalarTruncate(d, t)
             x == markets'[v].accountTokens[a]
  <2>1. /\ isListed(v) /\ positionKnown(ms, assets)
        /\ shortfallOf(ms, assets, pool, a, USE_COLLATERAL_FACTOR, e) = 0
    BY <1>6 DEF redeemAllowedInternal
  <2>2. positionKnown(markets', assets)
    BY <1>1, NextLooks DEF steady
  <2>3. v \in Counted(assets)
    BY <1>2, <1>6, <2>1 DEF Counted
  <2>4. exchangeRateDefined(ms[v]) /\ exchangeRateDefined(markets'[v])
    <3> HIDE DEF assets
    <3> QED BY <1>2, <2>1, <2>2, <2>3, CountedKnown
  <2>5. d \in Nat /\ x \in Nat /\ ms[v].accountTokens[a] = x + t
    <3>1. ms[v] \in Market /\ markets'[v] \in Market
      BY <1>3 DEF Readable
    <3>2. d \in Nat
      BY <1>2, <2>4, <3>1, DenomOrdered
    <3> QED BY <1>4, <3>1, <3>2 DEF Market
  <2>6. /\ Worth(ms, pool, a, v) \in Nat /\ Owed(ms, a, v) \in Nat
        /\ Worth(markets', pool, a, v) \in Nat
    <3> HIDE DEF pool
    <3> QED BY <1>2, <1>3, <2>4, PositionTypes
  <2>7. mulScalarTruncate(d, x) <= Worth(markets', pool, a, v)
    <3>1. x <= x
      BY <2>5
    <3> QED BY <1>2, <2>4, <2>5, <3>1, WorthGrows
  <2>8. Worth(ms, pool, a, v) = mulScalarTruncate(d, x + t)
    BY <2>5 DEF Worth
  <2>9. Owed(markets', a, v) = Owed(ms, a, v)
    BY DEF Owed
  <2> HIDE DEF d, x
  <2>10. mulScalarTruncate(d, x + t) <= mulScalarTruncate(d, x) + e + 1
    BY <2>5, TruncatedSum
  <2>11. mulScalarTruncate(d, x) \in Nat /\ e \in Nat
    BY <2>5, MulScalarBounds
  <2> HIDE DEF e
  <2>12. Worth(ms, pool, a, v) + Owed(markets', a, v)
           <= Worth(markets', pool, a, v) + Owed(ms, a, v) + e + 1
    BY <2>6, <2>7, <2>8, <2>9, <2>10, <2>11
  <2>13. \A w \in Counted(assets) \ {v} :
           /\ ms[w].accountTokens[a] <= markets'[w].accountTokens[a]
           /\ borrowBalanceStored(markets'[w], a) <= borrowBalanceStored(ms[w], a)
    <3>1. \A w \in Counted(assets) : w \in VTokens
      BY <1>2 DEF Counted, ToSet
    <3> QED BY <1>4, <3>1
  <2> HIDE DEF assets, pool
  <2>14. shortfall(a, USE_COLLATERAL_FACTOR)' <= 1
    BY <1>1, <2>1, <2>11, <2>12, <2>13, Afterwards
  <2> QED BY <2>14 DEF OneShort
<1> QED BY <1>5, <1>6

\* redeemFresh takes the tokens of the redeemer, and no others.
LEMMA RedeemedTokens ==
  ASSUME NEW m \in Market, NEW redeemer \in Accounts, NEW tokens \in Nat, NEW amount
  PROVE  LET n == redeemFresh(m, redeemer, tokens, amount)
         IN  /\ n.accountTokens[redeemer] = m.accountTokens[redeemer] - tokens
             /\ \A a \in Accounts \ {redeemer} : n.accountTokens[a] = m.accountTokens[a]
<1> DEFINE n == redeemFresh(m, redeemer, tokens, amount)
<1>1. m.accountTokens \in [Accounts -> Nat]
  BY MarketFields
<1>2. n.accountTokens = [m.accountTokens EXCEPT ![redeemer] = @ - tokens]
  BY DEF redeemFresh, Market
<1> HIDE DEF n
<1> QED BY <1>1, <1>2 DEF n

\* A call that takes tokens of one account in one market, with the debts as
\* they were: a redemption or a transfer.
LEMMA TokensLeave ==
  ASSUME Inv, Inv', NEW v \in VTokens, NEW m, NEW n, NEW payer \in Accounts, NEW t \in Nat,
         m = markets[v] \/ m \in Accrued(v),
         markets' = [markets EXCEPT ![v] = n], n.borrowIndex = m.borrowIndex,
         redeemAllowedInternal([markets EXCEPT ![v] = m], v, payer, t),
         t <= m.accountTokens[payer],
         SameDebts(n, m), n.accountTokens[payer] = m.accountTokens[payer] - t,
         \A a \in Accounts \ {payer} : m.accountTokens[a] <= n.accountTokens[a],
         UNCHANGED membershipVars
  PROVE  SafeAfter
<1>1. SUFFICES ASSUME steady, NEW a \in Accounts, InLimits(a) PROVE OneShort(a)
  BY DEF SafeAfter
<1> DEFINE ms == [markets EXCEPT ![v] = m]
<1>2. /\ markets \in [VTokens -> Market] /\ markets'[v] = n
      /\ \A w \in VTokens \ {v} : markets'[w] = markets[w]
  BY MarketBefore
<1>3. AllAlike(ms) /\ ms[v] = m /\ \A w \in VTokens \ {v} : ms[w] = markets[w]
  <2>1. n.borrowIndex = markets[v].borrowIndex
    BY <1>1, <1>2 DEF steady
  <2>2. CASE m = markets[v]
    <3>1. ms = markets
      BY <1>2, <2>2
    <3> QED BY <1>2, <2>2, <3>1, AlikeNow
  <2>3. CASE m \in Accrued(v)
    BY <1>2, <2>1, <2>3, AlikeAccrued
  <2> QED BY <2>2, <2>3
<1>4. redeemAllowedInternal(ms, v, payer, t)
  OBVIOUS
<1> HIDE DEF ms
<1>5. \A w \in VTokens : borrowBalanceStored(markets'[w], a) = borrowBalanceStored(ms[w], a)
  <2>1. borrowBalanceStored(n, a) = borrowBalanceStored(m, a)
    BY SameBalance DEF SameDebts
  <2> QED BY <1>2, <1>3, <2>1
<1>6. \A w \in VTokens : /\ ms[w].accountTokens[a] \in Nat
                         /\ borrowBalanceStored(ms[w], a) \in Nat
                         /\ LooksAlike(ms[w], markets[w])
  BY <1>3, BorrowBalanceType DEF AllAlike, Readable, MarketInv, Market
<1>7. \A w \in VTokens \ {v} : ms[w].accountTokens[a] <= markets'[w].accountTokens[a]
  BY <1>2, <1>3, <1>6
<1>8. CASE a = payer
  BY <1>1, <1>2, <1>3, <1>4, <1>5, <1>7, <1>8, GivesTokens
<1>9. CASE a # payer
  <2>1. \A w \in VTokens :
          /\ markets[w].accountTokens[a] <= markets'[w].accountTokens[a]
          /\ borrowBalanceStored(markets'[w], a) <= borrowBalanceStored(markets[w], a)
    BY <1>2, <1>3, <1>5, <1>6, <1>7, <1>9 DEF LooksAlike
  <2>2. /\ known(a) /\ known(a)' /\ shortfall(a, USE_COLLATERAL_FACTOR) = 0
        /\ accountAssets'[a] = accountAssets[a] /\ userPoolId'[a] = userPoolId[a]
    BY <1>1 DEF InLimits, membershipVars
  <2>3. shortfall(a, USE_COLLATERAL_FACTOR)' <= 1
    BY <1>1, <2>1, <2>2, BystanderSafe
  <2> QED BY <2>3 DEF OneShort
<1> QED BY <1>8, <1>9

\* A redemption that the hook lets through pushes nobody out of the limits.
LEMMA RedeemSafe ==
  ASSUME Inv, Inv', NEW redeemer \in Accounts, NEW v \in VTokens, NEW m \in Accrued(v),
         NEW tokens \in Nat, NEW amount \in Nat,
         redeemsFrom([markets EXCEPT ![v] = m], v, redeemer, tokens, amount),
         UNCHANGED membershipVars
  PROVE  SafeAfter
<1> DEFINE n == redeemFresh(m, redeemer, tokens, amount)
<1>1. /\ canRedeem(m, redeemer, tokens, amount) /\ markets' = [markets EXCEPT ![v] = n]
      /\ redeemAllowedInternal([markets EXCEPT ![v] = m], v, redeemer, tokens)
  BY MarketBefore DEF redeemsFrom, redeemAllowed
<1>2. MarketInv(m) /\ m \in Market
  BY AccruedMarket DEF MarketInv
<1>3. n.borrowIndex = m.borrowIndex
  BY <1>1, <1>2, RedeemFacts
<1>4. SameDebts(n, m)
  BY <1>2, RedeemKeeps
<1>5. /\ n.accountTokens[redeemer] = m.accountTokens[redeemer] - tokens
      /\ \A a \in Accounts \ {redeemer} : n.accountTokens[a] = m.accountTokens[a]
  BY <1>2, RedeemedTokens
<1>6. /\ \A a \in Accounts : m.accountTokens[a] \in Nat
      /\ tokens <= m.accountTokens[redeemer]
  BY <1>1, <1>2 DEF Market, canRedeem
<1> HIDE DEF n
<1>7. \A a \in Accounts \ {redeemer} : m.accountTokens[a] <= n.accountTokens[a]
  BY <1>5, <1>6
<1> QED BY <1>1, <1>3, <1>4, <1>5, <1>6, <1>7, TokensLeave

\* Neither do redeem and redeemUnderlying.
LEMMA RedeemsSafe ==
  ASSUME Inv, Inv', NEW redeemer \in Accounts, NEW v \in VTokens, NEW n \in Amounts,
         Redeem(redeemer, v, n) \/ RedeemUnderlying(redeemer, v, n)
  PROVE  SafeAfter
<1>1. n \in Nat /\ UNCHANGED membershipVars
  BY ComptrollerAssumption DEF Redeem, RedeemUnderlying
<1>2. CASE Redeem(redeemer, v, n)
  <2>1. PICK m \in Accrued(v) :
          redeemsFrom([markets EXCEPT ![v] = m], v, redeemer, n, redeemAmountFor(m, n))
    BY <1>2 DEF Redeem
  <2>2. m \in Market /\ exchangeRateDefined(m)
    BY <2>1, AccruedMarket, MarketBefore DEF redeemsFrom, canRedeem, MarketInv
  <2>3. redeemAmountFor(m, n) \in Nat
    BY <1>1, <2>2, ExchangeRateFacts, MulScalarBounds DEF redeemAmountFor
  <2> QED BY <1>1, <2>1, <2>3, RedeemSafe
<1>3. CASE RedeemUnderlying(redeemer, v, n)
  <2>1. PICK m \in Accrued(v) :
          /\ exchangeRateDefined(m) /\ exchangeRateStored(m) > 0
          /\ redeemsFrom([markets EXCEPT ![v] = m], v, redeemer, redeemTokensFor(m, n), n)
    BY <1>3 DEF RedeemUnderlying
  <2>2. exchangeRateStored(m) \in Nat \ {0}
    BY <2>1, AccruedMarket, ExchangeRateFacts DEF MarketInv
  <2>3. redeemTokensFor(m, n) \in Nat
    BY <1>1, <2>2, DivScalarBounds DEF redeemTokensFor
  <2> QED BY <1>1, <2>1, <2>3, RedeemSafe
<1> QED BY <1>2, <1>3

\* A transfer that the hook lets through pushes nobody out of the limits.
LEMMA TransferSafe ==
  ASSUME Inv, Inv', NEW src \in Accounts, NEW dst \in Accounts, NEW v \in VTokens,
         NEW tokens \in Amounts, Transfer(src, dst, v, tokens)
  PROVE  SafeAfter
<1> DEFINE m == markets[v]
           n == moveTokens(m, src, dst, tokens)
<1>1. /\ canMove(m, src, dst, tokens) /\ markets' = [markets EXCEPT ![v] = n]
      /\ redeemAllowedInternal(markets, v, src, tokens)
      /\ UNCHANGED membershipVars
  BY DEF Transfer, transferAllowed
<1>2. tokens \in Nat /\ MarketInv(m) /\ m \in Market /\ src # dst
        /\ tokens <= m.accountTokens[src]
  BY <1>1, ComptrollerAssumption, MarketBefore DEF canMove
<1>3. n.borrowIndex = m.borrowIndex
  BY <1>1, <1>2, MoveFacts
<1>4. /\ SameDebts(n, m) /\ n.accountTokens[src] = m.accountTokens[src] - tokens
      /\ \A a \in Accounts \ {src} : n.accountTokens[a] >= m.accountTokens[a]
  BY <1>2, MoveKeeps
<1>5. n \in Market
  BY <1>1, <1>2, MoveFacts DEF MarketInv
<1>6. \A a \in Accounts \ {src} : m.accountTokens[a] <= n.accountTokens[a]
  <2>1. \A a \in Accounts : n.accountTokens[a] \in Nat /\ m.accountTokens[a] \in Nat
    BY <1>2, <1>5 DEF Market
  <2> QED BY <1>4, <2>1
<1> DEFINE ms == [markets EXCEPT ![v] = m]
<1>7. ms = markets
  BY MarketBefore
<1>8. redeemAllowedInternal(ms, v, src, tokens)
  BY <1>1, <1>7
<1> HIDE DEF n, m
<1> QED BY <1>1, <1>2, <1>3, <1>4, <1>6, <1>8, TokensLeave DEF m

\* A borrow raises the debt of the borrower by the amount, and no other.
LEMMA BorrowedDebt ==
  ASSUME NEW m, MarketInv(m), NEW borrower \in Accounts, NEW amount \in Nat,
         canBorrow(m, amount)
  PROVE  LET n == borrowFresh(m, borrower, amount)
         IN  /\ n.borrowIndex = m.borrowIndex /\ n.accountTokens = m.accountTokens
             /\ \A a \in Accounts \ {borrower} :
                  borrowBalanceStored(n, a) = borrowBalanceStored(m, a)
             /\ borrowBalanceStored(n, borrower) = borrowBalanceStored(m, borrower) + amount
<1> DEFINE n == borrowFresh(m, borrower, amount)
           debt == borrowBalanceStored(m, borrower)
<1>1. m \in Market /\ m.borrowIndex \in Nat \ {0} /\ debt \in Nat
  BY BorrowBalanceType, ExpScaleAssumption DEF MarketInv, snapshotsReached, Market
<1>2. /\ n.accountTokens = m.accountTokens
      /\ \A a \in Accounts \ {borrower} : /\ n.principal[a] = m.principal[a]
                                          /\ n.interestIndex[a] = m.interestIndex[a]
      /\ n.principal[borrower] = debt + amount
      /\ n.interestIndex[borrower] = m.borrowIndex
  BY <1>1, BorrowKeeps
<1>3. n.borrowIndex = m.borrowIndex
  BY BorrowFacts
<1> HIDE DEF n, debt
<1>4. \A a \in Accounts \ {borrower} : borrowBalanceStored(n, a) = borrowBalanceStored(m, a)
  BY <1>2, <1>3, SameBalance
<1>5. borrowBalanceStored(n, borrower) = debt + amount
  BY <1>1, <1>2, <1>3, FreshBalance
<1> QED BY <1>2, <1>3, <1>4, <1>5 DEF n, debt

\* Who borrows, and what the comptroller asks for that.
LEMMA TakesDebt ==
  ASSUME Inv, Inv', steady, NEW a \in Accounts, known(a)', NEW v \in VTokens,
         NEW ms, AllAlike(ms), NEW amount \in Nat, positionKnown(ms, accountAssets'[a]),
         shortfallOf(ms, accountAssets'[a], userPoolId'[a], a, USE_COLLATERAL_FACTOR,
                     mulScalarTruncate(underlyingPrice[v], amount)) = 0,
         markets'[v].accountTokens[a] = ms[v].accountTokens[a],
         borrowBalanceStored(markets'[v], a) = borrowBalanceStored(ms[v], a) + amount,
         \A w \in VTokens \ {v} : /\ markets'[w].accountTokens[a] = ms[w].accountTokens[a]
                                  /\ borrowBalanceStored(markets'[w], a)
                                       = borrowBalanceStored(ms[w], a)
  PROVE  OneShort(a)
<1> DEFINE assets == accountAssets'[a]
           pool == userPoolId'[a]
           price == underlyingPrice[v]
           e == mulScalarTruncate(price, amount)
<1>1. assets \in Seq(VTokens) /\ pool \in Pools /\ price \in Nat
  BY NextAccount DEF Inv, TypeOK
<1>2. Readable(ms) /\ Readable(markets') /\ positionKnown(markets', assets)
  BY ReadableNext, NextLooks DEF AllAlike, steady
<1>3. \A w \in VTokens : /\ ms[w].accountTokens[a] \in Nat
                         /\ borrowBalanceStored(ms[w], a) \in Nat
  BY <1>2, BorrowBalanceType DEF Readable, MarketInv, Market
<1>4. e \in Nat
  <2> HIDE DEF price
  <2> QED BY <1>1, MulScalarBounds
<1>5. ASSUME v \in Counted(assets)
      PROVE  Worth(ms, pool, a, v) + Owed(markets', a, v)
               <= Worth(markets', pool, a, v) + Owed(ms, a, v) + e + 1
  <2>1. exchangeRateDefined(ms[v]) /\ exchangeRateDefined(markets'[v])
    <3> HIDE DEF assets
    <3> QED BY <1>1, <1>2, <1>5, CountedKnown DEF assets
  <2>2. /\ Worth(ms, pool, a, v) \in Nat /\ Owed(ms, a, v) \in Nat
        /\ Worth(markets', pool, a, v) \in Nat /\ Owed(markets', a, v) \in Nat
    <3> HIDE DEF pool
    <3> QED BY <1>1, <1>2, <2>1, PositionTypes
  <2>3. Worth(ms, pool, a, v) <= Worth(markets', pool, a, v)
    <3> DEFINE x == ms[v].accountTokens[a]
    <3>1. x \in Nat /\ x <= markets'[v].accountTokens[a]
      BY <1>3
    <3> HIDE DEF pool, x
    <3>2. mulScalarTruncate(tokensToDenom(ms, pool, v, USE_COLLATERAL_FACTOR), x)
            <= Worth(markets', pool, a, v)
      BY <1>1, <2>1, <3>1, WorthGrows
    <3> QED BY <3>2 DEF Worth, x
  <2>4. Owed(markets', a, v) <= Owed(ms, a, v) + e + 1
    <3> DEFINE b == borrowBalanceStored(ms[v], a)
    <3>1. b \in Nat
      BY <1>3
    <3> HIDE DEF b, price
    <3>2. mulScalarTruncate(price, b + amount) <= mulScalarTruncate(price, b) + e + 1
      BY <1>1, <3>1, TruncatedSum
    <3> QED BY <3>2 DEF Owed, b, price
  <2> HIDE DEF e, pool
  <2> QED BY <1>4, <2>2, <2>3, <2>4
<1>6. \A w \in Counted(assets) \ {v} :
        /\ ms[w].accountTokens[a] <= markets'[w].accountTokens[a]
        /\ borrowBalanceStored(markets'[w], a) <= borrowBalanceStored(ms[w], a)
  <2>1. \A w \in Counted(assets) : w \in VTokens
    BY <1>1 DEF Counted, ToSet
  <2> HIDE DEF assets
  <2> QED BY <1>3, <2>1
<1>7. /\ positionKnown(ms, assets)
      /\ shortfallOf(ms, assets, pool, a, USE_COLLATERAL_FACTOR, e) = 0
  OBVIOUS
<1> HIDE DEF e
<1>8. shortfall(a, USE_COLLATERAL_FACTOR)' <= 1
  BY <1>4, <1>5, <1>6, <1>7, Afterwards
<1> QED BY <1>8 DEF OneShort

\* A borrow that the hook lets through pushes nobody out of the limits.
LEMMA BorrowSafe ==
  ASSUME Inv, Inv', NEW borrower \in Accounts, NEW v \in VTokens, NEW amount \in Amounts,
         Borrow(borrower, v, amount)
  PROVE  SafeAfter
<1>1. SUFFICES ASSUME steady, NEW a \in Accounts, InLimits(a) PROVE OneShort(a)
  BY DEF SafeAfter
<1> DEFINE assets == IF borrower \in accountMembership[v]
                       THEN accountAssets[borrower]
                       ELSE Append(accountAssets[borrower], v)
<1>2. PICK m \in Accrued(v) :
        /\ borrowAllowed([markets EXCEPT ![v] = m], assets, v, borrower, amount)
        /\ canBorrow(m, amount)
        /\ markets' = [[markets EXCEPT ![v] = m] EXCEPT ![v] = borrowFresh(m, borrower, amount)]
        /\ accountMembership' = [accountMembership EXCEPT ![v] = @ \cup {borrower}]
        /\ accountAssets' = [accountAssets EXCEPT ![borrower] = assets]
  BY DEF Borrow
<1> DEFINE ms == [markets EXCEPT ![v] = m]
           n == borrowFresh(m, borrower, amount)
<1>3. userPoolId' = userPoolId /\ amount \in Nat /\ accountAssets \in [Accounts -> Seq(VTokens)]
  <2>1. userPoolId' = userPoolId
    BY DEF Borrow
  <2> QED BY <2>1, ComptrollerAssumption DEF Inv, TypeOK
<1>4. /\ n.borrowIndex = m.borrowIndex /\ n.accountTokens = m.accountTokens
      /\ \A b \in Accounts \ {borrower} :
           borrowBalanceStored(n, b) = borrowBalanceStored(m, b)
      /\ borrowBalanceStored(n, borrower) = borrowBalanceStored(m, borrower) + amount
  BY <1>2, <1>3, AccruedMarket, BorrowedDebt
<1>5. /\ markets'[v] = n /\ ms[v] = m
      /\ \A w \in VTokens \ {v} : markets'[w] = markets[w] /\ ms[w] = markets[w]
  BY <1>2, MarketBefore
<1>6. /\ positionKnown(ms, assets)
      /\ shortfallOf(ms, assets, userPoolId[borrower], borrower, USE_COLLATERAL_FACTOR,
                     mulScalarTruncate(underlyingPrice[v], amount)) = 0
  BY <1>2 DEF borrowAllowed
<1> HIDE DEF n, ms, assets
<1>7. AllAlike(ms)
  <2>1. m.borrowIndex = markets[v].borrowIndex
    BY <1>1, <1>4, <1>5 DEF steady
  <2> QED BY <2>1, AlikeAccrued DEF ms
<1>8. CASE a = borrower
  <2>1. accountAssets'[a] = assets /\ userPoolId'[a] = userPoolId[a] /\ known(a)'
    BY <1>1, <1>2, <1>3, <1>8 DEF InLimits
  <2>2. /\ markets'[v].accountTokens[a] = ms[v].accountTokens[a]
        /\ borrowBalanceStored(markets'[v], a) = borrowBalanceStored(ms[v], a) + amount
        /\ \A w \in VTokens \ {v} : /\ markets'[w].accountTokens[a] = ms[w].accountTokens[a]
                                    /\ borrowBalanceStored(markets'[w], a)
                                         = borrowBalanceStored(ms[w], a)
    BY <1>4, <1>5, <1>8
  <2>3. /\ positionKnown(ms, accountAssets'[a])
        /\ shortfallOf(ms, accountAssets'[a], userPoolId'[a], a, USE_COLLATERAL_FACTOR,
                       mulScalarTruncate(underlyingPrice[v], amount)) = 0
    BY <1>6, <1>8, <2>1
  <2> QED BY <1>1, <1>3, <1>7, <2>1, <2>2, <2>3, TakesDebt
<1>9. CASE a # borrower
  <2>1. \A w \in VTokens : /\ ms[w].accountTokens[a] \in Nat
                           /\ borrowBalanceStored(ms[w], a) \in Nat
                           /\ LooksAlike(ms[w], markets[w])
    BY <1>7, BorrowBalanceType DEF AllAlike, Readable, MarketInv, Market
  <2>2. \A w \in VTokens :
          /\ markets[w].accountTokens[a] <= markets'[w].accountTokens[a]
          /\ borrowBalanceStored(markets'[w], a) <= borrowBalanceStored(markets[w], a)
    BY <1>4, <1>5, <1>9, <2>1 DEF LooksAlike
  <2>3. /\ known(a) /\ known(a)' /\ shortfall(a, USE_COLLATERAL_FACTOR) = 0
        /\ accountAssets'[a] = accountAssets[a] /\ userPoolId'[a] = userPoolId[a]
    BY <1>1, <1>2, <1>3, <1>9 DEF InLimits
  <2>4. shortfall(a, USE_COLLATERAL_FACTOR)' <= 1
    BY <1>1, <2>2, <2>3, BystanderSafe
  <2> QED BY <2>4 DEF OneShort
<1> QED BY <1>8, <1>9

\* Calls that leave the markets alone: what the lens says afterwards.
LEMMA MarketsAsTheyWere ==
  ASSUME Inv, Inv', steady, UNCHANGED markets, NEW a \in Accounts, known(a)'
  PROVE  /\ positionKnown(markets, accountAssets'[a])
         /\ OneShort(a) <=>
              shortfallOf(markets, accountAssets'[a], userPoolId'[a], a,
                          USE_COLLATERAL_FACTOR, 0) <= 1
  BY NextLooks DEF steady, OneShort

\* Steps that leave the markets, the list and the pool of an account alone.
LEMMA UntouchedSafe ==
  ASSUME Inv, Inv', steady, UNCHANGED markets, NEW a \in Accounts, InLimits(a),
         accountAssets'[a] = accountAssets[a], userPoolId'[a] = userPoolId[a]
  PROVE  OneShort(a)
<1>1. known(a)' /\ shortfall(a, USE_COLLATERAL_FACTOR) = 0
  BY DEF InLimits
<1>2. shortfall(a, USE_COLLATERAL_FACTOR) =
        shortfallOf(markets, accountAssets[a], userPoolId[a], a, USE_COLLATERAL_FACTOR, 0)
  BY DEF shortfall
<1> QED BY <1>1, <1>2, MarketsAsTheyWere

\* The sums with and without one listed market.
WorthOf(assets, pool, a) ==
  Total([w \in Counted(assets) |-> Worth(markets, pool, a, w)])

OwedOn(assets, a) == Total([w \in Counted(assets) |-> Owed(markets, a, w)])

LeavesOut(s, v, t) == v \in ToSet(s) /\ ToSet(t) = ToSet(s) \ {v}

\* What a list is worth without one of its markets.
LEMMA SumsWithout ==
  ASSUME Inv, NEW s \in Seq(VTokens), IsInjective(s), positionKnown(markets, s),
         NEW v \in VTokens, isListed(v), NEW t \in Seq(VTokens), LeavesOut(s, v, t),
         NEW pool \in Pools, NEW a \in Accounts
  PROVE  /\ Worth(markets, pool, a, v) \in Nat
         /\ WorthOf(s, pool, a) = Worth(markets, pool, a, v) + WorthOf(t, pool, a)
         /\ OwedOn(s, a) = Owed(markets, a, v) + OwedOn(t, a)
<1> DEFINE L == Counted(s)
           f == [w \in L |-> Worth(markets, pool, a, w)]
           g == [w \in L |-> Owed(markets, a, w)]
<1>1. /\ IsFiniteSet(L) /\ f \in [L -> Nat] /\ g \in [L -> Nat]
      /\ sumCollateral(markets, s, pool, a, USE_COLLATERAL_FACTOR) = Total(f)
      /\ sumBorrow(markets, s, a) = Total(g)
  <2>1. Readable(markets)
    BY AlikeNow DEF AllAlike
  <2> QED BY <2>1, SumsByMarket
<1>2. v \in L /\ Counted(t) = L \ {v}
  BY DEF Counted, LeavesOut
<1>3. /\ RestOf(f, v) = [w \in Counted(t) |-> Worth(markets, pool, a, w)]
      /\ RestOf(g, v) = [w \in Counted(t) |-> Owed(markets, a, w)]
      /\ f[v] = Worth(markets, pool, a, v) /\ g[v] = Owed(markets, a, v)
  <2> HIDE DEF L
  <2> QED BY <1>2 DEF RestOf
<1> HIDE DEF L, f, g
<1>4. Total(f) = f[v] + Total(RestOf(f, v))
  BY <1>1, <1>2, TotalWithout, Zenon
<1>5. Total(g) = g[v] + Total(RestOf(g, v))
  BY <1>1, <1>2, TotalWithout, Zenon
<1>6. f[v] \in Nat
  BY <1>1, <1>2
<1> QED BY <1>3, <1>4, <1>5, <1>6, Zenon DEF L, f, g, WorthOf, OwedOn

\* Nothing owed counts nothing.
LEMMA NothingOwed ==
  ASSUME Inv, NEW v \in VTokens, NEW a \in Accounts, borrowBalanceStored(markets[v], a) = 0
  PROVE  Owed(markets, a, v) = 0
<1>1. underlyingPrice[v] \in Nat
  BY DEF Inv, TypeOK
<1> QED BY <1>1, NothingTimes DEF Owed

\* The shortfall compares the two sums of the lens.
LEMMA CoveredSums ==
  ASSUME Inv, NEW s \in Seq(VTokens), IsInjective(s), positionKnown(markets, s),
         NEW pool \in Pools, NEW a \in Accounts, NEW e \in Nat
  PROVE  /\ WorthOf(s, pool, a) \in Nat /\ OwedOn(s, a) \in Nat
         /\ shortfallOf(markets, s, pool, a, USE_COLLATERAL_FACTOR, e) = 0
              <=> OwedOn(s, a) + e <= WorthOf(s, pool, a)
<1>1. Readable(markets)
  BY AlikeNow DEF AllAlike
<1> QED BY <1>1, NoShortfall DEF WorthOf, OwedOn

\* A market where the account owes nothing may join the list, and may leave it
\* when the rest covers the debt without it.
LEMMA PaidMarket ==
  ASSUME Inv, NEW s \in Seq(VTokens), IsInjective(s), positionKnown(markets, s),
         NEW t \in Seq(VTokens), IsInjective(t), positionKnown(markets, t),
         NEW v \in VTokens, isListed(v), LeavesOut(s, v, t),
         NEW pool \in Pools, NEW a \in Accounts, Owed(markets, a, v) = 0
  PROVE  /\ shortfallOf(markets, t, pool, a, USE_COLLATERAL_FACTOR, 0) = 0
              => shortfallOf(markets, s, pool, a, USE_COLLATERAL_FACTOR, 0) = 0
         /\ shortfallOf(markets, s, pool, a, USE_COLLATERAL_FACTOR,
                        Worth(markets, pool, a, v)) = 0
              => shortfallOf(markets, t, pool, a, USE_COLLATERAL_FACTOR, 0) = 0
<1> DEFINE w == Worth(markets, pool, a, v)
<1>1. /\ w \in Nat
      /\ WorthOf(s, pool, a) = w + WorthOf(t, pool, a)
      /\ OwedOn(s, a) = OwedOn(t, a)
  <2>1. /\ Worth(markets, pool, a, v) \in Nat
        /\ WorthOf(s, pool, a) = Worth(markets, pool, a, v) + WorthOf(t, pool, a)
        /\ OwedOn(s, a) = Owed(markets, a, v) + OwedOn(t, a)
    BY SumsWithout, Zenon
  <2>2. OwedOn(t, a) \in Nat
    <3>1. 0 \in Nat
      OBVIOUS
    <3> QED BY <3>1, CoveredSums, Zenon
  <2> QED BY <2>1, <2>2
<1>2. ASSUME NEW e \in Nat
      PROVE  /\ WorthOf(s, pool, a) \in Nat /\ OwedOn(s, a) \in Nat
             /\ shortfallOf(markets, s, pool, a, USE_COLLATERAL_FACTOR, e) = 0
                  <=> OwedOn(s, a) + e <= WorthOf(s, pool, a)
  BY CoveredSums, Zenon
<1>3. ASSUME NEW e \in Nat
      PROVE  /\ WorthOf(t, pool, a) \in Nat /\ OwedOn(t, a) \in Nat
             /\ shortfallOf(markets, t, pool, a, USE_COLLATERAL_FACTOR, e) = 0
                  <=> OwedOn(t, a) + e <= WorthOf(t, pool, a)
  BY CoveredSums, Zenon
<1> HIDE DEF w
<1>4. 0 \in Nat
  OBVIOUS
<1>5. /\ shortfallOf(markets, s, pool, a, USE_COLLATERAL_FACTOR, 0) = 0
           <=> OwedOn(s, a) + 0 <= WorthOf(s, pool, a)
      /\ OwedOn(s, a) \in Nat
  BY <1>2, <1>4, Zenon
<1>6. /\ shortfallOf(markets, t, pool, a, USE_COLLATERAL_FACTOR, 0) = 0
           <=> OwedOn(t, a) + 0 <= WorthOf(t, pool, a)
      /\ WorthOf(t, pool, a) \in Nat
  BY <1>3, <1>4, Zenon
<1>7. shortfallOf(markets, s, pool, a, USE_COLLATERAL_FACTOR, w) = 0
        <=> OwedOn(s, a) + w <= WorthOf(s, pool, a)
  BY <1>1, <1>2, Zenon
<1>8. /\ OwedOn(t, a) + 0 <= WorthOf(t, pool, a) => OwedOn(s, a) + 0 <= WorthOf(s, pool, a)
      /\ OwedOn(s, a) + w <= WorthOf(s, pool, a) => OwedOn(t, a) + 0 <= WorthOf(t, pool, a)
  BY <1>1, <1>5, <1>6
<1> QED BY <1>5, <1>6, <1>7, <1>8, Zenon DEF w

\* Entering a market pushes nobody out of the limits.
LEMMA EnterMarketSafe ==
  ASSUME Inv, Inv', NEW x \in Accounts, NEW v \in VTokens, EnterMarket(x, v)
  PROVE  SafeAfter
<1>1. SUFFICES ASSUME steady, NEW a \in Accounts, InLimits(a) PROVE OneShort(a)
  BY DEF SafeAfter
<1> DEFINE t == accountAssets[a]
           s == Append(t, v)
           pool == userPoolId[a]
<1>2. /\ UNCHANGED markets /\ userPoolId' = userPoolId /\ isListed(v)
      /\ x \notin accountMembership[v]
      /\ accountAssets' = [accountAssets EXCEPT ![x] = Append(@, v)]
  BY DEF EnterMarket
<1>3. /\ accountAssets \in [Accounts -> Seq(VTokens)] /\ pool \in Pools
      /\ t \in Seq(VTokens) /\ IsInjective(t)
      /\ ToSet(t) = {w \in VTokens : a \in accountMembership[w]}
  BY DEF Inv, TypeOK, PositionsCounted, AssetsMatchMembership
<1>4. CASE a # x
  <2>1. accountAssets'[a] = accountAssets[a] /\ userPoolId'[a] = userPoolId[a]
    BY <1>2, <1>3, <1>4
  <2> QED BY <1>1, <1>2, <2>1, UntouchedSafe
<1>5. CASE a = x
  <2>1. accountAssets'[a] = s /\ userPoolId'[a] = pool
    BY <1>2, <1>3, <1>5
  <2>2. v \notin ToSet(t)
    BY <1>2, <1>3, <1>5
  <2>3. s \in Seq(VTokens) /\ IsInjective(s) /\ ToSet(s) = ToSet(t) \cup {v}
    <3> HIDE DEF t
    <3> QED BY <1>3, <2>2, AppendAsset
  <2>4. /\ positionKnown(markets, t) /\ known(a)'
        /\ shortfallOf(markets, t, pool, a, USE_COLLATERAL_FACTOR, 0) = 0
    BY <1>1 DEF InLimits, known, shortfall
  <2> HIDE DEF s, t, pool
  <2>5. /\ positionKnown(markets, s)
        /\ OneShort(a) <=> shortfallOf(markets, s, pool, a, USE_COLLATERAL_FACTOR, 0) <= 1
    BY <1>1, <1>2, <2>1, <2>4, MarketsAsTheyWere
  <2>6. Owed(markets, a, v) = 0
    <3>1. markets[v].principal[a] = 0
      <4>1. markets[v].principal[a] \in Nat
        BY MarketBefore DEF Market
      <4> QED BY <1>2, <1>5, <4>1 DEF Inv, PositionsCounted, BorrowersAreMembers
    <3>2. borrowBalanceStored(markets[v], a) = 0
      BY <3>1 DEF borrowBalanceStored
    <3> QED BY <3>2, NothingOwed
  <2>7. LeavesOut(s, v, t)
    BY <2>2, <2>3 DEF LeavesOut
  <2>8. t \in Seq(VTokens) /\ IsInjective(t) /\ pool \in Pools
    BY <1>3 DEF t
  <2>9. shortfallOf(markets, s, pool, a, USE_COLLATERAL_FACTOR, 0) = 0
    BY <1>2, <2>3, <2>4, <2>5, <2>6, <2>7, <2>8, PaidMarket, Zenon
  <2> QED BY <2>5, <2>9
<1> QED BY <1>4, <1>5

\* Leaving a market pushes nobody out of the limits.
LEMMA ExitMarketSafe ==
  ASSUME Inv, Inv', NEW x \in Accounts, NEW v \in VTokens, ExitMarket(x, v)
  PROVE  SafeAfter
<1>1. SUFFICES ASSUME steady, NEW a \in Accounts, InLimits(a) PROVE OneShort(a)
  BY DEF SafeAfter
<1> DEFINE s == accountAssets[a]
           t == withoutAsset(s, v)
           pool == userPoolId[a]
<1>2. /\ UNCHANGED markets /\ userPoolId' = userPoolId /\ mayExit(x, v)
      /\ x \in accountMembership[v] /\ v \in ToSet(accountAssets[x])
      /\ accountAssets' = [accountAssets EXCEPT ![x] = withoutAsset(@, v)]
  BY DEF ExitMarket
<1>3. /\ accountAssets \in [Accounts -> Seq(VTokens)] /\ pool \in Pools
      /\ s \in Seq(VTokens) /\ IsInjective(s)
  BY DEF Inv, TypeOK, PositionsCounted, AssetsMatchMembership
<1>4. CASE a # x
  <2>1. accountAssets'[a] = accountAssets[a] /\ userPoolId'[a] = userPoolId[a]
    BY <1>2, <1>3, <1>4
  <2> QED BY <1>1, <1>2, <2>1, UntouchedSafe
<1>5. CASE a = x
  <2> HIDE DEF t
  <2>1. accountAssets'[a] = t /\ userPoolId'[a] = pool /\ v \in ToSet(s)
    BY <1>2, <1>3, <1>5 DEF t
  <2>2. t \in Seq(VTokens) /\ IsInjective(t) /\ LeavesOut(s, v, t)
    <3> HIDE DEF s
    <3> QED BY <1>3, <2>1, WithoutAsset DEF t, LeavesOut
  <2>3. known(a)'
    BY <1>1 DEF InLimits
  <2>4. /\ isListed(v) /\ positionKnown(markets, s) /\ borrowBalanceStored(markets[v], a) = 0
        /\ shortfallOf(markets, s, pool, a, USE_COLLATERAL_FACTOR,
                       Worth(markets, pool, a, v)) = 0
    BY <1>2, <1>5 DEF mayExit, redeemAllowedInternal, Worth
  <2> HIDE DEF s, pool
  <2>5. /\ positionKnown(markets, t)
        /\ OneShort(a) <=> shortfallOf(markets, t, pool, a, USE_COLLATERAL_FACTOR, 0) <= 1
    BY <1>1, <1>2, <2>1, <2>3, MarketsAsTheyWere
  <2>6. Owed(markets, a, v) = 0
    BY <2>4, NothingOwed
  <2>7. s \in Seq(VTokens) /\ IsInjective(s) /\ pool \in Pools
    BY <1>3 DEF s
  <2>8. shortfallOf(markets, t, pool, a, USE_COLLATERAL_FACTOR, 0) = 0
    BY <2>2, <2>4, <2>5, <2>6, <2>7, PaidMarket, Zenon
  <2> QED BY <2>5, <2>8
<1> QED BY <1>4, <1>5

\* Changing the pool pushes nobody out of the limits.
LEMMA EnterPoolSafe ==
  ASSUME Inv, Inv', NEW x \in Accounts, NEW pool \in Pools, EnterPool(x, pool)
  PROVE  SafeAfter
<1>1. SUFFICES ASSUME steady, NEW a \in Accounts, InLimits(a) PROVE OneShort(a)
  BY DEF SafeAfter
<1>2. /\ UNCHANGED markets /\ accountAssets' = accountAssets
      /\ userPoolId' = [userPoolId EXCEPT ![x] = pool]
      /\ shortfallOf(markets, accountAssets[x], pool, x, USE_COLLATERAL_FACTOR, 0) = 0
      /\ userPoolId \in [Accounts -> Pools]
  BY DEF EnterPool, Inv, TypeOK
<1>3. CASE a # x
  <2>1. accountAssets'[a] = accountAssets[a] /\ userPoolId'[a] = userPoolId[a]
    BY <1>2, <1>3
  <2> QED BY <1>1, <1>2, <2>1, UntouchedSafe
<1>4. CASE a = x
  <2>1. /\ accountAssets'[a] = accountAssets[a] /\ userPoolId'[a] = pool
        /\ shortfallOf(markets, accountAssets[a], pool, a, USE_COLLATERAL_FACTOR, 0) = 0
    BY <1>2, <1>4
  <2>2. known(a)'
    BY <1>1 DEF InLimits
  <2>3. OneShort(a) <=>
          shortfallOf(markets, accountAssets'[a], userPoolId'[a], a,
                      USE_COLLATERAL_FACTOR, 0) <= 1
    BY <1>1, <1>2, <2>2, MarketsAsTheyWere
  <2> QED BY <2>1, <2>3
<1> QED BY <1>3, <1>4

\* Steps of the administration, the prices and the clock: no call is made.
LEMMA NoCallSafe ==
  ASSUME Inv, Inv', UNCHANGED <<markets, accountAssets, userPoolId>>
  PROVE  SafeAfter
<1>1. SUFFICES ASSUME steady, NEW a \in Accounts, InLimits(a) PROVE OneShort(a)
  BY DEF SafeAfter
<1>2. accountAssets'[a] = accountAssets[a] /\ userPoolId'[a] = userPoolId[a]
  OBVIOUS
<1> QED BY <1>1, <1>2, UntouchedSafe

\* To the lens, alike markets are the markets in storage.
LEMMA AlikeShortfall ==
  ASSUME Inv, NEW ms, AllAlike(ms), NEW a \in Accounts, NEW weight
  PROVE  /\ positionKnown(ms, accountAssets[a]) <=> known(a)
         /\ shortfallOf(ms, accountAssets[a], userPoolId[a], a, weight, 0)
              = shortfall(a, weight)
<1> DEFINE assets == accountAssets[a]
           pool == userPoolId[a]
           D == getAssetsIn(assets)
<1>1. \A i \in D : assets[i] \in VTokens
  <2>1. assets \in Seq(VTokens)
    BY DEF Inv, TypeOK
  <2> QED BY <2>1 DEF getAssetsIn
<1>2. \A v \in VTokens : LooksAlike(ms[v], markets[v])
  BY DEF AllAlike
<1> HIDE DEF D, assets
<1>3. \A i \in D : /\ exchangeRateDefined(ms[assets[i]]) <=> exchangeRateDefined(markets[assets[i]])
                   /\ tokensToDenom(ms, pool, assets[i], weight)
                        = tokensToDenom(markets, pool, assets[i], weight)
                   /\ ms[assets[i]].accountTokens[a] = markets[assets[i]].accountTokens[a]
                   /\ borrowBalanceStored(ms[assets[i]], a)
                        = borrowBalanceStored(markets[assets[i]], a)
  BY <1>1, <1>2 DEF LooksAlike, tokensToDenom
<1>4. sumCollateral(ms, assets, pool, a, weight) = sumCollateral(markets, assets, pool, a, weight)
  BY <1>3 DEF sumCollateral, D
<1>5. sumBorrow(ms, assets, a) = sumBorrow(markets, assets, a)
  BY <1>3 DEF sumBorrow, D
<1>6. positionKnown(ms, assets) <=> positionKnown(markets, assets)
  BY <1>3 DEF positionKnown, D
<1> HIDE DEF pool
<1>7. shortfallOf(ms, assets, pool, a, weight, 0) = shortfallOf(markets, assets, pool, a, weight, 0)
  BY <1>4, <1>5, Zenon DEF shortfallOf
<1> QED BY <1>6, <1>7, Zenon DEF known, shortfall, assets, pool

\* Quiet accruals in the two markets of a liquidation make no difference either.
LEMMA AlikeTwice ==
  ASSUME Inv, NEW vB \in VTokens, NEW vC \in VTokens,
         NEW mB \in Accrued(vB), NEW mC \in Accrued(vC),
         mB.borrowIndex = markets[vB].borrowIndex,
         vB # vC => mC.borrowIndex = markets[vC].borrowIndex
  PROVE  AllAlike([markets EXCEPT ![vC] = mC, ![vB] = mB])
<1> DEFINE ms == [markets EXCEPT ![vC] = mC, ![vB] = mB]
<1>1. markets \in [VTokens -> Market]
  BY MarketBefore
<1>2. MarketInv(mB) /\ LooksAlike(mB, markets[vB]) /\ mB \in Market
  BY AccruedMarket, AlikeAccrued DEF MarketInv
<1>3. vB # vC => MarketInv(mC) /\ LooksAlike(mC, markets[vC]) /\ mC \in Market
  BY AccruedMarket, AlikeAccrued DEF MarketInv
<1>4. /\ ms = [w \in VTokens |-> IF w = vB THEN mB ELSE IF w = vC THEN mC ELSE markets[w]]
  BY <1>1
<1>5. \A w \in VTokens : MarketInv(markets[w]) /\ LooksAlike(markets[w], markets[w])
  BY MarketBefore DEF LooksAlike
<1> HIDE DEF ms
<1>6. ms \in [VTokens -> Market]
  BY <1>1, <1>2, <1>3, <1>4
<1>7. \A w \in VTokens : MarketInv(ms[w]) /\ LooksAlike(ms[w], markets[w])
  BY <1>2, <1>3, <1>4, <1>5
<1> QED BY <1>6, <1>7 DEF AllAlike, Readable, ms

\* A liquidation pushes nobody out of the limits.
LEMMA LiquidateSafe ==
  ASSUME Inv, Inv', NEW liquidator \in Accounts, NEW borrower \in Accounts,
         NEW vB \in VTokens, NEW vC \in VTokens, NEW amount \in Amounts,
         LiquidateBorrow(liquidator, borrower, vB, vC, amount)
  PROVE  SafeAfter
<1>1. SUFFICES ASSUME steady, NEW a \in Accounts, InLimits(a) PROVE OneShort(a)
  BY DEF SafeAfter
<1>0. PICK mB \in Accrued(vB), mC \in Accrued(vC) : \E c0, t :
        /\ LiquidatedWith(liquidator, borrower, vB, vC, amount, mB, c0, t)
        /\ vB # vC => c0 = mC
        /\ liquidateBorrowAllowed([markets EXCEPT ![vC] = mC, ![vB] = mB],
                                  vB, vC, borrower, amount)
  BY LiquidateFacts
<1>2. PICK c0, t :
        /\ LiquidatedWith(liquidator, borrower, vB, vC, amount, mB, c0, t)
        /\ vB # vC => c0 = mC
        /\ liquidateBorrowAllowed([markets EXCEPT ![vC] = mC, ![vB] = mB],
                                  vB, vC, borrower, amount)
  BY <1>0
<1> DEFINE n == repayBorrowFresh(mB, borrower, amount)
           c == moveTokens(c0, borrower, liquidator, t)
           ms == [markets EXCEPT ![vC] = mC, ![vB] = mB]
<1>3. /\ markets' = [v \in VTokens |-> IF v = vC THEN c ELSE IF v = vB THEN n ELSE markets[v]]
      /\ UNCHANGED <<membershipVars, poolVars, settingVars, environmentVars>>
      /\ vB = vC => c0 = n
      /\ canRepay(mB, borrower, amount)
  BY <1>2 DEF LiquidatedWith
<1>4. /\ n.borrowIndex = mB.borrowIndex /\ n.accountTokens = markets[vB].accountTokens
      /\ c.borrowIndex = c0.borrowIndex /\ SameDebts(c, c0)
      /\ \A b \in Accounts \ {borrower} : c.accountTokens[b] >= markets[vC].accountTokens[b]
      /\ amount \in Nat
  BY <1>2, LiquidatedMarkets
<1>5. \A b \in Accounts \ {borrower} : borrowBalanceStored(n, b) = borrowBalanceStored(mB, b)
  BY <1>3, <1>4, AccruedMarket, RepaidDebt
<1> HIDE DEF n, c
<1>6. /\ mB.borrowIndex = markets[vB].borrowIndex
      /\ vB # vC => mC.borrowIndex = markets[vC].borrowIndex
  <2>1. /\ markets'[vB].borrowIndex = markets[vB].borrowIndex
        /\ markets'[vC].borrowIndex = markets[vC].borrowIndex
    BY <1>1 DEF steady
  <2> QED BY <1>2, <1>3, <1>4, <2>1
<1>7. AllAlike(ms)
  BY <1>6, AlikeTwice
<1>8. /\ LooksAlike(mB, markets[vB])
      /\ vB # vC => LooksAlike(c0, markets[vC])
  BY <1>2, <1>6, AlikeAccrued
<1> HIDE DEF ms
<1>9. a # borrower
  <2>1. SUFFICES ASSUME a = borrower PROVE FALSE
    OBVIOUS
  <2>2. /\ known(a) /\ shortfall(a, USE_COLLATERAL_FACTOR) = 0 /\ ~forced(a, vB)
    BY <1>1 DEF InLimits
  <2>3. /\ positionKnown(ms, accountAssets[a])
        /\ shortfallOf(ms, accountAssets[a], userPoolId[a], a, USE_LIQUIDATION_THRESHOLD, 0) > 0
    BY <1>2, <2>1, <2>2 DEF liquidateBorrowAllowed, ms
  <2>4. shortfall(a, USE_LIQUIDATION_THRESHOLD) > 0
    BY <1>7, <2>3, AlikeShortfall
  <2>5. shortfall(a, USE_LIQUIDATION_THRESHOLD) = 0
    BY <2>2, InvImpliesSafeBorrowers DEF BorrowableIsNotLiquidatable
  <2> QED BY <2>4, <2>5
<1>10. borrowBalanceStored(c, a) = borrowBalanceStored(c0, a)
  BY <1>4, SameBalance DEF SameDebts
<1>11. \A w \in VTokens :
         /\ markets[w].accountTokens[a] \in Nat /\ borrowBalanceStored(markets[w], a) \in Nat
  BY MarketBefore, BorrowBalanceType DEF MarketInv, Market
<1>12. \A w \in VTokens :
         /\ markets[w].accountTokens[a] <= markets'[w].accountTokens[a]
         /\ borrowBalanceStored(markets'[w], a) <= borrowBalanceStored(markets[w], a)
  <2>1. /\ markets[vC].accountTokens[a] <= c.accountTokens[a]
        /\ borrowBalanceStored(c, a) = borrowBalanceStored(markets[vC], a)
    BY <1>3, <1>4, <1>5, <1>8, <1>9, <1>10 DEF LooksAlike
  <2>2. /\ markets[vB].accountTokens[a] = n.accountTokens[a]
        /\ borrowBalanceStored(n, a) = borrowBalanceStored(markets[vB], a)
    BY <1>4, <1>5, <1>8, <1>9 DEF LooksAlike
  <2> QED BY <1>3, <1>11, <2>1, <2>2
<1>13. accountAssets'[a] = accountAssets[a] /\ userPoolId'[a] = userPoolId[a]
  BY <1>3 DEF membershipVars
<1>14. /\ known(a) /\ known(a)' /\ shortfall(a, USE_COLLATERAL_FACTOR) = 0
  BY <1>1 DEF InLimits
<1>15. shortfall(a, USE_COLLATERAL_FACTOR)' <= 1
  BY <1>1, <1>12, <1>13, <1>14, BystanderSafe
<1> QED BY <1>15 DEF OneShort

\* No step pushes anybody out of the limits.
LEMMA StepSafe ==
  ASSUME Inv, Inv', [Next]_vars
  PROVE  SafeAfter
<1>1. CASE MarketStep
  <2>1. PICK a \in Accounts, v \in VTokens :
          \/ AccrueInterest(v)
          \/ \E n \in Amounts :
               \/ Mint(a, v, n) \/ Redeem(a, v, n) \/ RedeemUnderlying(a, v, n)
               \/ Borrow(a, v, n) \/ RepayBorrow(a, v, n)
               \/ \E dst \in Accounts : Transfer(a, dst, v, n)
    BY <1>1 DEF MarketStep
  <2>2. CASE AccrueInterest(v)
    <3>1. 0 \in Nat
      OBVIOUS
    <3> QED BY <2>2, <3>1, HarmlessCalls
  <2>3. ASSUME NEW n \in Amounts, Mint(a, v, n) \/ RepayBorrow(a, v, n) PROVE SafeAfter
    <3>1. n \in Nat
      BY ComptrollerAssumption
    <3> QED BY <2>3, <3>1, HarmlessCalls
  <2>4. ASSUME NEW n \in Amounts, Redeem(a, v, n) \/ RedeemUnderlying(a, v, n)
        PROVE  SafeAfter
    BY <2>4, RedeemsSafe
  <2>5. ASSUME NEW n \in Amounts, Borrow(a, v, n) PROVE SafeAfter
    BY <2>5, BorrowSafe
  <2>6. ASSUME NEW n \in Amounts, NEW dst \in Accounts, Transfer(a, dst, v, n)
        PROVE  SafeAfter
    BY <2>6, TransferSafe
  <2> QED BY <2>1, <2>2, <2>3, <2>4, <2>5, <2>6
<1>2. CASE LiquidationStep
  BY <1>2, LiquidateSafe DEF LiquidationStep
<1>3. CASE MembershipStep
  BY <1>3, EnterMarketSafe, ExitMarketSafe DEF MembershipStep
<1>4. CASE PoolChoiceStep
  BY <1>4, EnterPoolSafe DEF PoolChoiceStep
<1>5. CASE ForcedStep \/ SettingStep \/ RiskStep
  <2>1. UNCHANGED <<markets, membershipVars>>
    BY <1>5 DEF ForcedStep, SettingStep, RiskStep, SetForcedLiquidation,
                SetForcedLiquidationForUser, SetCloseFactor, SetProtocolPaused,
                SetCollateralFactor, SetLiquidationIncentive
  <2> QED BY <2>1, NoCallSafe DEF membershipVars
<1>6. CASE PoolStep
  <2>1. UNCHANGED <<markets, membershipVars>>
    BY <1>6 DEF PoolStep, CreatePool, AddPoolMarket, RemovePoolMarket, SetPoolActive,
                SetAllowCorePoolFallback, SetIsBorrowAllowed
  <2> QED BY <2>1, NoCallSafe DEF membershipVars
<1>7. CASE ListingStep
  <2>1. UNCHANGED <<markets, membershipVars>>
    BY <1>7 DEF ListingStep, SupportMarket, UnlistMarket, SetMarketSupplyCap,
                SetMarketBorrowCap, SetActionsPaused
  <2> QED BY <2>1, NoCallSafe DEF membershipVars
<1>8. CASE EnvironmentStep
  <2>1. UNCHANGED <<markets, membershipVars>>
    BY <1>8 DEF EnvironmentStep, NextBlock, SetPrice
  <2> QED BY <2>1, NoCallSafe DEF membershipVars
<1>9. CASE UNCHANGED vars
  <2>1. UNCHANGED <<markets, membershipVars>>
    BY <1>9 DEF vars
  <2> QED BY <2>1, NoCallSafe DEF membershipVars
<1> QED BY <1>1, <1>2, <1>3, <1>4, <1>5, <1>6, <1>7, <1>8, <1>9 DEF Next

\* Whoever is within its limits is at most a unit beyond them after any step
\* (SafeStaysSafe), its own calls and those of others, while prices, rates and
\* parameters stand still: each hook of PolicyFacet that looks at a position
\* looks at one that is worth no more than the position it leads to, up to one
\* truncation.
THEOREM SafeForGood == Spec => SafeStaysSafe
<1>1. Inv /\ Inv' /\ [Next]_vars =>
        [steady =>
           \A a \in Accounts :
             /\ known(a) /\ known(a)' /\ shortfall(a, USE_COLLATERAL_FACTOR) = 0
             /\ \A v \in VTokens : ~forced(a, v)
             => shortfall(a, USE_COLLATERAL_FACTOR)' <= 1]_vars
  BY StepSafe DEF SafeAfter, InLimits, OneShort
<1> QED BY <1>1, Invariance, PTL DEF SafeStaysSafe, Spec
=============================================================================
