---------------------------- MODULE PrimeProofs ----------------------------
(***************************************************************************)
(* The safety theorems of Prime, for every set of users and markets, every *)
(* score function and every scale: the books agree with the holders, the   *)
(* interest that is owed is covered, every round of score updates can be   *)
(* finished, and no step takes from what anybody has earned.               *)
(***************************************************************************)
EXTENDS Prime, ArithmeticProofs

(* The inductive invariant. *)

scores(m) == [u \in Users |-> m.interests[u].score]

\* What a user is owed, in units of 1 / expScale and before any truncation:
\* the truncated amounts alone do not bound what later truncations give.
entitlement(m, i) ==
  i.accrued * expScale + (m.rewardIndex - i.rewardIndex) * i.score

entitlements(m) == [u \in Users |-> entitlement(m, m.interests[u])]

income(m) == m.balance + m.unreleasedPLPIncome

\* What holds of a market between any two calls.
MarketInv(m) ==
  /\ m \in Market
  /\ m.exists => m.multiplier \in Multipliers
  /\ ~m.exists => /\ m.rewardIndex = 0 /\ m.unreleasedPLPIncome = 0 /\ m.balance = 0
                  /\ m.interests = [u \in Users |-> noInterest]
  /\ ~initialized(m) => m.tokenAmountAccrued = 0
  /\ \A u \in Users : m.interests[u].rewardIndex <= m.rewardIndex
  /\ m.sumOfMembersScore = Total(scores(m))
  /\ Total(entitlements(m)) <= income(m) * expScale
  /\ m.unreleasedPLPIncome <= m.tokenAmountAccrued
  /\ m.tokenAmountAccrued <= m.plpBalance

\* The markets between two calls, seen with the holders.
MarketsInv ==
  /\ markets \in [Markets -> Market]
  /\ \A v \in Markets : MarketInv(markets[v]) /\ markets[v].lastAccrued <= now
  /\ \A v \in Markets, u \in Users \ holders : markets[v].interests[u].score = 0

\* Tokens and rounds.
CountInv ==
  /\ tokens \in [Users -> Token]
  /\ totalIrrevocable \in Nat /\ totalRevocable \in Nat
  /\ irrevocableLimit \in Nat /\ revocableLimit \in Nat
  /\ isScoreUpdated \subseteq Users
  /\ nextScoreUpdateRoundId \in Nat /\ totalScoreUpdatesRequired \in Nat
  /\ pendingScoreUpdates \in Nat
  /\ MembersCounted /\ RoundCanFinish

\* The arguments of the score function stay in its domain.
SettingsInv ==
  /\ stakedAt \in [Users -> Nat] /\ alpha \in Alphas
  /\ paused \in BOOLEAN /\ fundsTransferPaused \in BOOLEAN
  /\ stake \in [Users -> Stakes \cup {0}]
  /\ capital \in [Markets -> [Users -> Capitals \cup {0}]]
  /\ received \in [Markets -> [Users -> Nat]]
  /\ now \in Nat /\ now > 0

Inv == MarketsInv /\ CountInv /\ SettingsInv

-----------------------------------------------------------------------------
(* What the operators on a market do to the invariant of the market. *)

\* The fields of a market that no score and no interest of a user is in.
SameButInterests(n, m) ==
  /\ n.exists = m.exists /\ n.multiplier = m.multiplier
  /\ n.rewardIndex = m.rewardIndex /\ n.unreleasedPLPIncome = m.unreleasedPLPIncome
  /\ n.balance = m.balance /\ n.tokenAmountAccrued = m.tokenAmountAccrued
  /\ n.lastAccrued = m.lastAccrued /\ n.plpBalance = m.plpBalance
  /\ n.tokenDistributionSpeed = m.tokenDistributionSpeed

\* There are finitely many users.
LEMMA UsersFinite == IsFiniteSet(Users)
  BY PrimeAssumption

\* The total of an amount per user when the amount of one user changes.
LEMMA UserTotal ==
  \A f \in [Users -> Nat] : \A u \in Users, n \in Nat :
    Total([f EXCEPT ![u] = n]) = Total(f) - f[u] + n
  BY TotalExcept, UsersFinite

\* The types of the fields.
LEMMA MarketFields ==
  ASSUME NEW m \in Market
  PROVE  /\ m.exists \in BOOLEAN /\ m.multiplier \in Multipliers \cup {0}
         /\ m.rewardIndex \in Nat /\ m.sumOfMembersScore \in Nat
         /\ m.interests \in [Users -> Interest]
         /\ m.unreleasedPLPIncome \in Nat /\ m.balance \in Nat
         /\ m.tokenDistributionSpeed \in Nat /\ m.tokenAmountAccrued \in Nat
         /\ m.lastAccrued \in Nat /\ m.plpBalance \in Nat
  BY DEF Market

\* A product of naturals is a natural, and so is what a user is entitled to.
LEMMA EntitlementType ==
  ASSUME NEW R \in Nat, NEW i \in Interest, i.rewardIndex <= R
  PROVE  /\ i.accrued \in Nat /\ i.rewardIndex \in Nat /\ i.score \in Nat
         /\ i.accrued * expScale \in Nat
         /\ (R - i.rewardIndex) * i.score \in Nat
<1>1. i.accrued \in Nat /\ i.rewardIndex \in Nat /\ i.score \in Nat /\ expScale \in Nat
  BY ExpScaleAssumption DEF Interest
<1>2. R - i.rewardIndex \in Nat
  BY <1>1
<1>3. ASSUME NEW a \in Nat, NEW b \in Nat PROVE a * b \in Nat
  OBVIOUS
<1> QED BY <1>1, <1>2, <1>3

\* What users are entitled to, and its sum, are natural numbers.
LEMMA EntitlementsType ==
  ASSUME NEW m, MarketInv(m)
  PROVE  /\ m \in Market
         /\ entitlements(m) \in [Users -> Nat] /\ scores(m) \in [Users -> Nat]
         /\ Total(entitlements(m)) \in Nat
<1>1. m \in Market
  BY DEF MarketInv
<1>2. m.rewardIndex \in Nat /\ m.interests \in [Users -> Interest]
  BY <1>1, MarketFields
<1>3. ASSUME NEW u \in Users
      PROVE  entitlement(m, m.interests[u]) \in Nat /\ m.interests[u].score \in Nat
  <2>1. m.interests[u] \in Interest /\ m.interests[u].rewardIndex <= m.rewardIndex
    BY <1>2 DEF MarketInv
  <2> DEFINE i == m.interests[u]
  <2> HIDE DEF i
  <2>2. entitlement(m, i) \in Nat /\ i.score \in Nat
    BY <1>2, <2>1, EntitlementType DEF entitlement, i
  <2> QED BY <2>2 DEF i
<1>4. entitlements(m) \in [Users -> Nat] /\ scores(m) \in [Users -> Nat]
  BY <1>3 DEF entitlements, scores
<1> QED BY <1>1, <1>4, UsersFinite, TotalBounds

\* Giving one user another score keeps the invariant, if no more is due to
\* the user than before; exactly the difference is set free.
LEMMA InterestChanged ==
  ASSUME NEW m, MarketInv(m), m.exists, NEW u \in Users,
         NEW i \in Interest, i.rewardIndex <= m.rewardIndex,
         entitlement(m, i) <= entitlement(m, m.interests[u]),
         NEW n \in Market, SameButInterests(n, m),
         n.interests = [m.interests EXCEPT ![u] = i],
         n.sumOfMembersScore = m.sumOfMembersScore - m.interests[u].score + i.score
  PROVE  /\ MarketInv(n)
         /\ Total(entitlements(n)) = Total(entitlements(m))
              - entitlement(m, m.interests[u]) + entitlement(m, i)
<1>1. /\ m \in Market /\ entitlements(m) \in [Users -> Nat] /\ scores(m) \in [Users -> Nat]
      /\ Total(entitlements(m)) \in Nat
  BY EntitlementsType
<1>2. m.interests \in [Users -> Interest] /\ m.rewardIndex \in Nat
  BY <1>1, MarketFields
<1>3. entitlement(m, i) \in Nat /\ i.score \in Nat
  BY <1>2, EntitlementType DEF entitlement
<1>4. entitlement(m, m.interests[u]) \in Nat /\ entitlement(m, m.interests[u]) = entitlements(m)[u]
  BY <1>1 DEF entitlements
<1>5. scores(n) = [scores(m) EXCEPT ![u] = i.score]
  BY <1>2 DEF scores
<1>6. entitlements(n) = [entitlements(m) EXCEPT ![u] = entitlement(m, i)]
  BY <1>2 DEF entitlements, entitlement, SameButInterests
<1>7. Total(scores(n)) = Total(scores(m)) - m.interests[u].score + i.score
  <2>1. scores(m)[u] = m.interests[u].score
    BY DEF scores
  <2> DEFINE s == i.score
  <2>2. s \in Nat
    BY <1>3
  <2> HIDE DEF s
  <2> DEFINE f == scores(m)
  <2>3. f \in [Users -> Nat]
    BY <1>1
  <2> HIDE DEF f
  <2>4. Total([f EXCEPT ![u] = s]) = Total(f) - f[u] + s
    BY <2>2, <2>3, UserTotal, Zenon
  <2> QED BY <1>5, <2>1, <2>4 DEF s, f
<1>8. Total(entitlements(n)) = Total(entitlements(m))
         - entitlement(m, m.interests[u]) + entitlement(m, i)
  <2> DEFINE e == entitlement(m, i)
  <2>1. e \in Nat
    BY <1>3
  <2> HIDE DEF e
  <2> DEFINE f == entitlements(m)
  <2>2. f \in [Users -> Nat]
    BY <1>1
  <2> HIDE DEF f
  <2>3. Total([f EXCEPT ![u] = e]) = Total(f) - f[u] + e
    BY <2>1, <2>2, UserTotal, Zenon
  <2> QED BY <1>4, <1>6, <2>3 DEF e, f
<1>9. Total(entitlements(n)) <= Total(entitlements(m))
  BY <1>1, <1>3, <1>4, <1>8
<1>10. Total(entitlements(n)) <= income(n) * expScale
  <2>1. Total(entitlements(m)) <= income(m) * expScale /\ income(n) = income(m)
    BY DEF MarketInv, income, SameButInterests
  <2>2. income(m) * expScale \in Nat
    BY <1>1, MarketFields, ExpScaleAssumption DEF income
  <2>3. Total(entitlements(n)) \in Int
    BY <1>1, <1>3, <1>4, <1>8
  <2> QED BY <1>1, <1>9, <2>1, <2>2, <2>3
<1>11. \A w \in Users : n.interests[w].rewardIndex <= n.rewardIndex
  BY <1>2 DEF MarketInv, SameButInterests
<1>12. n.sumOfMembersScore = Total(scores(n))
  BY <1>7 DEF MarketInv
<1> QED BY <1>8, <1>10, <1>11, <1>12 DEF MarketInv, SameButInterests, initialized

\* The provider counts more, but never more than it holds.
LEMMA AccrueTokensFacts ==
  ASSUME NEW m, MarketInv(m), initialized(m), now \in Nat, m.lastAccrued <= now
  PROVE  LET a == accrueTokens(m)
         IN  /\ MarketInv(a) /\ a.lastAccrued = now
             /\ a = [m EXCEPT !.tokenAmountAccrued = a.tokenAmountAccrued,
                              !.lastAccrued = now]
             /\ a.tokenAmountAccrued \in Nat
             /\ m.tokenAmountAccrued <= a.tokenAmountAccrued
             /\ m.lastAccrued = now => a = m
<1> DEFINE due == (now - m.lastAccrued) * m.tokenDistributionSpeed
           free == m.plpBalance - m.tokenAmountAccrued
           t == m.tokenAmountAccrued + (IF free <= due THEN free ELSE due)
           a == accrueTokens(m)
<1>1. m \in Market /\ m.tokenAmountAccrued <= m.plpBalance
  BY DEF MarketInv
<1>2. /\ m.tokenAmountAccrued \in Nat /\ m.plpBalance \in Nat /\ m.lastAccrued \in Nat
      /\ m.tokenDistributionSpeed \in Nat
  BY <1>1, MarketFields
<1>3. free \in Nat
  BY <1>1, <1>2
<1>4. due \in Nat /\ (m.lastAccrued = now => due = 0)
  <2>1. now - m.lastAccrued \in Nat
    BY <1>2
  <2> QED BY <1>2, <2>1
<1>5. a = [m EXCEPT !.tokenAmountAccrued = t, !.lastAccrued = now]
  BY <1>1 DEF accrueTokens, Market
<1>6. /\ t \in Nat /\ m.tokenAmountAccrued <= t /\ t <= m.plpBalance
      /\ m.lastAccrued = now => t = m.tokenAmountAccrued
  <2>1. t <= m.plpBalance
    <3>1. free = m.plpBalance - m.tokenAmountAccrued
      OBVIOUS
    <3> HIDE DEF free, due
    <3> QED BY <1>2, <1>3, <1>4, <3>1
  <2>2. t \in Nat /\ m.tokenAmountAccrued <= t /\ (m.lastAccrued = now => t = m.tokenAmountAccrued)
    <3> HIDE DEF free, due
    <3> QED BY <1>2, <1>3, <1>4
  <2> QED BY <2>1, <2>2
<1> HIDE DEF due, free, t, a
<1>7. a \in Market
  BY <1>1, <1>5, <1>6, Zenon DEF Market
<1>8. /\ SameButInterests([a EXCEPT !.tokenAmountAccrued = m.tokenAmountAccrued,
                                    !.lastAccrued = m.lastAccrued], m)
      /\ a.exists = m.exists /\ a.multiplier = m.multiplier
      /\ a.rewardIndex = m.rewardIndex /\ a.interests = m.interests
      /\ a.sumOfMembersScore = m.sumOfMembersScore
      /\ a.unreleasedPLPIncome = m.unreleasedPLPIncome /\ a.balance = m.balance
      /\ a.plpBalance = m.plpBalance
      /\ a.tokenAmountAccrued = t /\ a.lastAccrued = now
  BY <1>1, <1>5 DEF Market, SameButInterests
<1>9. MarketInv(a)
  <2>1. scores(a) = scores(m) /\ entitlements(a) = entitlements(m) /\ income(a) = income(m)
    BY <1>8 DEF scores, entitlements, entitlement, income
  <2>2. a.unreleasedPLPIncome <= a.tokenAmountAccrued
    <3>1. m.unreleasedPLPIncome \in Nat /\ m.unreleasedPLPIncome <= m.tokenAmountAccrued
      BY <1>1, MarketFields DEF MarketInv
    <3> QED BY <3>1, <1>2, <1>6, <1>8
  <2>3. initialized(a)
    BY <1>2, <1>8 DEF initialized
  <2> QED BY <1>6, <1>7, <1>8, <2>1, <2>2, <2>3 DEF MarketInv
<1>10. m.lastAccrued = now => a = m
  BY <1>1, <1>5, <1>6 DEF Market
<1> QED BY <1>5, <1>6, <1>8, <1>9, <1>10 DEF a

\* Counted income is shared: no more than the income is added to what all
\* users are entitled to.  Accruing again in the same instant changes nothing.
LEMMA AccrueInterestFacts ==
  ASSUME NEW m, MarketInv(m), m.exists, initialized(m), now \in Nat, m.lastAccrued <= now
  PROVE  LET a == accrueInterest(m)
         IN  /\ MarketInv(a) /\ a.lastAccrued = now
             /\ a.unreleasedPLPIncome = a.tokenAmountAccrued
             /\ a.exists /\ a.multiplier = m.multiplier /\ a.interests = m.interests
             /\ m.rewardIndex <= a.rewardIndex
<1> DEFINE b == accrueTokens(m)
           more == b.tokenAmountAccrued - b.unreleasedPLPIncome
           delta == IF b.sumOfMembersScore # 0
                      THEN (more * expScale) \div b.sumOfMembersScore ELSE 0
           R == b.rewardIndex + delta
           a == accrueInterest(m)
<1>1. /\ MarketInv(b) /\ b.lastAccrued = now
      /\ b = [m EXCEPT !.tokenAmountAccrued = b.tokenAmountAccrued, !.lastAccrued = now]
  BY AccrueTokensFacts
<1>2. m \in Market /\ b \in Market
  BY <1>1 DEF MarketInv
<1>3. /\ b.exists /\ b.multiplier = m.multiplier /\ b.interests = m.interests
      /\ b.rewardIndex = m.rewardIndex
  <2> HIDE DEF b
  <2> QED BY <1>1, <1>2 DEF Market
<1>4. a = [b EXCEPT !.unreleasedPLPIncome = b.tokenAmountAccrued, !.rewardIndex = R]
  <2>1. a = [b EXCEPT !.unreleasedPLPIncome = b.tokenAmountAccrued,
                      !.rewardIndex = b.rewardIndex + delta]
    <3> HIDE DEF b
    <3> QED BY <1>2 DEF accrueInterest, b, Market
  <2> QED BY <2>1
<1> HIDE DEF b, a
<1>5. /\ b.unreleasedPLPIncome \in Nat /\ b.tokenAmountAccrued \in Nat
      /\ b.sumOfMembersScore \in Nat /\ b.rewardIndex \in Nat /\ b.balance \in Nat
      /\ b.interests \in [Users -> Interest] /\ expScale \in Nat
  BY <1>2, MarketFields, ExpScaleAssumption
<1>6. more \in Nat
  BY <1>1, <1>5 DEF MarketInv
<1> HIDE DEF more
<1>7. more * expScale \in Nat
  BY <1>5, <1>6
<1>8. delta \in Nat /\ delta * b.sumOfMembersScore <= more * expScale
  <2>1. CASE b.sumOfMembersScore # 0
    <3> DEFINE x == more * expScale
               y == b.sumOfMembersScore
    <3>1. x \in Nat /\ y \in Nat \ {0} /\ delta = x \div y
      BY <1>5, <1>7, <2>1
    <3> HIDE DEF x, y, delta
    <3>2. x \div y \in Nat /\ (x \div y) * y <= x
      BY <3>1, DivBounds
    <3> QED BY <3>1, <3>2 DEF x, y
  <2>2. CASE b.sumOfMembersScore = 0
    BY <1>7, <2>2
  <2> QED BY <2>1, <2>2
<1> HIDE DEF delta
<1>9. R \in Nat /\ R = b.rewardIndex + delta /\ b.rewardIndex <= R
  BY <1>5, <1>8
<1> HIDE DEF R
<1>10. a \in Market
  BY <1>2, <1>4, <1>5, <1>9, Zenon DEF Market
<1>11. /\ a.exists /\ a.multiplier = m.multiplier /\ a.interests = b.interests
       /\ a.rewardIndex = R /\ a.sumOfMembersScore = b.sumOfMembersScore
       /\ a.unreleasedPLPIncome = b.tokenAmountAccrued
       /\ a.tokenAmountAccrued = b.tokenAmountAccrued
       /\ a.balance = b.balance /\ a.plpBalance = b.plpBalance /\ a.lastAccrued = now
  BY <1>1, <1>2, <1>3, <1>4 DEF Market
<1>12. Total(entitlements(a)) = Total(entitlements(b)) + delta * b.sumOfMembersScore
  <2> DEFINE E == entitlements(b)
             S == scores(b)
             D == [u \in Users |-> delta * S[u]]
  <2>1. E \in [Users -> Nat] /\ S \in [Users -> Nat]
    BY <1>1, EntitlementsType
  <2>2. D \in [Users -> Nat] /\ Total(D) = delta * Total(S)
    <3> HIDE DEF S
    <3>1. \A f \in [Users -> Nat] : \A k \in Nat :
            Total([u \in Users |-> k * f[u]]) = k * Total(f)
      BY TotalTimes, UsersFinite
    <3> QED BY <1>8, <2>1, <3>1
  <2>3. Total([u \in Users |-> E[u] + D[u]]) = Total(E) + Total(D)
    <3> HIDE DEF E, D
    <3> QED BY <2>1, <2>2, TotalSum, UsersFinite
  <2>4. entitlements(a) = [u \in Users |-> E[u] + D[u]]
    <3>1. ASSUME NEW u \in Users PROVE entitlement(a, a.interests[u]) = E[u] + D[u]
      <4> DEFINE i == b.interests[u]
      <4>1. i \in Interest /\ i.rewardIndex <= b.rewardIndex
        BY <1>1, <1>5 DEF MarketInv
      <4>2. E[u] = i.accrued * expScale + (b.rewardIndex - i.rewardIndex) * i.score
        BY DEF entitlements, entitlement
      <4>3. D[u] = delta * i.score
        BY DEF scores
      <4>4. entitlement(a, i) = i.accrued * expScale + (R - i.rewardIndex) * i.score
        BY <1>11 DEF entitlement
      <4>5. a.interests[u] = i
        BY <1>11
      <4> HIDE DEF i
      <4>6. i.accrued \in Nat /\ i.rewardIndex \in Nat /\ i.score \in Nat
            /\ i.accrued * expScale \in Nat
        BY <1>5, <4>1, EntitlementType
      <4>7. (R - i.rewardIndex) * i.score
              = (b.rewardIndex - i.rewardIndex) * i.score + delta * i.score
        BY <1>5, <1>8, <1>9, <4>6
      <4>8. (b.rewardIndex - i.rewardIndex) * i.score \in Int /\ delta * i.score \in Int
        BY <1>5, <1>8, <4>6
      <4> HIDE DEF E, D
      <4> QED BY <4>2, <4>3, <4>4, <4>5, <4>6, <4>7, <4>8
    <3> HIDE DEF E, D
    <3> QED BY <3>1 DEF entitlements
  <2>5. Total(S) = b.sumOfMembersScore
    BY <1>1 DEF MarketInv
  <2> HIDE DEF E, S, D
  <2> QED BY <2>2, <2>3, <2>4, <2>5 DEF E
<1>13. Total(entitlements(a)) <= income(a) * expScale
  <2>1. Total(entitlements(b)) \in Nat /\ Total(entitlements(b)) <= income(b) * expScale
    BY <1>1, EntitlementsType DEF MarketInv
  <2>2. income(b) \in Nat /\ income(a) = income(b) + more
    BY <1>5, <1>11 DEF income, more
  <2>3. income(a) * expScale = income(b) * expScale + more * expScale
    BY <1>5, <1>6, <2>2
  <2>4. income(b) * expScale \in Nat
    BY <1>5, <2>2
  <2>5. delta * b.sumOfMembersScore \in Nat
    BY <1>5, <1>8
  <2> QED BY <1>7, <1>8, <1>12, <2>1, <2>3, <2>4, <2>5
<1>14. \A u \in Users : a.interests[u].rewardIndex <= a.rewardIndex
  <2> SUFFICES ASSUME NEW u \in Users PROVE a.interests[u].rewardIndex <= a.rewardIndex
    OBVIOUS
  <2>1. b.interests[u].rewardIndex \in Nat /\ b.interests[u].rewardIndex <= b.rewardIndex
    BY <1>1, <1>5 DEF MarketInv, Interest
  <2> QED BY <1>5, <1>9, <1>11, <2>1
<1>15. MarketInv(a)
  <2>1. scores(a) = scores(b)
    BY <1>11 DEF scores
  <2>2. initialized(a) /\ a.multiplier \in Multipliers
    <3>1. m.lastAccrued \in Nat
      BY <1>2, MarketFields
    <3> QED BY <1>11, <3>1 DEF initialized, MarketInv
  <2> QED BY <1>1, <1>5, <1>10, <1>11, <1>13, <1>14, <2>1, <2>2 DEF MarketInv
<1> QED BY <1>3, <1>9, <1>11, <1>15 DEF a

\* A market in which everything has just been counted.
Fresh(m) ==
  /\ m.exists /\ m.lastAccrued = now
  /\ m.unreleasedPLPIncome = m.tokenAmountAccrued

\* Accruing again in the same instant changes nothing.
LEMMA AccrueAgain ==
  ASSUME NEW m, MarketInv(m), initialized(m), now \in Nat, m.lastAccrued = now,
         m.unreleasedPLPIncome = m.tokenAmountAccrued
  PROVE  accrueInterest(m) = m
<1>1. m \in Market
  BY DEF MarketInv
<1>2. accrueTokens(m) = m
  <2>1. m.lastAccrued <= now
    OBVIOUS
  <2> QED BY <2>1, AccrueTokensFacts
<1>3. /\ m.rewardIndex \in Nat /\ m.tokenAmountAccrued \in Nat /\ m.sumOfMembersScore \in Nat
      /\ expScale \in Nat
  BY <1>1, MarketFields, ExpScaleAssumption
<1> DEFINE delta == IF m.sumOfMembersScore # 0
                      THEN ((m.tokenAmountAccrued - m.unreleasedPLPIncome) * expScale)
                             \div m.sumOfMembersScore
                      ELSE 0
<1>4. delta = 0
  <2>1. (m.tokenAmountAccrued - m.unreleasedPLPIncome) * expScale = 0
    BY <1>3
  <2>2. \A n \in Nat \ {0} : 0 \div n = 0
    OBVIOUS
  <2> QED BY <1>3, <2>1, <2>2
<1>5. accrueInterest(m) = [m EXCEPT !.unreleasedPLPIncome = m.tokenAmountAccrued,
                                    !.rewardIndex = m.rewardIndex + delta]
  BY <1>1, <1>2 DEF accrueInterest, Market
<1> HIDE DEF delta
<1>6. m.rewardIndex + delta = m.rewardIndex
  BY <1>3, <1>4
<1> QED BY <1>1, <1>5, <1>6 DEF Market

\* What one user is owed at an index.
owes(R, i) == i.accrued + ((R - i.rewardIndex) * i.score) \div expScale

\* A call for u in a market: the others keep what they have, and nobody is
\* owed more or less than just after the accrual.
Boosted(n, m, u) ==
  /\ MarketInv(n) /\ Fresh(n) /\ n.multiplier = m.multiplier
  /\ \A w \in Users \ {u} : n.interests[w] = m.interests[w]
  /\ \A w \in Users : owed(n, w) = owed(accrueInterest(m), w)

\* What is owed depends on the index and the record of the user.
LEMMA OwedOf ==
  ASSUME NEW m, NEW u
  PROVE  owed(m, u) = owes(m.rewardIndex, m.interests[u])
  BY DEF owed, owes, interestAccrued

\* Replacing the record of one user by one that is owed as much and is entitled to
\* no more keeps the books of the market.
LEMMA BoostedWith ==
  ASSUME NEW m, MarketInv(m), m.exists, initialized(m), now \in Nat, m.lastAccrued <= now,
         NEW a, a = accrueInterest(m),
         NEW u \in Users, NEW i \in Interest, i.rewardIndex <= a.rewardIndex,
         entitlement(a, i) <= entitlement(a, a.interests[u]),
         owes(a.rewardIndex, i) = owed(a, u),
         NEW n \in Market, SameButInterests(n, a),
         n.interests = [a.interests EXCEPT ![u] = i],
         n.sumOfMembersScore = a.sumOfMembersScore - a.interests[u].score + i.score
  PROVE  Boosted(n, m, u)
<1>1. /\ MarketInv(a) /\ a.lastAccrued = now /\ a.exists
      /\ a.unreleasedPLPIncome = a.tokenAmountAccrued
      /\ a.multiplier = m.multiplier /\ a.interests = m.interests
  BY AccrueInterestFacts
<1>2. MarketInv(n)
  BY <1>1, InterestChanged
<1>3. Fresh(n) /\ n.multiplier = m.multiplier
  BY <1>1 DEF Fresh, SameButInterests
<1>4. a.interests \in [Users -> Interest]
  BY <1>1, MarketFields DEF MarketInv
<1>5. \A w \in Users \ {u} : n.interests[w] = m.interests[w]
  BY <1>1, <1>4
<1>6. ASSUME NEW w \in Users PROVE owed(n, w) = owed(a, w)
  <2>1. n.rewardIndex = a.rewardIndex
    BY DEF SameButInterests
  <2>2. CASE w = u
    BY <1>4, <2>1, <2>2, OwedOf
  <2>3. CASE w # u
    BY <1>4, <2>1, <2>3, OwedOf
  <2> QED BY <2>2, <2>3
<1> QED BY <1>2, <1>3, <1>5, <1>6 DEF Boosted

\* What is settled is at most what the user was entitled to, and after it the
\* user is owed exactly what has been settled.
LEMMA SettledFacts ==
  ASSUME NEW a, MarketInv(a), NEW u \in Users
  PROVE  /\ a.interests[u] \in Interest
         /\ a.interests[u].rewardIndex <= a.rewardIndex
         /\ interestAccrued(a, u) \in Nat /\ owed(a, u) \in Nat
         /\ a.rewardIndex \in Nat /\ a.sumOfMembersScore \in Nat
         /\ a.interests[u].score <= a.sumOfMembersScore
         /\ owed(a, u) * expScale <= entitlement(a, a.interests[u])
<1> DEFINE i == a.interests[u]
           R == a.rewardIndex
           q == interestAccrued(a, u)
<1>1. a \in Market
  BY DEF MarketInv
<1>2. R \in Nat /\ i \in Interest /\ i.rewardIndex <= R /\ a.sumOfMembersScore \in Nat
  BY <1>1, MarketFields DEF MarketInv
<1>3. i.score <= a.sumOfMembersScore
  <2>1. scores(a)[u] <= Total(scores(a))
    BY UsersFinite, EntitlementsType, TotalBounds
  <2> QED BY <2>1 DEF scores, MarketInv
<1>4. q = ((R - i.rewardIndex) * i.score) \div expScale
  BY DEF interestAccrued
<1>5. owed(a, u) = i.accrued + q
  BY DEF owed
<1>6. entitlement(a, i) = i.accrued * expScale + (R - i.rewardIndex) * i.score
  BY DEF entitlement
<1> HIDE DEF i, R, q
<1>7. /\ i.accrued \in Nat /\ i.accrued * expScale \in Nat
      /\ (R - i.rewardIndex) * i.score \in Nat
  BY <1>2, EntitlementType
<1>8. expScale \in Nat \ {0}
  BY ExpScaleAssumption
<1>9. q \in Nat /\ q * expScale <= (R - i.rewardIndex) * i.score
  <2> DEFINE x == (R - i.rewardIndex) * i.score
  <2>1. x \in Nat /\ q = x \div expScale
    BY <1>4, <1>7
  <2> HIDE DEF x
  <2>2. q \in Nat /\ q * expScale <= x
    BY <1>8, <2>1, DivBounds
  <2> QED BY <2>2 DEF x
<1>10. owed(a, u) * expScale = i.accrued * expScale + q * expScale
  BY <1>5, <1>7, <1>8, <1>9
<1>11. owed(a, u) * expScale <= entitlement(a, i)
  <2>1. q * expScale \in Nat
    BY <1>8, <1>9
  <2> QED BY <1>6, <1>7, <1>9, <1>10, <2>1
<1>12. owed(a, u) \in Nat
  BY <1>5, <1>7, <1>9
<1> QED BY <1>2, <1>3, <1>9, <1>11, <1>12 DEF i, R, q

\* Who has no interest since the last index, or no score, is owed what has
\* been settled before.
LEMMA OwesSettled ==
  ASSUME NEW R \in Nat, NEW i \in Interest, i.rewardIndex = R \/ i.score = 0
  PROVE  owes(R, i) = i.accrued /\ (R - i.rewardIndex) * i.score = 0
<1>1. i.accrued \in Nat /\ i.rewardIndex \in Nat /\ i.score \in Nat /\ expScale \in Nat \ {0}
  BY ExpScaleAssumption DEF Interest
<1>2. (R - i.rewardIndex) * i.score = 0
  BY <1>1
<1>3. \A n \in Nat \ {0} : 0 \div n = 0
  OBVIOUS
<1> QED BY <1>1, <1>2, <1>3 DEF owes

\* accrueInterest alone.
LEMMA AccruedFacts ==
  ASSUME NEW m, MarketInv(m), m.exists, initialized(m), now \in Nat, m.lastAccrued <= now
  PROVE  \A u \in Users : Boosted(accrueInterest(m), m, u)
<1> DEFINE a == accrueInterest(m)
<1>1. /\ MarketInv(a) /\ a.lastAccrued = now /\ a.exists
      /\ a.unreleasedPLPIncome = a.tokenAmountAccrued
      /\ a.multiplier = m.multiplier /\ a.interests = m.interests
  BY AccrueInterestFacts
<1> HIDE DEF a
<1> QED BY <1>1 DEF Boosted, Fresh, a

\* A user who is settled keeps the score and has the index of the market.
settledAt(a, u) ==
  [accrued |-> owed(a, u), score |-> a.interests[u].score, rewardIndex |-> a.rewardIndex]

\* _executeBoost settles the record of the user at the present index.
LEMMA ExecuteBoostForm ==
  ASSUME NEW m, NEW u \in Users, NEW a, a = accrueInterest(m), MarketInv(a)
  PROVE  executeBoost(m, u)
           = [a EXCEPT !.interests = [a.interests EXCEPT ![u] = settledAt(a, u)]]
<1> DEFINE x == owed(a, u)
           c == [a EXCEPT !.interests[u].accrued = x]
           f == [a.interests EXCEPT ![u] = settledAt(a, u)]
<1>1. a \in Market /\ a.interests \in [Users -> Interest]
  BY MarketFields DEF MarketInv
<1>2. executeBoost(m, u) = [a EXCEPT !.interests[u].accrued = @ + interestAccrued(a, u),
                                     !.interests[u].rewardIndex = a.rewardIndex]
  BY DEF executeBoost
<1>3. a.interests[u].accrued + interestAccrued(a, u) = owed(a, u)
  BY DEF owed
<1>4. executeBoost(m, u) = [c EXCEPT !.interests[u].rewardIndex = a.rewardIndex]
  BY <1>2, <1>3
<1>5. c.interests = [a.interests EXCEPT ![u].accrued = x]
  BY <1>1 DEF Market
<1>6. [c.interests EXCEPT ![u].rewardIndex = a.rewardIndex] = f
  <2> HIDE DEF c, x
  <2> QED BY <1>1, <1>5 DEF Interest, x, settledAt
<1>7. [c EXCEPT !.interests = f] = [a EXCEPT !.interests = f]
  BY <1>1 DEF Market
<1> HIDE DEF c, f
<1> QED BY <1>4, <1>6, <1>7 DEF f

\* The market in which the interest of u and the sum of the scores are new.
withInterest(a, u, i, s) ==
  [a EXCEPT !.interests = [a.interests EXCEPT ![u] = i], !.sumOfMembersScore = s]

\* A settled record with any new score keeps the books of the market.
LEMMA WithInterestFacts ==
  ASSUME NEW m, MarketInv(m), m.exists, initialized(m), now \in Nat, m.lastAccrued <= now,
         NEW a, a = accrueInterest(m),
         NEW u \in Users, NEW i \in Interest, i.rewardIndex <= a.rewardIndex,
         i.rewardIndex = a.rewardIndex \/ i.score = 0,
         i.accrued = owed(a, u),
         NEW s, s = a.sumOfMembersScore - a.interests[u].score + i.score
  PROVE  Boosted(withInterest(a, u, i, s), m, u)
<1> DEFINE j == a.interests[u]
           n == withInterest(a, u, i, s)
<1>1. MarketInv(a) /\ a \in Market
  BY AccrueInterestFacts DEF MarketInv
<1>2. /\ j \in Interest /\ owed(a, u) \in Nat /\ a.rewardIndex \in Nat
      /\ a.sumOfMembersScore \in Nat /\ j.score <= a.sumOfMembersScore
      /\ owed(a, u) * expScale <= entitlement(a, j)
      /\ a.interests \in [Users -> Interest]
  BY <1>1, SettledFacts, MarketFields
<1>3. owes(a.rewardIndex, i) = owed(a, u) /\ entitlement(a, i) = owed(a, u) * expScale
  <2>1. owes(a.rewardIndex, i) = i.accrued /\ (a.rewardIndex - i.rewardIndex) * i.score = 0
    BY <1>2, OwesSettled
  <2>2. i.accrued * expScale \in Nat
    BY <1>2, ExpScaleAssumption
  <2> QED BY <2>1, <2>2 DEF entitlement
<1>4. s \in Nat
  <2>1. j.score \in Nat /\ i.score \in Nat
    BY <1>2 DEF Interest
  <2> HIDE DEF j
  <2>2. s = a.sumOfMembersScore - j.score + i.score
    BY DEF j
  <2> QED BY <1>2, <2>1, <2>2
<1>5. n \in Market
  <2> DEFINE f == [a.interests EXCEPT ![u] = i]
  <2>1. f \in [Users -> Interest]
    BY <1>2
  <2> HIDE DEF f
  <2> QED BY <1>1, <1>4, <2>1, Zenon DEF Market, f, withInterest
<1>6. /\ SameButInterests(n, a) /\ n.interests = [a.interests EXCEPT ![u] = i]
      /\ n.sumOfMembersScore = s
  BY <1>1 DEF SameButInterests, Market, withInterest
<1>7. entitlement(a, i) <= entitlement(a, a.interests[u])
  BY <1>2, <1>3
<1> HIDE DEF n, j
<1>8. Boosted(n, m, u)
  BY <1>3, <1>5, <1>6, <1>7, BoostedWith
<1> QED BY <1>8 DEF n

\* executeBoost followed by _updateScore.
LEMMA BoostAndScoreFacts ==
  ASSUME NEW m, MarketInv(m), m.exists, initialized(m), now \in Nat, m.lastAccrued <= now,
         NEW u \in Users, NEW score \in Nat
  PROVE  Boosted(updateScore(executeBoost(m, u), u, score), m, u)
<1> DEFINE a == accrueInterest(m)
           j == a.interests[u]
           i == [accrued |-> owed(a, u), score |-> score, rewardIndex |-> a.rewardIndex]
           s == a.sumOfMembersScore - j.score + score
           f == [a.interests EXCEPT ![u] = settledAt(a, u)]
           b == [a EXCEPT !.interests = f]
           n == updateScore(executeBoost(m, u), u, score)
<1>1. MarketInv(a) /\ a \in Market
  BY AccrueInterestFacts DEF MarketInv
<1> HIDE DEF a
<1>2. /\ owed(a, u) \in Nat /\ a.rewardIndex \in Nat
      /\ a.interests \in [Users -> Interest]
  BY <1>1, SettledFacts, MarketFields
<1>3. i \in Interest /\ i.rewardIndex = a.rewardIndex /\ i.accrued = owed(a, u)
      /\ i.score = score
  BY <1>2 DEF Interest
<1>4. executeBoost(m, u) = b
  BY <1>1, ExecuteBoostForm DEF a
<1>5. /\ b.sumOfMembersScore = a.sumOfMembersScore /\ b.interests = f
      /\ f[u].score = j.score
  BY <1>1, <1>2 DEF Market, settledAt
<1>6. n = [b EXCEPT !.sumOfMembersScore = s, !.interests = [f EXCEPT ![u].score = score]]
  <2> HIDE DEF b, f
  <2> QED BY <1>4, <1>5 DEF updateScore
<1>7. [f EXCEPT ![u].score = score] = [a.interests EXCEPT ![u] = i]
  BY <1>2 DEF settledAt
<1>8. n = withInterest(a, u, i, s)
  <2> HIDE DEF f, i
  <2> QED BY <1>1, <1>6, <1>7 DEF Market, withInterest
<1>9. s = a.sumOfMembersScore - a.interests[u].score + i.score
  BY <1>3
<1>10. i.rewardIndex <= a.rewardIndex
  BY <1>2, <1>3
<1> HIDE DEF i, s
<1>11. Boosted(withInterest(a, u, i, s), m, u)
  BY <1>3, <1>9, <1>10, WithInterestFacts DEF a
<1> QED BY <1>8, <1>11 DEF n

\* Both fields that _burn clears.
LEMMA ClearedRecord ==
  \A x, y, z :
    [[accrued |-> x, score |-> y, rewardIndex |-> z] EXCEPT !.score = 0, !.rewardIndex = 0]
      = [accrued |-> x, score |-> 0, rewardIndex |-> 0]
<1> TAKE x, y, z
<1>1. [[accrued |-> x, score |-> y, rewardIndex |-> z] EXCEPT !.score = 0]
        = [accrued |-> x, score |-> 0, rewardIndex |-> z]
  BY SMT
<1>2. [[accrued |-> x, score |-> 0, rewardIndex |-> z] EXCEPT !.rewardIndex = 0]
        = [accrued |-> x, score |-> 0, rewardIndex |-> 0]
  BY SMT
<1>3. \A r : [r EXCEPT !.score = 0, !.rewardIndex = 0]
              = [[r EXCEPT !.score = 0] EXCEPT !.rewardIndex = 0]
  BY SMT
<1>4. ASSUME NEW r, r = [accrued |-> x, score |-> y, rewardIndex |-> z]
      PROVE  [r EXCEPT !.score = 0, !.rewardIndex = 0]
               = [accrued |-> x, score |-> 0, rewardIndex |-> 0]
  BY <1>1, <1>2, <1>3, <1>4, Zenon
<1> QED BY <1>4, Zenon

\* _burn in one market.
LEMMA LeaveMarketFacts ==
  ASSUME NEW v \in Markets, NEW m, m = markets[v], MarketInv(m), m.exists, initialized(m),
         now \in Nat, m.lastAccrued <= now, NEW u \in Users
  PROVE  /\ Boosted(leaveMarket(v, u), m, u)
         /\ leaveMarket(v, u).interests[u].score = 0
<1> DEFINE a == accrueInterest(m)
           j == a.interests[u]
           i == [accrued |-> owed(a, u), score |-> 0, rewardIndex |-> 0]
           s == a.sumOfMembersScore - j.score
           f == [a.interests EXCEPT ![u] = settledAt(a, u)]
           b == [a EXCEPT !.interests = f]
           n == leaveMarket(v, u)
<1>1. MarketInv(a) /\ a \in Market
  BY AccrueInterestFacts DEF MarketInv
<1> HIDE DEF a
<1>2. /\ owed(a, u) \in Nat /\ a.rewardIndex \in Nat /\ a.sumOfMembersScore \in Nat
      /\ a.interests \in [Users -> Interest] /\ j \in Interest
  BY <1>1, SettledFacts, MarketFields
<1>3. i \in Interest /\ i.rewardIndex <= a.rewardIndex /\ i.accrued = owed(a, u)
      /\ i.score = 0
  BY <1>2 DEF Interest
<1>4. executeBoost(m, u) = b
  BY <1>1, ExecuteBoostForm DEF a
<1>5. /\ b.sumOfMembersScore = a.sumOfMembersScore /\ b.interests = f
      /\ f[u].score = j.score
  BY <1>1, <1>2 DEF Market, settledAt
<1>6. n = [b EXCEPT !.sumOfMembersScore = s,
                    !.interests = [f EXCEPT ![u].score = 0, ![u].rewardIndex = 0]]
  <2> HIDE DEF b, f
  <2> QED BY <1>4, <1>5, ZenonT(90) DEF leaveMarket
<1>7. [f EXCEPT ![u].score = 0, ![u].rewardIndex = 0] = [a.interests EXCEPT ![u] = i]
  <2> DEFINE cleared == [f[u] EXCEPT !.score = 0, !.rewardIndex = 0]
  <2>1. f = [w \in Users |-> f[w]] /\ f[u] = settledAt(a, u)
    BY <1>2
  <2>2. cleared = i
    <3> DEFINE r == settledAt(a, u)
    <3>1. [r EXCEPT !.score = 0, !.rewardIndex = 0] = i
      BY ClearedRecord, Zenon DEF settledAt
    <3> HIDE DEF r, f, i
    <3> QED BY <2>1, <3>1 DEF r
  <2>3. [f EXCEPT ![u] = i] = [a.interests EXCEPT ![u] = i]
    <3> DEFINE g == a.interests
               r == settledAt(a, u)
    <3>1. g \in [Users -> Interest]
      BY <1>2
    <3> HIDE DEF g, r, i
    <3>2. [[g EXCEPT ![u] = r] EXCEPT ![u] = i] = [g EXCEPT ![u] = i]
      BY <3>1
    <3> QED BY <3>2 DEF g, r
  <2> HIDE DEF f, i
  <2>4. [f EXCEPT ![u].score = 0, ![u].rewardIndex = 0] = [f EXCEPT ![u] = cleared]
    BY <2>1
  <2> QED BY <2>2, <2>3, <2>4
<1>8. n = withInterest(a, u, i, s)
  <2> HIDE DEF f, i
  <2> QED BY <1>1, <1>6, <1>7 DEF Market, withInterest
<1>9. s = a.sumOfMembersScore - a.interests[u].score + i.score
  <2>1. j.score \in Nat
    BY <1>2 DEF Interest
  <2> HIDE DEF i
  <2> QED BY <1>2, <1>3, <2>1
<1>10. n.interests[u] = i
  BY <1>1, <1>2, <1>8 DEF Market, withInterest
<1> HIDE DEF i, s
<1>11. Boosted(withInterest(a, u, i, s), m, u)
  BY <1>3, <1>9, WithInterestFacts DEF a
<1> QED BY <1>3, <1>8, <1>10, <1>11 DEF n

\* _initializeMarkets in one market, for a user without a score in it.
LEMMA InitializeMarketFacts ==
  ASSUME NEW v \in Markets, NEW m, m = markets[v], MarketInv(m), m.exists, initialized(m),
         now \in Nat, m.lastAccrued <= now, NEW u \in Users, m.interests[u].score = 0,
         calculateScore(m, stake[u], capital[v][u]) \in Nat
  PROVE  Boosted(initializeMarket(v, u), m, u)
<1> DEFINE a == accrueInterest(m)
           j == a.interests[u]
           score == calculateScore(a, stake[u], capital[v][u])
           i == [accrued |-> j.accrued, score |-> score, rewardIndex |-> a.rewardIndex]
           s == a.sumOfMembersScore + score
           n == initializeMarket(v, u)
<1>1. MarketInv(a) /\ a \in Market /\ a.interests = m.interests /\ a.multiplier = m.multiplier
  BY AccrueInterestFacts DEF MarketInv
<1> HIDE DEF a
<1>2. /\ owed(a, u) \in Nat /\ a.rewardIndex \in Nat /\ a.sumOfMembersScore \in Nat
      /\ a.interests \in [Users -> Interest] /\ j \in Interest
  BY <1>1, SettledFacts, MarketFields
<1>3. score \in Nat
  BY <1>1 DEF calculateScore
<1>4. j.score = 0 /\ j.accrued = owed(a, u)
  <2>1. j.score = 0
    BY <1>1
  <2>2. owes(a.rewardIndex, j) = j.accrued
    <3> HIDE DEF j
    <3> QED BY <1>2, <2>1, OwesSettled
  <2> QED BY <2>1, <2>2, OwedOf
<1> HIDE DEF score
<1>5. i \in Interest /\ i.rewardIndex = a.rewardIndex /\ i.accrued = owed(a, u)
      /\ i.score = score
  BY <1>2, <1>3, <1>4 DEF Interest
<1>6. n = [a EXCEPT !.interests[u].rewardIndex = a.rewardIndex,
                    !.interests[u].score = score,
                    !.sumOfMembersScore = @ + score]
  BY DEF initializeMarket, a, score
<1>7. n = withInterest(a, u, i, s)
  <2> DEFINE c == [a EXCEPT !.interests[u].rewardIndex = a.rewardIndex]
             d == [c EXCEPT !.interests[u].score = score]
             f == [a.interests EXCEPT ![u] = i]
  <2>1. c.interests = [a.interests EXCEPT ![u].rewardIndex = a.rewardIndex]
        /\ c = [a EXCEPT !.interests = c.interests]
    BY <1>1 DEF Market
  <2>2. [c.interests EXCEPT ![u].score = score] = f
    <3> HIDE DEF c
    <3> QED BY <1>2, <2>1 DEF Interest
  <2>3. d = [a EXCEPT !.interests = f]
    <3> HIDE DEF c, f
    <3> QED BY <1>1, <2>1, <2>2 DEF Market
  <2>4. d.sumOfMembersScore = a.sumOfMembersScore
    <3> HIDE DEF d, f
    <3> QED BY <1>1, <2>3 DEF Market
  <2>5. n = [d EXCEPT !.sumOfMembersScore = @ + score]
    BY <1>6
  <2> HIDE DEF d, i
  <2> QED BY <2>3, <2>4, <2>5 DEF withInterest
<1>8. s = a.sumOfMembersScore - a.interests[u].score + i.score
  <2> HIDE DEF i
  <2> QED BY <1>2, <1>3, <1>4, <1>5
<1>9. i.rewardIndex <= a.rewardIndex
  BY <1>2, <1>5
<1> HIDE DEF i, s
<1>10. Boosted(withInterest(a, u, i, s), m, u)
  BY <1>5, <1>8, <1>9, WithInterestFacts DEF a
<1> QED BY <1>7, <1>10 DEF n

-----------------------------------------------------------------------------
(* What the other operations do to a market. *)

\* The provider counts nothing twice in the same instant.
LEMMA AccrueTokensStill ==
  ASSUME NEW m \in Market, m.lastAccrued = now, m.tokenAmountAccrued <= m.plpBalance
  PROVE  accrueTokens(m) = m
<1> DEFINE due == (now - m.lastAccrued) * m.tokenDistributionSpeed
           free == m.plpBalance - m.tokenAmountAccrued
           t == m.tokenAmountAccrued + (IF free <= due THEN free ELSE due)
<1>1. /\ m.tokenAmountAccrued \in Nat /\ m.plpBalance \in Nat /\ m.lastAccrued \in Nat
      /\ m.tokenDistributionSpeed \in Nat
  BY MarketFields
<1>2. accrueTokens(m) = [m EXCEPT !.tokenAmountAccrued = t, !.lastAccrued = now]
  BY DEF accrueTokens, Market
<1>3. t = m.tokenAmountAccrued
  <2>1. due = 0
    BY <1>1
  <2>2. free \in Nat
    BY <1>1
  <2> HIDE DEF free, due
  <2> QED BY <1>1, <2>1, <2>2
<1> HIDE DEF t
<1> QED BY <1>2, <1>3 DEF Market

\* A payment out of what u is owed, whether Prime pays from its own balance
\* or from what it has fetched before.
Paid(n, a, u) ==
  /\ n.exists = a.exists /\ n.multiplier = a.multiplier
  /\ n.rewardIndex = a.rewardIndex /\ n.lastAccrued = a.lastAccrued
  /\ n.sumOfMembersScore = a.sumOfMembersScore
  /\ n.interests = [a.interests EXCEPT ![u] = [@ EXCEPT !.rewardIndex = a.rewardIndex,
                                                        !.accrued = 0]]
  /\ n.unreleasedPLPIncome = n.tokenAmountAccrued
  /\ n.tokenAmountAccrued <= n.plpBalance
  /\ n.balance + n.unreleasedPLPIncome + owed(a, u) = income(a)

\* A payment takes what the user is owed and touches nobody else.
LEMMA PaidFacts ==
  ASSUME NEW a, MarketInv(a), Fresh(a), initialized(a), now \in Nat, NEW u \in Users,
         NEW n \in Market, Paid(n, a, u)
  PROVE  /\ MarketInv(n) /\ Fresh(n)
         /\ \A w \in Users : n.interests[w].score = a.interests[w].score
         /\ owed(n, u) = 0
         /\ \A w \in Users \ {u} : owed(n, w) = owed(a, w)
<1> DEFINE j == a.interests[u]
           i == [j EXCEPT !.rewardIndex = a.rewardIndex, !.accrued = 0]
           b == [a EXCEPT !.interests = [a.interests EXCEPT ![u] = i]]
<1>1. a \in Market
  BY DEF MarketInv
<1>2. /\ j \in Interest /\ owed(a, u) \in Nat /\ a.rewardIndex \in Nat
      /\ a.sumOfMembersScore \in Nat
      /\ owed(a, u) * expScale <= entitlement(a, j)
      /\ a.interests \in [Users -> Interest] /\ j.rewardIndex <= a.rewardIndex
  BY <1>1, SettledFacts, MarketFields
<1>3. i \in Interest /\ i.rewardIndex = a.rewardIndex /\ i.accrued = 0 /\ i.score = j.score
  BY <1>2 DEF Interest
<1>4. owes(a.rewardIndex, i) = 0 /\ entitlement(a, i) = 0
  <2>1. owes(a.rewardIndex, i) = i.accrued /\ (a.rewardIndex - i.rewardIndex) * i.score = 0
    <3> HIDE DEF i
    <3> QED BY <1>2, <1>3, OwesSettled
  <2> HIDE DEF i
  <2> QED BY <1>3, <2>1, ExpScaleAssumption DEF entitlement
<1>5. entitlement(a, j) \in Nat
  <2> HIDE DEF j
  <2> QED BY <1>2, EntitlementType DEF entitlement
<1>6. b \in Market
  <2> DEFINE f == [a.interests EXCEPT ![u] = i]
  <2>1. f \in [Users -> Interest]
    BY <1>2, <1>3
  <2> HIDE DEF f
  <2> QED BY <1>1, <2>1, Zenon DEF Market, f
<1>7. /\ SameButInterests(b, a) /\ b.interests = [a.interests EXCEPT ![u] = i]
      /\ b.sumOfMembersScore = a.sumOfMembersScore
  BY <1>1 DEF SameButInterests, Market
<1> HIDE DEF b
<1>8. a.sumOfMembersScore = a.sumOfMembersScore - j.score + i.score
  <2>1. j.score \in Nat
    BY <1>2 DEF Interest
  <2> HIDE DEF i, j
  <2> QED BY <1>2, <1>3, <2>1
<1>9. MarketInv(b) /\ Total(entitlements(b)) = Total(entitlements(a)) - entitlement(a, j)
  <2> HIDE DEF i
  <2>1. i.rewardIndex <= a.rewardIndex /\ entitlement(a, i) <= entitlement(a, a.interests[u])
    BY <1>2, <1>3, <1>4, <1>5
  <2>2. a.exists /\ b.sumOfMembersScore = a.sumOfMembersScore - a.interests[u].score + i.score
    BY <1>7, <1>8 DEF Fresh
  <2>3. /\ MarketInv(b)
        /\ Total(entitlements(b)) = Total(entitlements(a))
             - entitlement(a, a.interests[u]) + entitlement(a, i)
    BY <1>3, <1>6, <1>7, <2>1, <2>2, InterestChanged
  <2>4. Total(entitlements(a)) \in Nat
    BY EntitlementsType
  <2> QED BY <1>4, <1>5, <2>3, <2>4
<1>10. /\ n.interests = b.interests /\ n.rewardIndex = b.rewardIndex
       /\ n.sumOfMembersScore = b.sumOfMembersScore
       /\ scores(n) = scores(b) /\ entitlements(n) = entitlements(b)
  BY <1>7 DEF Paid, SameButInterests, scores, entitlements, entitlement
<1>11. Total(entitlements(n)) <= income(n) * expScale
  <2>1. Total(entitlements(a)) \in Nat /\ Total(entitlements(a)) <= income(a) * expScale
    BY EntitlementsType DEF MarketInv
  <2>2. income(n) \in Nat /\ income(a) = income(n) + owed(a, u)
    BY <1>2, MarketFields DEF Paid, income
  <2>3. income(a) * expScale = income(n) * expScale + owed(a, u) * expScale
    BY <1>2, <2>2, ExpScaleAssumption
  <2>4. income(n) * expScale \in Nat /\ owed(a, u) * expScale \in Nat
    BY <1>2, <2>2, ExpScaleAssumption
  <2> QED BY <1>2, <1>5, <1>9, <1>10, <2>1, <2>3, <2>4
<1>12. MarketInv(n)
  <2>1. n.unreleasedPLPIncome <= n.tokenAmountAccrued
    BY MarketFields DEF Paid
  <2>2. n.exists /\ initialized(n) /\ n.multiplier \in Multipliers
    BY DEF Paid, Fresh, initialized, MarketInv
  <2>3. n.tokenAmountAccrued <= n.plpBalance
    BY DEF Paid
  <2> QED BY <1>9, <1>10, <1>11, <2>1, <2>2, <2>3 DEF MarketInv
<1>13. Fresh(n)
  BY DEF Fresh, Paid
<1>14. \A w \in Users : n.interests[w].score = a.interests[w].score
  BY <1>2, <1>3, <1>7, <1>10
<1>15. owed(n, u) = 0
  <2>1. n.interests[u] = i /\ n.rewardIndex = a.rewardIndex
    BY <1>2, <1>7, <1>10 DEF Paid
  <2> QED BY <1>4, <2>1, OwedOf
<1>16. ASSUME NEW w \in Users \ {u} PROVE owed(n, w) = owed(a, w)
  <2>1. n.interests[w] = a.interests[w] /\ n.rewardIndex = a.rewardIndex
    BY <1>2, <1>7, <1>10 DEF Paid
  <2> QED BY <2>1, OwedOf
<1> QED BY <1>12, <1>13, <1>14, <1>15, <1>16

\* What a claim of interest does, with the market it leaves named.
LEMMA ClaimFacts ==
  ASSUME NEW v \in Markets, NEW u \in Users, ClaimInterest(v, u),
         NEW m, m = markets[v], MarketInv(m), now \in Nat, m.lastAccrued <= now,
         markets \in [Markets -> Market]
  PROVE  LET a == accrueInterest(m)
         IN  \E n \in Market :
               /\ markets' = [markets EXCEPT ![v] = n]
               /\ received' = [received EXCEPT ![v][u] = @ + owed(a, u)]
               /\ MarketInv(a) /\ Fresh(a) /\ initialized(a) /\ Paid(n, a, u)
               /\ a.interests = m.interests
<1> DEFINE a == accrueInterest(m)
           amount == owed(a, u)
           j == a.interests[u]
           i == [j EXCEPT !.rewardIndex = a.rewardIndex, !.accrued = 0]
           st == settled(a, u)
           fetched == releaseFunds([st EXCEPT !.unreleasedPLPIncome = 0])
           paid == IF amount > a.balance THEN fetched ELSE st
           n == [paid EXCEPT !.balance = @ - amount]
<1>1. m.exists /\ initialized(m)
  BY DEF ClaimInterest
<1>2. /\ MarketInv(a) /\ a.lastAccrued = now /\ a.exists /\ a \in Market
      /\ a.unreleasedPLPIncome = a.tokenAmountAccrued /\ a.interests = m.interests
  BY <1>1, AccrueInterestFacts DEF MarketInv
<1>3. m.lastAccrued \in Nat
  BY MarketFields DEF MarketInv
<1>4. Fresh(a) /\ initialized(a)
  BY <1>1, <1>2, <1>3 DEF Fresh, initialized
<1> HIDE DEF a
<1>5. /\ j \in Interest /\ amount \in Nat /\ a.rewardIndex \in Nat
      /\ a.interests \in [Users -> Interest] /\ a.balance \in Nat
      /\ a.unreleasedPLPIncome \in Nat /\ a.tokenAmountAccrued \in Nat /\ a.plpBalance \in Nat
      /\ a.tokenAmountAccrued <= a.plpBalance
  BY <1>2, SettledFacts, MarketFields DEF MarketInv
<1>6. interestAccrued(a, u) + j.accrued = amount
  <2>1. j.accrued \in Nat /\ interestAccrued(a, u) \in Nat
    BY <1>2, <1>5, SettledFacts DEF Interest
  <2> QED BY <2>1 DEF owed
<1>7. /\ markets' = [markets EXCEPT ![v] = n] /\ amount <= paid.balance
      /\ received' = [received EXCEPT ![v][u] = @ + amount]
  <2> HIDE DEF amount
  <2> QED BY <1>6 DEF ClaimInterest, a
<1> DEFINE f == [a.interests EXCEPT ![u] = i]
<1>8. st = [a EXCEPT !.interests = f]
  <2> DEFINE c == [a EXCEPT !.interests[u].rewardIndex = a.rewardIndex]
  <2>1. c.interests = [a.interests EXCEPT ![u].rewardIndex = a.rewardIndex]
        /\ c = [a EXCEPT !.interests = c.interests]
    BY <1>2 DEF Market
  <2>2. st = [c EXCEPT !.interests[u].accrued = 0]
    BY DEF settled
  <2>3. [c.interests EXCEPT ![u].accrued = 0] = f
    <3> HIDE DEF c
    <3> QED BY <1>5, <2>1 DEF Interest
  <2> HIDE DEF c, f, st
  <2> QED BY <1>2, <2>1, <2>2, <2>3 DEF Market
<1>9. f \in [Users -> Interest]
  BY <1>5 DEF Interest
<1> HIDE DEF f, st, amount
<1>10. st \in Market
  BY <1>2, <1>8, <1>9, Zenon DEF Market
<1>11. /\ SameButInterests(st, a) /\ st.interests = f
       /\ st.sumOfMembersScore = a.sumOfMembersScore
  BY <1>2, <1>8 DEF SameButInterests, Market
<1>12. n \in Market /\ Paid(n, a, u)
  <2>1. CASE ~(amount > a.balance)
    <3> DEFINE rest == st.balance - amount
    <3>1. n = [st EXCEPT !.balance = rest]
      BY <2>1
    <3>2. rest \in Nat /\ rest + amount = a.balance
      BY <1>5, <1>11, <2>1 DEF SameButInterests
    <3> HIDE DEF rest, n
    <3>3. n \in Market
      BY <1>10, <3>1, <3>2, Zenon DEF Market
    <3>4. SameButInterests([n EXCEPT !.balance = a.balance], a) /\ n.interests = f
          /\ n.sumOfMembersScore = a.sumOfMembersScore /\ n.balance = rest
      BY <1>10, <1>11, <3>1 DEF Market, SameButInterests
    <3>5. /\ n.exists = a.exists /\ n.multiplier = a.multiplier
          /\ n.rewardIndex = a.rewardIndex /\ n.lastAccrued = a.lastAccrued
          /\ n.unreleasedPLPIncome = a.unreleasedPLPIncome
          /\ n.tokenAmountAccrued = a.tokenAmountAccrued /\ n.plpBalance = a.plpBalance
      BY <1>10, <1>11, <3>1 DEF Market, SameButInterests
    <3>6. n.balance + n.unreleasedPLPIncome + amount = income(a)
      BY <1>5, <3>2, <3>4, <3>5 DEF income
    <3> QED BY <1>2, <1>5, <3>3, <3>4, <3>5, <3>6 DEF Paid, f, amount
  <2>2. CASE amount > a.balance
    <3> DEFINE x == [st EXCEPT !.unreleasedPLPIncome = 0]
               all == a.balance + a.tokenAmountAccrued
               rest == all - amount
               left == a.plpBalance - a.tokenAmountAccrued
    <3>1. x \in Market
      BY <1>10, Zenon DEF Market
    <3>2. /\ x.exists = a.exists /\ x.multiplier = a.multiplier
          /\ x.rewardIndex = a.rewardIndex /\ x.lastAccrued = now
          /\ x.sumOfMembersScore = a.sumOfMembersScore /\ x.interests = f
          /\ x.unreleasedPLPIncome = 0 /\ x.balance = a.balance
          /\ x.tokenAmountAccrued = a.tokenAmountAccrued /\ x.plpBalance = a.plpBalance
      BY <1>2, <1>10, <1>11 DEF Market, SameButInterests
    <3> HIDE DEF x
    <3>3. accrueTokens(x) = x
      BY <1>5, <3>1, <3>2, AccrueTokensStill
    <3>4. releaseFunds(x) = [x EXCEPT !.balance = all, !.plpBalance = left,
                                      !.tokenAmountAccrued = 0]
      BY <3>1, <3>2, <3>3 DEF releaseFunds, Market
    <3>5. paid = releaseFunds(x)
      BY <2>2 DEF x
    <3>6. all \in Nat /\ left \in Nat
      BY <1>5
    <3> HIDE DEF all, left, paid
    <3>7. paid.balance = all
      BY <3>1, <3>4, <3>5 DEF Market
    <3>8. n = [x EXCEPT !.balance = rest, !.plpBalance = left, !.tokenAmountAccrued = 0]
      BY <3>1, <3>4, <3>5, <3>7 DEF Market
    <3>9. rest \in Nat /\ rest + amount = all
      BY <1>5, <1>7, <3>6, <3>7
    <3> HIDE DEF rest, n
    <3>10. n \in Market
      BY <3>1, <3>6, <3>8, <3>9, Zenon DEF Market
    <3>11. /\ n.exists = a.exists /\ n.multiplier = a.multiplier
           /\ n.rewardIndex = a.rewardIndex /\ n.lastAccrued = now
           /\ n.sumOfMembersScore = a.sumOfMembersScore /\ n.interests = f
           /\ n.unreleasedPLPIncome = 0 /\ n.tokenAmountAccrued = 0
           /\ n.plpBalance = left /\ n.balance = rest
      BY <3>1, <3>2, <3>8 DEF Market
    <3>12. n.balance + n.unreleasedPLPIncome + amount = income(a)
      BY <1>2, <1>5, <3>9, <3>11 DEF income, all
    <3> QED BY <1>2, <3>6, <3>10, <3>11, <3>12 DEF Paid, f, amount
  <2> QED BY <2>1, <2>2
<1> HIDE DEF n
<1> QED BY <1>2, <1>4, <1>7, <1>12 DEF a, amount

\* What a user would be owed after an accrual at the present instant.
owedNow(m, u) == owed(IF initialized(m) THEN accrueInterest(m) ELSE m, u)

\* The market is changed, and what everybody has earned in it is not.
Kept(n, m) ==
  /\ MarketInv(n) /\ n.lastAccrued <= now
  /\ \A u \in Users : owedNow(n, u) = owedNow(m, u)

\* Settling a record changes nothing that anybody has earned.
LEMMA BoostedKept ==
  ASSUME NEW m, initialized(m), NEW u, NEW n, Boosted(n, m, u), now \in Nat, now > 0
  PROVE  Kept(n, m)
<1>1. MarketInv(n) /\ n.lastAccrued = now /\ n.unreleasedPLPIncome = n.tokenAmountAccrued
  BY DEF Boosted, Fresh
<1>2. initialized(n)
  BY <1>1 DEF initialized
<1>3. accrueInterest(n) = n
  BY <1>1, <1>2, AccrueAgain
<1> QED BY <1>1, <1>2, <1>3 DEF Kept, owedNow, Boosted

\* The share of a unit of score in the income that is not counted yet.
share(b) ==
  IF b.sumOfMembersScore # 0
    THEN ((b.tokenAmountAccrued - b.unreleasedPLPIncome) * expScale) \div b.sumOfMembersScore
    ELSE 0

\* What is owed after the accrual, in terms of the income it distributes.
LEMMA OwedAccrued ==
  ASSUME NEW m, accrueTokens(m) \in Market, NEW u
  PROVE  owed(accrueInterest(m), u) =
           owes(accrueTokens(m).rewardIndex + share(accrueTokens(m)),
                accrueTokens(m).interests[u])
<1> DEFINE b == accrueTokens(m)
           a == accrueInterest(m)
<1>1. a = [b EXCEPT !.unreleasedPLPIncome = b.tokenAmountAccrued,
                    !.rewardIndex = b.rewardIndex + share(b)]
  BY DEF accrueInterest, share, Market
<1> HIDE DEF a, b
<1>2. a.rewardIndex = b.rewardIndex + share(b) /\ a.interests = b.interests
  BY <1>1 DEF Market, b
<1>3. owed(a, u) = owes(a.rewardIndex, a.interests[u])
  BY OwedOf
<1> QED BY <1>2, <1>3 DEF a, b

\* Releasing income of the provider is no gain or loss within one moment.
LEMMA AccrueTokensKept ==
  ASSUME NEW m, MarketInv(m), initialized(m), now \in Nat, m.lastAccrued <= now
  PROVE  Kept(accrueTokens(m), m)
<1> DEFINE b == accrueTokens(m)
<1>1. /\ MarketInv(b) /\ b.lastAccrued = now /\ m.lastAccrued \in Nat
  BY AccrueTokensFacts, MarketFields DEF MarketInv
<1>2. initialized(b)
  BY <1>1 DEF initialized
<1>3. accrueTokens(b) = b
  BY <1>1, <1>2, AccrueTokensStill DEF MarketInv
<1>4. accrueInterest(b) = accrueInterest(m)
  BY <1>3 DEF accrueInterest
<1> QED BY <1>1, <1>2, <1>4 DEF Kept, owedNow

\* Neither is a new speed, for it accrues first.
LEMMA SpeedKept ==
  ASSUME NEW m, MarketInv(m), initialized(m), now \in Nat, m.lastAccrued <= now,
         NEW speed \in Nat
  PROVE  Kept([accrueTokens(m) EXCEPT !.tokenDistributionSpeed = speed], m)
<1> DEFINE b == accrueTokens(m)
           n == [b EXCEPT !.tokenDistributionSpeed = speed]
<1>1. MarketInv(b) /\ b.lastAccrued = now /\ m.lastAccrued \in Nat /\ b \in Market
  BY AccrueTokensFacts, MarketFields DEF MarketInv
<1> HIDE DEF b
<1>2. n \in Market
  BY <1>1, Zenon DEF Market
<1>3. /\ n.exists = b.exists /\ n.multiplier = b.multiplier /\ n.rewardIndex = b.rewardIndex
      /\ n.sumOfMembersScore = b.sumOfMembersScore /\ n.interests = b.interests
      /\ n.unreleasedPLPIncome = b.unreleasedPLPIncome /\ n.balance = b.balance
      /\ n.tokenAmountAccrued = b.tokenAmountAccrued /\ n.lastAccrued = now
      /\ n.plpBalance = b.plpBalance
  BY <1>1 DEF Market
<1> HIDE DEF n
<1>4. initialized(b) /\ initialized(n)
  BY <1>1, <1>3 DEF initialized
<1>5. MarketInv(n)
  <2>1. scores(n) = scores(b) /\ entitlements(n) = entitlements(b) /\ income(n) = income(b)
    BY <1>3 DEF scores, entitlements, entitlement, income
  <2> QED BY <1>1, <1>2, <1>3, <1>4, <2>1 DEF MarketInv
<1>6. accrueTokens(n) = n
  BY <1>1, <1>2, <1>3, AccrueTokensStill DEF MarketInv
<1>7. share(n) = share(b)
  BY <1>3 DEF share
<1>8. ASSUME NEW u \in Users PROVE owed(accrueInterest(n), u) = owed(accrueInterest(m), u)
  <2>1. owed(accrueInterest(n), u) = owes(n.rewardIndex + share(n), n.interests[u])
    BY <1>2, <1>6, OwedAccrued
  <2>2. owed(accrueInterest(m), u) = owes(b.rewardIndex + share(b), b.interests[u])
    BY <1>1, OwedAccrued DEF b
  <2> QED BY <1>3, <1>7, <2>1, <2>2
<1>9. Kept(n, m)
  BY <1>1, <1>3, <1>4, <1>5, <1>8 DEF Kept, owedNow
<1> QED BY <1>9 DEF n, b

\* Neither is a new multiplier.
LEMMA MultiplierKept ==
  ASSUME NEW m, MarketInv(m), m.exists, initialized(m), now \in Nat, m.lastAccrued <= now,
         NEW k \in Multipliers
  PROVE  /\ Kept([accrueInterest(m) EXCEPT !.multiplier = k], m)
         /\ [accrueInterest(m) EXCEPT !.multiplier = k].interests = m.interests
<1> DEFINE b == accrueInterest(m)
           n == [b EXCEPT !.multiplier = k]
<1>1. /\ MarketInv(b) /\ b.lastAccrued = now /\ m.lastAccrued \in Nat /\ b \in Market
      /\ b.unreleasedPLPIncome = b.tokenAmountAccrued /\ b.exists
      /\ b.interests = m.interests
  BY AccrueInterestFacts, MarketFields DEF MarketInv
<1> HIDE DEF b
<1>2. n \in Market
  BY <1>1, Zenon DEF Market
<1>3. /\ n.exists = b.exists /\ n.multiplier = k /\ n.rewardIndex = b.rewardIndex
      /\ n.sumOfMembersScore = b.sumOfMembersScore /\ n.interests = b.interests
      /\ n.unreleasedPLPIncome = b.unreleasedPLPIncome /\ n.balance = b.balance
      /\ n.tokenAmountAccrued = b.tokenAmountAccrued /\ n.lastAccrued = now
      /\ n.plpBalance = b.plpBalance
  BY <1>1 DEF Market
<1> HIDE DEF n
<1>4. initialized(b) /\ initialized(n)
  BY <1>1, <1>3 DEF initialized
<1>5. MarketInv(n)
  <2>1. scores(n) = scores(b) /\ entitlements(n) = entitlements(b) /\ income(n) = income(b)
    BY <1>3 DEF scores, entitlements, entitlement, income
  <2> QED BY <1>1, <1>2, <1>3, <1>4, <2>1 DEF MarketInv
<1>6. accrueInterest(n) = n
  BY <1>1, <1>3, <1>4, <1>5, AccrueAgain
<1>7. ASSUME NEW u \in Users PROVE owed(n, u) = owed(b, u)
  BY <1>3, OwedOf
<1>8. Kept(n, m)
  BY <1>3, <1>4, <1>5, <1>6, <1>7 DEF Kept, owedNow, b
<1> QED BY <1>1, <1>3, <1>8 DEF n, b

\* A token is initialized before it has earned anything.
LEMMA InitializeTokenKept ==
  ASSUME NEW m, MarketInv(m), ~initialized(m), now \in Nat, now > 0
  PROVE  Kept([m EXCEPT !.lastAccrued = now], m)
<1> DEFINE n == [m EXCEPT !.lastAccrued = now]
<1>1. m \in Market
  BY DEF MarketInv
<1>2. n \in Market
  BY <1>1, Zenon DEF Market
<1>3. /\ n.exists = m.exists /\ n.multiplier = m.multiplier /\ n.rewardIndex = m.rewardIndex
      /\ n.sumOfMembersScore = m.sumOfMembersScore /\ n.interests = m.interests
      /\ n.unreleasedPLPIncome = m.unreleasedPLPIncome /\ n.balance = m.balance
      /\ n.tokenAmountAccrued = m.tokenAmountAccrued /\ n.lastAccrued = now
      /\ n.plpBalance = m.plpBalance
  BY <1>1 DEF Market
<1> HIDE DEF n
<1>4. initialized(n)
  BY <1>3 DEF initialized
<1>5. MarketInv(n)
  <2>1. scores(n) = scores(m) /\ entitlements(n) = entitlements(m) /\ income(n) = income(m)
    BY <1>3 DEF scores, entitlements, entitlement, income
  <2> QED BY <1>2, <1>3, <1>4, <2>1 DEF MarketInv
<1>6. n.unreleasedPLPIncome = n.tokenAmountAccrued
  <2>1. m.tokenAmountAccrued = 0 /\ m.unreleasedPLPIncome <= m.tokenAmountAccrued
    BY DEF MarketInv
  <2>2. m.unreleasedPLPIncome \in Nat
    BY <1>1, MarketFields
  <2> QED BY <1>3, <2>1, <2>2
<1>7. accrueInterest(n) = n
  BY <1>3, <1>4, <1>5, <1>6, AccrueAgain
<1>8. ASSUME NEW u \in Users PROVE owed(n, u) = owed(m, u)
  BY <1>3, OwedOf
<1>9. Kept(n, m)
  BY <1>3, <1>4, <1>5, <1>7, <1>8 DEF Kept, owedNow
<1> QED BY <1>9 DEF n

\* In a market that does not exist nobody is owed anything.
LEMMA NothingOwed ==
  ASSUME NEW m, MarketInv(m), m.interests = [u \in Users |-> noInterest],
         now \in Nat, m.lastAccrued <= now, NEW u \in Users
  PROVE  owedNow(m, u) = 0
<1>1. ASSUME NEW R \in Nat PROVE owes(R, noInterest) = 0
  <2>1. noInterest \in Interest
    BY DEF noInterest, Interest
  <2> QED BY <2>1, OwesSettled DEF noInterest
<1>2. CASE ~initialized(m)
  <2>1. m.rewardIndex \in Nat
    BY MarketFields DEF MarketInv
  <2> QED BY <1>1, <1>2, <2>1, OwedOf DEF owedNow
<1>3. CASE initialized(m)
  <2> DEFINE b == accrueTokens(m)
  <2>1. /\ MarketInv(b) /\ b \in Market
        /\ b = [m EXCEPT !.tokenAmountAccrued = b.tokenAmountAccrued, !.lastAccrued = now]
    BY <1>3, AccrueTokensFacts DEF MarketInv
  <2> HIDE DEF b
  <2>2. b.interests = m.interests
    BY <2>1 DEF Market, MarketInv
  <2>3. scores(b) \in [Users -> Nat] /\ \A w \in Users : scores(b)[w] = 0
    BY <2>2 DEF scores, noInterest
  <2>4. Total(scores(b)) = 0
    <3> DEFINE S == scores(b)
    <3> HIDE DEF S
    <3>1. S \in [Users -> Nat] /\ \A w \in Users : S[w] = 0
      BY <2>3 DEF S
    <3> QED BY <3>1, TotalZero DEF S
  <2>5. share(b) = 0 /\ b.rewardIndex \in Nat
    BY <2>1, <2>4, MarketFields DEF MarketInv, share
  <2>6. b.rewardIndex + share(b) \in Nat
    BY <2>5
  <2>7. owed(accrueInterest(m), u) = owes(b.rewardIndex + share(b), b.interests[u])
    BY <2>1, OwedAccrued DEF b
  <2> QED BY <1>1, <1>3, <2>2, <2>6, <2>7 DEF owedNow
<1> QED BY <1>2, <1>3

\* A market that did not exist before addMarket.
addedMarket(m, k) ==
  [m EXCEPT !.exists = TRUE, !.multiplier = k, !.rewardIndex = 0, !.sumOfMembersScore = 0]

\* A new market owes nothing.
LEMMA AddMarketKept ==
  ASSUME NEW m, MarketInv(m), ~m.exists, now \in Nat, m.lastAccrued <= now,
         NEW k \in Multipliers
  PROVE  Kept(addedMarket(m, k), m) /\ addedMarket(m, k).interests = m.interests
<1> DEFINE n == addedMarket(m, k)
<1>1. /\ m \in Market /\ m.interests = [u \in Users |-> noInterest]
      /\ m.rewardIndex = 0 /\ m.unreleasedPLPIncome = 0 /\ m.balance = 0
  BY DEF MarketInv
<1>2. n \in Market
  <2>1. TRUE \in BOOLEAN /\ 0 \in Nat
    OBVIOUS
  <2> QED BY <1>1, <2>1, Zenon DEF Market, addedMarket
<1>3. /\ n.exists /\ n.multiplier = k /\ n.rewardIndex = m.rewardIndex
      /\ n.sumOfMembersScore = 0 /\ n.interests = m.interests
      /\ n.unreleasedPLPIncome = m.unreleasedPLPIncome /\ n.balance = m.balance
      /\ n.tokenAmountAccrued = m.tokenAmountAccrued /\ n.lastAccrued = m.lastAccrued
      /\ n.plpBalance = m.plpBalance
  BY <1>1 DEF Market, addedMarket
<1> HIDE DEF n
<1>4. MarketInv(n)
  <2>1. scores(n) = scores(m) /\ entitlements(n) = entitlements(m) /\ income(n) = income(m)
    BY <1>3 DEF scores, entitlements, entitlement, income
  <2>2. Total(scores(m)) = 0
    <3> DEFINE S == scores(m)
    <3>1. S \in [Users -> Nat] /\ \A w \in Users : S[w] = 0
      BY <1>1 DEF scores, noInterest
    <3> HIDE DEF S
    <3>2. Total(S) = 0
      BY <3>1, TotalZero
    <3> QED BY <3>2 DEF S
  <2> QED BY <1>2, <1>3, <2>1, <2>2 DEF MarketInv, initialized
<1>5. \A u \in Users : owedNow(n, u) = 0 /\ owedNow(m, u) = 0
  BY <1>1, <1>3, <1>4, NothingOwed
<1>6. Kept(n, m)
  BY <1>3, <1>4, <1>5 DEF Kept
<1> QED BY <1>3, <1>6 DEF n

\* Funding the provider adds to its balance only.
LEMMA FundFacts ==
  ASSUME NEW m, MarketInv(m), NEW amount \in Nat
  PROVE  LET n == [m EXCEPT !.plpBalance = @ + amount]
         IN  /\ MarketInv(n) /\ n.interests = m.interests /\ n.lastAccrued = m.lastAccrued
             /\ n = m \/ n.plpBalance > m.plpBalance
<1> DEFINE p == m.plpBalance + amount
           n == [m EXCEPT !.plpBalance = @ + amount]
<1>1. m \in Market /\ m.plpBalance \in Nat /\ m.tokenAmountAccrued \in Nat
  BY MarketFields DEF MarketInv
<1>2. n = [m EXCEPT !.plpBalance = p]
  BY <1>1 DEF Market
<1>3. p \in Nat /\ (p = m.plpBalance \/ p > m.plpBalance) /\ m.plpBalance <= p
  BY <1>1
<1> HIDE DEF n, p
<1>4. n \in Market
  BY <1>1, <1>2, <1>3, Zenon DEF Market
<1>5. /\ n.exists = m.exists /\ n.multiplier = m.multiplier /\ n.rewardIndex = m.rewardIndex
      /\ n.sumOfMembersScore = m.sumOfMembersScore /\ n.interests = m.interests
      /\ n.unreleasedPLPIncome = m.unreleasedPLPIncome /\ n.balance = m.balance
      /\ n.tokenAmountAccrued = m.tokenAmountAccrued /\ n.lastAccrued = m.lastAccrued
      /\ n.plpBalance = p
  BY <1>1, <1>2 DEF Market
<1>6. MarketInv(n)
  <2>1. scores(n) = scores(m) /\ entitlements(n) = entitlements(m) /\ income(n) = income(m)
    BY <1>5 DEF scores, entitlements, entitlement, income
  <2>2. n.tokenAmountAccrued <= n.plpBalance
    BY <1>1, <1>3, <1>5 DEF MarketInv
  <2> QED BY <1>4, <1>5, <2>1, <2>2 DEF MarketInv, initialized
<1>7. n = m \/ n.plpBalance > m.plpBalance
  BY <1>1, <1>2, <1>3, <1>5 DEF Market
<1> QED BY <1>5, <1>6, <1>7 DEF n

-----------------------------------------------------------------------------
(* Tokens and rounds. *)

irrevocables == {u \in holders : tokens[u].isIrrevocable}
revocables == {u \in holders : ~tokens[u].isIrrevocable}

\* The sets of users that are counted are finite.
LEMMA CountedSets ==
  /\ IsFiniteSet(holders) /\ IsFiniteSet(irrevocables) /\ IsFiniteSet(revocables)
  /\ IsFiniteSet(holders \ isScoreUpdated)
  /\ Cardinality(holders) = Cardinality(irrevocables) + Cardinality(revocables)
  /\ Cardinality(irrevocables) \in Nat /\ Cardinality(revocables) \in Nat
  /\ Cardinality(holders) \in Nat /\ Cardinality(holders \ isScoreUpdated) \in Nat
<1>1. /\ holders \subseteq Users /\ irrevocables \subseteq Users /\ revocables \subseteq Users
      /\ holders \ isScoreUpdated \subseteq Users
  BY DEF holders, irrevocables, revocables
<1>2. /\ IsFiniteSet(holders) /\ IsFiniteSet(irrevocables) /\ IsFiniteSet(revocables)
      /\ IsFiniteSet(holders \ isScoreUpdated)
  BY <1>1, UsersFinite, FS_Subset
<1>3. /\ holders = irrevocables \cup revocables
      /\ irrevocables \cap revocables = {}
  BY DEF irrevocables, revocables
<1>4. /\ Cardinality(irrevocables) \in Nat /\ Cardinality(revocables) \in Nat
      /\ Cardinality(holders) \in Nat /\ Cardinality(holders \ isScoreUpdated) \in Nat
  BY <1>2, FS_CardinalityType
<1>5. Cardinality(irrevocables \cup revocables)
        = Cardinality(irrevocables) + Cardinality(revocables)
            - Cardinality(irrevocables \cap revocables)
  BY <1>2, FS_Union
<1>6. Cardinality(holders) = Cardinality(irrevocables) + Cardinality(revocables)
  BY <1>3, <1>4, <1>5, FS_EmptySet
<1> QED BY <1>2, <1>4, <1>6

\* A new holder is counted, and marked if a round is under way.
LEMMA MintCounts ==
  ASSUME CountInv, NEW u \in Users, NEW b \in BOOLEAN, mint(b, u), UNCHANGED limitVars
  PROVE  CountInv' /\ ~tokens[u].exists /\ holders' = holders \cup {u}
<1>1. /\ ~tokens[u].exists
      /\ tokens' = [tokens EXCEPT ![u] = [exists |-> TRUE, isIrrevocable |-> b]]
      /\ totalIrrevocable' = totalIrrevocable + (IF b THEN 1 ELSE 0)
      /\ totalRevocable' = totalRevocable + (IF b THEN 0 ELSE 1)
      /\ totalIrrevocable' <= irrevocableLimit /\ totalRevocable' <= revocableLimit
      /\ isScoreUpdated' = IF totalScoreUpdatesRequired # 0
                             THEN isScoreUpdated \cup {u} ELSE isScoreUpdated
      /\ totalScoreUpdatesRequired' = totalScoreUpdatesRequired
      /\ pendingScoreUpdates' = pendingScoreUpdates
      /\ nextScoreUpdateRoundId' = nextScoreUpdateRoundId
      /\ irrevocableLimit' = irrevocableLimit /\ revocableLimit' = revocableLimit
  BY DEF mint, updateRoundAfterTokenMinted, limitVars
<1>2. tokens' \in [Users -> Token]
  BY <1>1 DEF CountInv, Token
<1>3. /\ holders' = holders \cup {u} /\ u \notin holders
      /\ irrevocables' = IF b THEN irrevocables \cup {u} ELSE irrevocables
      /\ revocables' = IF b THEN revocables ELSE revocables \cup {u}
      /\ u \notin irrevocables /\ u \notin revocables
  BY <1>1 DEF holders, irrevocables, revocables, CountInv
<1>4. /\ Cardinality(irrevocables') = Cardinality(irrevocables) + (IF b THEN 1 ELSE 0)
      /\ Cardinality(revocables') = Cardinality(revocables) + (IF b THEN 0 ELSE 1)
  <2>1. \A S : IsFiniteSet(S) /\ u \notin S =>
               Cardinality(S \cup {u}) = Cardinality(S) + 1
    BY FS_AddElement
  <2> QED BY <1>3, <2>1, CountedSets
<1>5. MembersCounted'
  BY <1>1, <1>4 DEF MembersCounted, CountInv, irrevocables, revocables
<1>6. RoundCanFinish'
  <2>1. holders \ isScoreUpdated \subseteq (holders' \ isScoreUpdated')
    BY <1>1, <1>3
  <2>2. IsFiniteSet(holders' \ isScoreUpdated')
        /\ Cardinality(holders' \ isScoreUpdated') \in Nat
    <3>1. holders' \ isScoreUpdated' \subseteq Users
      BY DEF holders
    <3> QED BY <3>1, UsersFinite, FS_Subset, FS_CardinalityType
  <2>3. Cardinality(holders \ isScoreUpdated) <= Cardinality(holders' \ isScoreUpdated')
    BY <2>1, <2>2, FS_Subset
  <2> QED BY <1>1, <2>2, <2>3, CountedSets DEF RoundCanFinish, CountInv
<1>7. isScoreUpdated' \subseteq Users /\ totalIrrevocable' \in Nat /\ totalRevocable' \in Nat
  BY <1>1 DEF CountInv
<1> QED BY <1>1, <1>2, <1>3, <1>5, <1>6, <1>7 DEF CountInv

\* A holder who leaves is not counted any more, and not pending either.
LEMMA BurnCounts ==
  ASSUME CountInv, NEW u \in Users, burn(u), UNCHANGED limitVars
  PROVE  CountInv' /\ tokens[u].exists /\ holders' = holders \ {u}
<1>1. /\ tokens[u].exists
      /\ tokens' = [tokens EXCEPT ![u] = noToken]
      /\ totalIrrevocable' = totalIrrevocable - (IF tokens[u].isIrrevocable THEN 1 ELSE 0)
      /\ totalRevocable' = totalRevocable - (IF tokens[u].isIrrevocable THEN 0 ELSE 1)
      /\ totalScoreUpdatesRequired' =
           IF totalScoreUpdatesRequired # 0 THEN totalScoreUpdatesRequired - 1 ELSE 0
      /\ pendingScoreUpdates' =
           IF pendingScoreUpdates # 0 /\ u \notin isScoreUpdated
             THEN pendingScoreUpdates - 1 ELSE pendingScoreUpdates
      /\ isScoreUpdated' = isScoreUpdated
      /\ nextScoreUpdateRoundId' = nextScoreUpdateRoundId
      /\ irrevocableLimit' = irrevocableLimit /\ revocableLimit' = revocableLimit
  BY DEF burn, updateRoundAfterTokenBurned, limitVars
<1>2. tokens' \in [Users -> Token] /\ tokens[u].isIrrevocable \in BOOLEAN
  BY <1>1 DEF CountInv, Token, noToken
<1>3. /\ holders' = holders \ {u} /\ u \in holders
      /\ irrevocables' = irrevocables \ {u} /\ revocables' = revocables \ {u}
      /\ u \in irrevocables <=> tokens[u].isIrrevocable
      /\ u \in revocables <=> ~tokens[u].isIrrevocable
  BY <1>1 DEF holders, irrevocables, revocables, CountInv, noToken
<1>4. \A S : IsFiniteSet(S) =>
             Cardinality(S \ {u}) = IF u \in S THEN Cardinality(S) - 1 ELSE Cardinality(S)
  BY FS_RemoveElement
<1>5. /\ Cardinality(irrevocables')
           = Cardinality(irrevocables) - (IF tokens[u].isIrrevocable THEN 1 ELSE 0)
      /\ Cardinality(revocables')
           = Cardinality(revocables) - (IF tokens[u].isIrrevocable THEN 0 ELSE 1)
      /\ Cardinality(irrevocables') \in Nat /\ Cardinality(revocables') \in Nat
  <2>1. IsFiniteSet(irrevocables') /\ IsFiniteSet(revocables')
    BY <1>3, CountedSets, FS_RemoveElement
  <2>2. Cardinality(irrevocables') \in Nat /\ Cardinality(revocables') \in Nat
    BY <2>1, FS_CardinalityType
  <2> QED BY <1>3, <1>4, <2>2, CountedSets
<1>6. /\ totalIrrevocable' = Cardinality(irrevocables')
      /\ totalRevocable' = Cardinality(revocables')
      /\ totalIrrevocable' <= irrevocableLimit /\ totalRevocable' <= revocableLimit
  BY <1>1, <1>5 DEF MembersCounted, CountInv, irrevocables, revocables
<1>7. MembersCounted'
  BY <1>1, <1>6 DEF MembersCounted, irrevocables, revocables
<1>8. RoundCanFinish'
  <2>1. holders' \ isScoreUpdated' = (holders \ isScoreUpdated) \ {u}
    BY <1>1, <1>3
  <2>2. u \in holders \ isScoreUpdated <=> u \notin isScoreUpdated
    BY <1>3
  <2> DEFINE S == holders \ isScoreUpdated
  <2>3. IsFiniteSet(S) /\ Cardinality(S) \in Nat
    BY CountedSets
  <2>4. Cardinality(S \ {u}) = IF u \in S THEN Cardinality(S) - 1 ELSE Cardinality(S)
    BY <1>4, <2>3
  <2>5. Cardinality(S \ {u}) \in Nat
    <3> HIDE DEF S
    <3> QED BY <2>3, FS_RemoveElement, FS_CardinalityType
  <2>6. pendingScoreUpdates <= Cardinality(S) /\ pendingScoreUpdates \in Nat
    BY DEF RoundCanFinish, CountInv
  <2>7. pendingScoreUpdates' <= Cardinality(S \ {u})
    <3> HIDE DEF S
    <3> QED BY <1>1, <2>2, <2>3, <2>4, <2>5, <2>6 DEF S
  <2> QED BY <2>1, <2>7 DEF RoundCanFinish
<1>9. /\ totalIrrevocable' \in Nat /\ totalRevocable' \in Nat
      /\ totalScoreUpdatesRequired' \in Nat /\ pendingScoreUpdates' \in Nat
  BY <1>1, <1>5, <1>6 DEF CountInv
<1> QED BY <1>1, <1>2, <1>3, <1>7, <1>8, <1>9 DEF CountInv

\* An upgrade moves one holder from one count to the other.
LEMMA UpgradeCounts ==
  ASSUME CountInv, NEW u \in Users, tokens[u].exists, ~tokens[u].isIrrevocable,
         upgrade(u), UNCHANGED <<limitVars, roundVars>>
  PROVE  CountInv' /\ holders' = holders
<1>1. /\ tokens' = [tokens EXCEPT ![u].isIrrevocable = TRUE]
      /\ totalIrrevocable' = totalIrrevocable + 1
      /\ totalRevocable' = totalRevocable - 1
      /\ totalIrrevocable' <= irrevocableLimit
      /\ UNCHANGED <<irrevocableLimit, revocableLimit, isScoreUpdated,
                     nextScoreUpdateRoundId, totalScoreUpdatesRequired, pendingScoreUpdates>>
  BY DEF upgrade, limitVars, roundVars
<1>2. tokens' \in [Users -> Token]
  BY <1>1 DEF CountInv, Token
<1>3. /\ holders' = holders
      /\ irrevocables' = irrevocables \cup {u} /\ u \notin irrevocables
      /\ revocables' = revocables \ {u} /\ u \in revocables
  BY <1>1 DEF holders, irrevocables, revocables, CountInv, Token
<1>4. /\ Cardinality(irrevocables') = Cardinality(irrevocables) + 1
      /\ Cardinality(revocables') = Cardinality(revocables) - 1
      /\ Cardinality(revocables') \in Nat
  <2>1. \A S : IsFiniteSet(S) /\ u \notin S =>
               Cardinality(S \cup {u}) = Cardinality(S) + 1
    BY FS_AddElement
  <2>2. \A S : IsFiniteSet(S) /\ u \in S =>
               IsFiniteSet(S \ {u}) /\ Cardinality(S \ {u}) = Cardinality(S) - 1
    BY FS_RemoveElement
  <2>3. Cardinality(revocables') \in Nat
    BY <1>3, <2>2, CountedSets, FS_CardinalityType
  <2> QED BY <1>3, <2>1, <2>2, <2>3, CountedSets
<1>5. MembersCounted'
  BY <1>1, <1>4 DEF MembersCounted, CountInv, irrevocables, revocables
<1>6. totalIrrevocable' \in Nat /\ totalRevocable' \in Nat
  BY <1>1, <1>4 DEF MembersCounted, CountInv, irrevocables, revocables
<1> QED BY <1>1, <1>2, <1>3, <1>5, <1>6 DEF CountInv, RoundCanFinish

\* A round begins with all holders pending.
LEMMA StartRoundCounts ==
  ASSUME CountInv, startScoreUpdateRound, UNCHANGED <<tokenVars, limitVars>>
  PROVE  CountInv' /\ holders' = holders
<1>1. /\ isScoreUpdated' = {}
      /\ nextScoreUpdateRoundId' = nextScoreUpdateRoundId + 1
      /\ totalScoreUpdatesRequired' = totalIrrevocable + totalRevocable
      /\ pendingScoreUpdates' = totalIrrevocable + totalRevocable
      /\ UNCHANGED <<tokens, totalIrrevocable, totalRevocable,
                     irrevocableLimit, revocableLimit>>
  BY DEF startScoreUpdateRound, tokenVars, limitVars
<1>2. holders' = holders /\ holders' \ isScoreUpdated' = holders
  BY <1>1 DEF holders
<1>3. MembersCounted'
  BY <1>1, <1>2 DEF MembersCounted, CountInv
<1>4. totalIrrevocable + totalRevocable = Cardinality(holders)
  BY CountedSets DEF MembersCounted, CountInv, irrevocables, revocables
<1>5. RoundCanFinish'
  BY <1>1, <1>2, <1>4, CountedSets DEF RoundCanFinish
<1> QED BY <1>1, <1>2, <1>3, <1>5 DEF CountInv

\* A holder whose score is updated is pending no more.
LEMMA MarkCounts ==
  ASSUME CountInv, NEW u \in Users, tokens[u].exists, u \notin isScoreUpdated,
         pendingScoreUpdates # 0, pendingScoreUpdates' = pendingScoreUpdates - 1,
         isScoreUpdated' = isScoreUpdated \cup {u},
         UNCHANGED <<tokenVars, limitVars, nextScoreUpdateRoundId, totalScoreUpdatesRequired>>
  PROVE  CountInv' /\ holders' = holders
<1>1. UNCHANGED <<tokens, totalIrrevocable, totalRevocable, irrevocableLimit, revocableLimit>>
  BY DEF tokenVars, limitVars
<1>2. holders' = holders
  BY <1>1 DEF holders
<1> DEFINE S == holders \ isScoreUpdated
<1>3. holders' \ isScoreUpdated' = S \ {u} /\ u \in S
  BY <1>2 DEF holders
<1>4. IsFiniteSet(S) /\ Cardinality(S) \in Nat /\ pendingScoreUpdates <= Cardinality(S)
  BY CountedSets DEF CountInv, RoundCanFinish
<1> HIDE DEF S
<1>5. Cardinality(S \ {u}) = Cardinality(S) - 1
  BY <1>3, <1>4, FS_RemoveElement
<1>6. pendingScoreUpdates' \in Nat
  BY DEF CountInv
<1>7. pendingScoreUpdates' <= Cardinality(S \ {u})
  BY <1>4, <1>5 DEF CountInv
<1>8. RoundCanFinish'
  BY <1>3, <1>7 DEF RoundCanFinish
<1> QED BY <1>1, <1>2, <1>6, <1>8 DEF CountInv, MembersCounted

\* Steps that touch no counter keep the counters.
LEMMA QuietCounts ==
  ASSUME CountInv, UNCHANGED <<tokenVars, limitVars, roundVars>>
  PROVE  CountInv' /\ holders' = holders
  BY DEF CountInv, MembersCounted, RoundCanFinish, holders, tokenVars, limitVars, roundVars

-----------------------------------------------------------------------------
(* The steps. *)

\* The invariant implies the properties that are checked.
LEMMA InvImplies == Inv => BooksAgree /\ InterestCovered /\ RoundCanFinish
<1> SUFFICES ASSUME Inv PROVE BooksAgree /\ InterestCovered /\ RoundCanFinish
  OBVIOUS
<1>1. TypeOK
  <2>1. Stakes \cup {0} \subseteq Nat /\ Capitals \cup {0} \subseteq Nat
    BY PrimeAssumption
  <2>2. stake \in [Users -> Nat] /\ capital \in [Markets -> [Users -> Nat]]
    BY <2>1 DEF Inv, SettingsInv
  <2> QED BY <2>2 DEF Inv, MarketsInv, CountInv, SettingsInv, TypeOK
<1>2. ScoresSum
  BY DEF Inv, MarketsInv, MarketInv, ScoresSum, scores
<1>3. ASSUME NEW v \in Markets
      PROVE  LET m == markets[v]
             IN  /\ Total([u \in Users |-> owed(m, u)]) <= m.balance + m.unreleasedPLPIncome
                 /\ m.unreleasedPLPIncome <= m.tokenAmountAccrued
                 /\ m.tokenAmountAccrued <= m.plpBalance
  <2> DEFINE m == markets[v]
             F == [u \in Users |-> owed(m, u)]
             G == [u \in Users |-> expScale * F[u]]
  <2>1. MarketInv(m)
    BY DEF Inv, MarketsInv
  <2> HIDE DEF m
  <2>2. expScale \in Nat \ {0}
    BY ExpScaleAssumption
  <2>3. ASSUME NEW u \in Users
        PROVE owed(m, u) \in Nat /\ owed(m, u) * expScale <= entitlements(m)[u]
    BY <2>1, SettledFacts DEF entitlements
  <2>4. F \in [Users -> Nat]
    BY <2>3
  <2>5. G \in [Users -> Nat] /\ \A u \in Users : G[u] <= entitlements(m)[u]
    BY <2>2, <2>3
  <2>6. Total(G) = expScale * Total(F)
    <3> HIDE DEF F
    <3> QED BY <2>2, <2>4, TotalTimes, UsersFinite
  <2> HIDE DEF F, G
  <2>7. Total(G) <= Total(entitlements(m))
    BY <2>1, <2>5, EntitlementsType, TotalMonotone, UsersFinite
  <2>8. Total(F) \in Nat /\ Total(G) \in Nat /\ Total(entitlements(m)) \in Nat
    BY <2>1, <2>4, <2>5, EntitlementsType, TotalBounds, UsersFinite
  <2>9. income(m) \in Nat /\ Total(entitlements(m)) <= income(m) * expScale
    BY <2>1, MarketFields DEF MarketInv, income
  <2>10. Total(F) * expScale <= income(m) * expScale
    <3>1. income(m) * expScale \in Nat /\ expScale * Total(F) = Total(F) * expScale
      BY <2>2, <2>8, <2>9
    <3> QED BY <2>6, <2>7, <2>8, <2>9, <3>1
  <2>11. Total(F) <= income(m)
    BY <2>2, <2>8, <2>9, <2>10, MulCancel
  <2> QED BY <2>1, <2>11 DEF F, m, income, MarketInv
<1>4. InterestCovered
  BY <1>3 DEF InterestCovered
<1> QED BY <1>1, <1>2, <1>4 DEF Inv, CountInv, BooksAgree

\* No step but the passing of time and funding changes what anybody has earned.
Harmless ==
  \A v \in Markets, u \in Users :
    \/ earned(v, u)' = earned(v, u)
    \/ now' # now
    \/ markets'[v].plpBalance > markets[v].plpBalance

\* What a user has earned is what was received and what is owed now.
LEMMA EarnedNow ==
  ASSUME now' = now, NEW v \in Markets, NEW u \in Users
  PROVE  /\ earned(v, u) = received[v][u] + owedNow(markets[v], u)
         /\ earned(v, u)' = received'[v][u] + owedNow(markets'[v], u)
<1>1. earned(v, u) = received[v][u] + owedNow(markets[v], u)
  BY DEF earned, owedNow
<1>2. earned(v, u)' = received'[v][u] + owedNow(markets'[v], u)
  BY DEF earned, owedNow, owed, interestAccrued, accrueInterest, accrueTokens, initialized
<1> QED BY <1>1, <1>2

MarketsKept ==
  /\ markets' \in [Markets -> Market]
  /\ \A v \in Markets : Kept(markets'[v], markets[v])

\* A step that keeps the markets, the counts and the settings.
LEMMA KeptStep ==
  ASSUME Inv, CountInv', SettingsInv', MarketsKept, now' = now, received' = received,
         \A v \in Markets, u \in Users \ holders' : markets'[v].interests[u].score = 0
  PROVE  Inv' /\ Harmless
<1>1. Inv'
  BY DEF Inv, MarketsKept, Kept, MarketsInv
<1>2. ASSUME NEW v \in Markets, NEW u \in Users PROVE earned(v, u)' = earned(v, u)
  <2>1. owedNow(markets'[v], u) = owedNow(markets[v], u)
    BY DEF MarketsKept, Kept
  <2> QED BY <2>1, EarnedNow
<1> QED BY <1>1, <1>2 DEF Harmless

\* Calls that leave the markets alone.
LEMMA MarketsUnchanged ==
  ASSUME Inv, UNCHANGED markets
  PROVE  MarketsKept
  BY DEF Inv, MarketsInv, MarketsKept, Kept

\* The loops over all markets, and calls in one market.
LEMMA AllBoosted ==
  ASSUME Inv, canAccrueAll, NEW u, NEW changed,
         \A v \in Markets : markets[v].exists => Boosted(changed[v], markets[v], u),
         markets' = inAllMarkets(changed)
  PROVE  /\ MarketsKept
         /\ \A v \in Markets, w \in Users \ {u} :
              markets'[v].interests[w] = markets[v].interests[w]
<1>1. ASSUME NEW v \in Markets
      PROVE  /\ markets'[v] \in Market /\ Kept(markets'[v], markets[v])
             /\ \A w \in Users \ {u} : markets'[v].interests[w] = markets[v].interests[w]
  <2>1. MarketInv(markets[v]) /\ markets[v].lastAccrued <= now /\ now \in Nat /\ now > 0
    BY DEF Inv, MarketsInv, SettingsInv
  <2>2. CASE markets[v].exists
    <3>1. Boosted(changed[v], markets[v], u) /\ initialized(markets[v])
      BY <2>2 DEF canAccrueAll
    <3>2. markets'[v] = changed[v]
      BY <2>2 DEF inAllMarkets
    <3>3. Kept(changed[v], markets[v])
      BY <2>1, <3>1, BoostedKept
    <3> QED BY <3>1, <3>2, <3>3 DEF Boosted, MarketInv
  <2>3. CASE ~markets[v].exists
    <3>1. markets'[v] = markets[v]
      BY <2>3 DEF inAllMarkets
    <3> QED BY <2>1, <3>1 DEF Kept, MarketInv
  <2> QED BY <2>2, <2>3
<1>2. markets' = [v \in Markets |-> markets'[v]]
  BY DEF inAllMarkets
<1>3. markets' \in [Markets -> Market]
  BY <1>1, <1>2
<1> QED BY <1>1, <1>3 DEF MarketsKept

\* A change in one market that takes from nobody takes from nobody in all markets.
LEMMA OneKept ==
  ASSUME Inv, NEW v \in Markets, NEW n, Kept(n, markets[v]),
         markets' = [markets EXCEPT ![v] = n]
  PROVE  MarketsKept
<1>1. n \in Market
  BY DEF Kept, MarketInv
<1>2. markets' \in [Markets -> Market]
  BY <1>1 DEF Inv, MarketsInv
<1>3. ASSUME NEW w \in Markets PROVE Kept(markets'[w], markets[w])
  <2>1. CASE w = v
    BY <2>1 DEF Inv, MarketsInv
  <2>2. CASE w # v
    BY <2>2 DEF Inv, MarketsInv, Kept
  <2> QED BY <2>1, <2>2
<1> QED BY <1>2, <1>3 DEF MarketsKept

\* The score of a user in a market that exists is a natural number.
LEMMA ScoreType ==
  ASSUME Inv, NEW v \in Markets, markets[v].exists,
         NEW xvs \in Stakes \cup {0}, NEW c \in Capitals \cup {0}
  PROVE  calculateScore(markets[v], xvs, c) \in Nat
<1>1. xvsBalanceForScore(xvs) \in Stakes \cup {0, MAXIMUM_XVS_CAP}
  BY DEF xvsBalanceForScore
<1>2. markets[v].multiplier \in Multipliers /\ alpha \in Alphas
  BY DEF Inv, MarketsInv, MarketInv, SettingsInv
<1>3. \A x \in Stakes \cup {0, MAXIMUM_XVS_CAP}, d \in Capitals \cup {0},
         m \in Multipliers, a \in Alphas : ScoreOf(x, d, m, a) \in Nat
  BY PrimeAssumption
<1> QED BY <1>1, <1>2, <1>3 DEF calculateScore

\* A mint, by Issue or Claim.
LEMMA MintStep ==
  ASSUME Inv, NEW u \in Users, NEW b \in BOOLEAN, mint(b, u),
         UNCHANGED <<limitVars, stakedAt, alpha, pauseVars, userVars, now>>
  PROVE  Inv' /\ Harmless
<1>1. /\ CountInv' /\ ~tokens[u].exists /\ holders' = holders \cup {u}
  BY MintCounts DEF Inv
<1>2. SettingsInv' /\ received' = received /\ now' = now
  BY DEF Inv, SettingsInv, pauseVars, userVars
<1> DEFINE changed == [v \in Markets |-> initializeMarket(v, u)]
<1>3. ASSUME NEW v \in Markets, markets[v].exists
      PROVE  Boosted(changed[v], markets[v], u)
  <2>1. /\ MarketInv(markets[v]) /\ markets[v].lastAccrued <= now /\ now \in Nat
        /\ initialized(markets[v])
    BY <1>3 DEF mint, canAccrueAll, Inv, MarketsInv, SettingsInv
  <2>2. markets[v].interests[u].score = 0
    BY <1>1 DEF Inv, MarketsInv, holders
  <2>3. calculateScore(markets[v], stake[u], capital[v][u]) \in Nat
    <3>1. stake[u] \in Stakes \cup {0} /\ capital[v][u] \in Capitals \cup {0}
      BY DEF Inv, SettingsInv
    <3> QED BY <1>3, <3>1, ScoreType
  <2>4. Boosted(initializeMarket(v, u), markets[v], u)
    BY <1>3, <2>1, <2>2, <2>3, InitializeMarketFacts
  <2> QED BY <2>4
<1>4. canAccrueAll /\ markets' = inAllMarkets(changed)
  BY DEF mint
<1> HIDE DEF changed
<1>5. /\ MarketsKept
      /\ \A v \in Markets, w \in Users \ {u} :
           markets'[v].interests[w] = markets[v].interests[w]
  BY <1>3, <1>4, AllBoosted
<1>6. \A v \in Markets, w \in Users \ holders' : markets'[v].interests[w].score = 0
  BY <1>1, <1>5 DEF Inv, MarketsInv
<1> QED BY <1>1, <1>2, <1>5, <1>6, KeptStep

\* A burn, by Burn or after the stake became too small.
LEMMA BurnStep ==
  ASSUME Inv, NEW u \in Users, burn(u), SettingsInv',
         UNCHANGED <<limitVars, now, received>>
  PROVE  Inv' /\ Harmless
<1>1. /\ CountInv' /\ tokens[u].exists /\ holders' = holders \ {u}
  BY BurnCounts DEF Inv
<1> DEFINE changed == [v \in Markets |-> leaveMarket(v, u)]
<1>2. ASSUME NEW v \in Markets, markets[v].exists
      PROVE  Boosted(changed[v], markets[v], u) /\ changed[v].interests[u].score = 0
  <2>1. /\ MarketInv(markets[v]) /\ markets[v].lastAccrued <= now /\ now \in Nat
        /\ initialized(markets[v])
    BY <1>2 DEF burn, canAccrueAll, Inv, MarketsInv, SettingsInv
  <2>2. /\ Boosted(leaveMarket(v, u), markets[v], u)
        /\ leaveMarket(v, u).interests[u].score = 0
    BY <1>2, <2>1, LeaveMarketFacts
  <2> QED BY <2>2
<1>3. canAccrueAll /\ markets' = inAllMarkets(changed)
  BY DEF burn
<1> HIDE DEF changed
<1>4. /\ MarketsKept
      /\ \A v \in Markets, w \in Users \ {u} :
           markets'[v].interests[w] = markets[v].interests[w]
  BY <1>2, <1>3, AllBoosted
<1>5. ASSUME NEW v \in Markets PROVE markets'[v].interests[u].score = 0
  <2>1. CASE markets[v].exists
    BY <1>2, <1>3, <2>1 DEF inAllMarkets
  <2>2. CASE ~markets[v].exists
    <3>1. markets'[v] = markets[v] /\ markets[v].interests = [w \in Users |-> noInterest]
      BY <1>3, <2>2 DEF inAllMarkets, Inv, MarketsInv, MarketInv
    <3> QED BY <3>1 DEF noInterest
  <2> QED BY <2>1, <2>2
<1>6. \A v \in Markets, w \in Users \ holders' : markets'[v].interests[w].score = 0
  BY <1>1, <1>4, <1>5 DEF Inv, MarketsInv
<1> QED BY <1>1, <1>4, <1>6, KeptStep

\* New scores for one holder in all markets.
LEMMA BoostAllStep ==
  ASSUME Inv, NEW u \in Users, tokens[u].exists, canAccrueAll,
         NEW xvs \in Stakes \cup {0},
         markets' = inAllMarkets([v \in Markets |-> boostAndScore(v, u, xvs, capital[v][u])]),
         CountInv', holders' = holders, SettingsInv', UNCHANGED <<now, received>>
  PROVE  Inv' /\ Harmless
<1> DEFINE changed == [v \in Markets |-> boostAndScore(v, u, xvs, capital[v][u])]
<1>1. ASSUME NEW v \in Markets, markets[v].exists
      PROVE  Boosted(changed[v], markets[v], u)
  <2>1. /\ MarketInv(markets[v]) /\ markets[v].lastAccrued <= now /\ now \in Nat
        /\ initialized(markets[v]) /\ capital[v][u] \in Capitals \cup {0}
    BY <1>1 DEF canAccrueAll, Inv, MarketsInv, SettingsInv
  <2> DEFINE score == calculateScore(markets[v], xvs, capital[v][u])
  <2>2. score \in Nat
    BY <1>1, <2>1, ScoreType
  <2> HIDE DEF score
  <2>3. Boosted(updateScore(executeBoost(markets[v], u), u, score), markets[v], u)
    BY <1>1, <2>1, <2>2, BoostAndScoreFacts
  <2> QED BY <2>3 DEF boostAndScore, score
<1>2. markets' = inAllMarkets(changed)
  OBVIOUS
<1> HIDE DEF changed
<1>3. /\ MarketsKept
      /\ \A v \in Markets, w \in Users \ {u} :
           markets'[v].interests[w] = markets[v].interests[w]
  BY <1>1, <1>2, AllBoosted
<1>4. \A v \in Markets, w \in Users \ holders' : markets'[v].interests[w].score = 0
  BY <1>3 DEF Inv, MarketsInv, holders
<1> QED BY <1>3, <1>4, KeptStep

\* The steps of xvsUpdated.
LEMMA StakeStep ==
  ASSUME Inv, NEW u \in Users, NEW xvs \in Stakes, StakeChanged(u, xvs)
  PROVE  Inv' /\ Harmless
<1>1. /\ stake' = [stake EXCEPT ![u] = xvs]
      /\ stakedAt' = [stakedAt EXCEPT ![u] =
                        IF ~isEligible(xvs) THEN 0 ELSE IF @ = 0 THEN now ELSE @]
      /\ UNCHANGED <<limitVars, alpha, pauseVars, capital, received, now>>
  BY DEF StakeChanged
<1>2. SettingsInv' /\ now' = now /\ received' = received
  <2>1. stake' \in [Users -> Stakes \cup {0}]
    BY <1>1 DEF Inv, SettingsInv
  <2>2. stakedAt' \in [Users -> Nat]
    BY <1>1 DEF Inv, SettingsInv
  <2> QED BY <1>1, <2>1, <2>2 DEF Inv, SettingsInv, pauseVars
<1>3. CASE ~tokens[u].exists /\ UNCHANGED <<tokenVars, roundVars, markets>>
  <2>1. CountInv' /\ holders' = holders
    BY <1>1, <1>3, QuietCounts DEF Inv
  <2>2. MarketsKept
    BY <1>3, MarketsUnchanged
  <2>3. \A v \in Markets, w \in Users \ holders' : markets'[v].interests[w].score = 0
    BY <1>3, <2>1 DEF Inv, MarketsInv
  <2> QED BY <1>2, <2>1, <2>2, <2>3, KeptStep
<1>4. CASE burn(u)
  BY <1>1, <1>2, <1>4, BurnStep
<1>5. CASE /\ tokens[u].exists /\ canAccrueAll
           /\ markets' = inAllMarkets([v \in Markets |-> boostAndScore(v, u, xvs, capital[v][u])])
           /\ UNCHANGED <<tokenVars, roundVars>>
  <2>1. CountInv' /\ holders' = holders
    BY <1>1, <1>5, QuietCounts DEF Inv
  <2> QED BY <1>1, <1>2, <1>5, <2>1, BoostAllStep
<1> QED BY <1>3, <1>4, <1>5 DEF StakeChanged

\* The steps of updateScores.
LEMMA UpdateScoresStep ==
  ASSUME Inv, NEW u \in Users, UpdateScores(u)
  PROVE  Inv' /\ Harmless
<1>1. CountInv' /\ holders' = holders
  BY MarkCounts DEF Inv, UpdateScores
<1>2. SettingsInv' /\ now' = now /\ received' = received
  BY DEF Inv, SettingsInv, UpdateScores, pauseVars, userVars
<1>3. stake[u] \in Stakes \cup {0}
  BY DEF Inv, SettingsInv
<1> QED BY <1>1, <1>2, <1>3, BoostAllStep DEF UpdateScores

\* A step in one market that leaves tokens and rounds alone.
LEMMA OneMarketStep ==
  ASSUME Inv, NEW v \in Markets, NEW n, Kept(n, markets[v]),
         markets' = [markets EXCEPT ![v] = n],
         \A w \in Users \ holders : n.interests[w].score = markets[v].interests[w].score,
         CountInv', holders' = holders, SettingsInv', UNCHANGED <<now, received>>
  PROVE  Inv' /\ Harmless
<1>1. MarketsKept
  BY OneKept
<1>2. ASSUME NEW w \in Markets, NEW u \in Users \ holders'
      PROVE  markets'[w].interests[u].score = 0
  <2>1. markets[w].interests[u].score = 0
    BY DEF Inv, MarketsInv
  <2>2. CASE w = v
    BY <2>1, <2>2 DEF Inv, MarketsInv
  <2>3. CASE w # v
    BY <2>1, <2>3 DEF Inv, MarketsInv
  <2> QED BY <2>2, <2>3
<1> QED BY <1>1, <1>2, KeptStep

\* What holds of a market before a call.
LEMMA MarketBefore ==
  ASSUME Inv, NEW v \in Markets
  PROVE  /\ MarketInv(markets[v]) /\ markets[v].lastAccrued <= now
         /\ now \in Nat /\ now > 0 /\ markets \in [Markets -> Market]
  BY DEF Inv, MarketsInv, SettingsInv

\* The steps of accrueInterestAndUpdateScore after a change of capital.
LEMMA CapitalStep ==
  ASSUME Inv, NEW u \in Users, NEW v \in Markets, NEW amount \in Capitals,
         CapitalChanged(u, v, amount)
  PROVE  Inv' /\ Harmless
<1>1. /\ capital' = [capital EXCEPT ![v][u] = amount]
      /\ UNCHANGED <<tokenVars, limitVars, stakedAt, alpha, roundVars, pauseVars, stake,
                     received, now>>
  BY DEF CapitalChanged
<1>2. CountInv' /\ holders' = holders
  BY <1>1, QuietCounts DEF Inv
<1>3. SettingsInv'
  <2>1. capital' \in [Markets -> [Users -> Capitals \cup {0}]]
    BY <1>1 DEF Inv, SettingsInv
  <2> QED BY <1>1, <2>1 DEF Inv, SettingsInv, pauseVars
<1>4. CASE markets[v].exists /\ tokens[u].exists
  <2>1. /\ initialized(markets[v])
        /\ markets' = [markets EXCEPT ![v] = boostAndScore(v, u, stake[u], amount)]
    BY <1>4 DEF CapitalChanged
  <2> DEFINE score == calculateScore(markets[v], stake[u], amount)
             n == updateScore(executeBoost(markets[v], u), u, score)
  <2>2. score \in Nat
    <3>1. stake[u] \in Stakes \cup {0}
      BY DEF Inv, SettingsInv
    <3> QED BY <1>4, <3>1, ScoreType
  <2> HIDE DEF score
  <2>3. Boosted(n, markets[v], u)
    BY <1>4, <2>1, <2>2, MarketBefore, BoostAndScoreFacts
  <2>4. markets' = [markets EXCEPT ![v] = n]
    BY <2>1 DEF boostAndScore, score
  <2> HIDE DEF n
  <2>5. Kept(n, markets[v])
    BY <2>1, <2>3, MarketBefore, BoostedKept
  <2>6. \A w \in Users \ holders : n.interests[w].score = markets[v].interests[w].score
    BY <1>4, <2>3 DEF Boosted, holders
  <2> QED BY <1>1, <1>2, <1>3, <2>4, <2>5, <2>6, OneMarketStep
<1>5. CASE ~(markets[v].exists /\ tokens[u].exists)
  <2>1. UNCHANGED markets
    BY <1>5 DEF CapitalChanged
  <2>2. MarketsKept
    BY <2>1, MarketsUnchanged
  <2>3. \A w \in Markets, x \in Users \ holders' : markets'[w].interests[x].score = 0
    BY <1>2, <2>1 DEF Inv, MarketsInv
  <2> QED BY <1>1, <1>2, <1>3, <2>2, <2>3, KeptStep
<1> QED BY <1>4, <1>5

\* The steps of claimInterest.
LEMMA ClaimStep ==
  ASSUME Inv, NEW u \in Users, NEW v \in Markets, ClaimInterest(v, u)
  PROVE  Inv' /\ Harmless
<1> DEFINE m == markets[v]
           a == accrueInterest(m)
<1>1. UNCHANGED <<tokenVars, limitVars, stakedAt, alpha, roundVars, pauseVars, stake,
                  capital, now>>
  BY DEF ClaimInterest
<1>2. CountInv' /\ holders' = holders
  BY <1>1, QuietCounts DEF Inv
<1>3. PICK n \in Market :
        /\ markets' = [markets EXCEPT ![v] = n]
        /\ received' = [received EXCEPT ![v][u] = @ + owed(a, u)]
        /\ MarketInv(a) /\ Fresh(a) /\ initialized(a) /\ Paid(n, a, u)
        /\ a.interests = m.interests
  BY MarketBefore, ClaimFacts
<1> HIDE DEF a
<1>4. /\ MarketInv(n) /\ Fresh(n)
      /\ \A w \in Users : n.interests[w].score = a.interests[w].score
      /\ owed(n, u) = 0
      /\ \A w \in Users \ {u} : owed(n, w) = owed(a, w)
  BY <1>3, MarketBefore, PaidFacts
<1>5. owed(a, u) \in Nat
  BY <1>3, SettledFacts
<1>6. received' \in [Markets -> [Users -> Nat]]
  BY <1>3, <1>5 DEF Inv, SettingsInv
<1>7. SettingsInv'
  BY <1>1, <1>6 DEF Inv, SettingsInv, pauseVars
<1>8. now' = now /\ n.lastAccrued = now
  BY <1>1, <1>4 DEF Fresh
<1>9. MarketsInv'
  <2>1. markets' \in [Markets -> Market]
    BY <1>3, MarketBefore DEF Inv, MarketsInv
  <2>2. ASSUME NEW w \in Markets PROVE MarketInv(markets'[w]) /\ markets'[w].lastAccrued <= now
    BY <1>3, <1>4, <1>8, MarketBefore
  <2>3. ASSUME NEW w \in Markets, NEW x \in Users \ holders'
        PROVE  markets'[w].interests[x].score = 0
    <3>1. markets[w].interests[x].score = 0
      BY <1>2 DEF Inv, MarketsInv
    <3>2. CASE w = v
      BY <1>3, <1>4, <3>1, <3>2, MarketBefore
    <3>3. CASE w # v
      BY <1>3, <3>1, <3>3, MarketBefore
    <3> QED BY <3>2, <3>3
  <2> QED BY <1>8, <2>1, <2>2, <2>3 DEF MarketsInv
<1>10. ASSUME NEW w \in Markets, NEW x \in Users
       PROVE  received'[w][x] + owedNow(markets'[w], x)
                = received[w][x] + owedNow(markets[w], x)
  <2>1. CASE w # v
    BY <1>3, <2>1, MarketBefore DEF Inv, SettingsInv
  <2>2. CASE w = v
    <3>1. initialized(n)
      BY <1>4, <1>8, MarketBefore DEF initialized
    <3>2. accrueInterest(n) = n
      BY <1>4, <1>8, <3>1, MarketBefore, AccrueAgain DEF Fresh
    <3>3. markets'[v] = n /\ owedNow(n, x) = owed(n, x)
      BY <1>3, <3>1, <3>2, MarketBefore DEF owedNow
    <3>4. owedNow(m, x) = owed(a, x)
      BY DEF owedNow, ClaimInterest, a
    <3>5. received'[v][x] = IF x = u THEN received[v][u] + owed(a, u) ELSE received[v][x]
      BY <1>3 DEF Inv, SettingsInv
    <3>6. received[v][x] \in Nat
      BY DEF Inv, SettingsInv
    <3>7. CASE x = u
      BY <1>4, <1>5, <2>2, <3>3, <3>4, <3>5, <3>6, <3>7
    <3>8. CASE x # u
      BY <1>4, <2>2, <3>3, <3>4, <3>5, <3>8
    <3> QED BY <3>7, <3>8
  <2> QED BY <2>1, <2>2
<1>11. Harmless
  BY <1>8, <1>10, EarnedNow DEF Harmless
<1> QED BY <1>2, <1>7, <1>9, <1>11 DEF Inv

\* The steps of users.
LEMMA UserStepKeeps == Inv /\ UserStep => Inv' /\ Harmless
<1> SUFFICES ASSUME Inv, NEW u \in Users,
                    \/ Claim(u) \/ UpdateScores(u)
                    \/ \E xvs \in Stakes : StakeChanged(u, xvs)
                    \/ \E v \in Markets :
                         ClaimInterest(v, u)
                         \/ \E amount \in Capitals : CapitalChanged(u, v, amount)
             PROVE  Inv' /\ Harmless
  BY DEF UserStep
<1>1. CASE Claim(u)
  BY <1>1, MintStep DEF Claim
<1>2. CASE UpdateScores(u)
  BY <1>2, UpdateScoresStep
<1>3. CASE \E xvs \in Stakes : StakeChanged(u, xvs)
  BY <1>3, StakeStep
<1>4. CASE \E v \in Markets : ClaimInterest(v, u)
  BY <1>4, ClaimStep
<1>5. CASE \E v \in Markets, amount \in Capitals : CapitalChanged(u, v, amount)
  BY <1>5, CapitalStep
<1> QED BY <1>1, <1>2, <1>3, <1>4, <1>5

\* The steps that mint and burn tokens.
LEMMA TokenStepKeeps == Inv /\ TokenStep => Inv' /\ Harmless
<1> SUFFICES ASSUME Inv, NEW u \in Users,
                    Burn(u) \/ \E isIrrevocable \in BOOLEAN : Issue(isIrrevocable, u)
             PROVE  Inv' /\ Harmless
  BY DEF TokenStep
<1>1. CASE Burn(u)
  <2>1. SettingsInv' /\ UNCHANGED <<limitVars, now, received>>
    BY <1>1 DEF Burn, Inv, SettingsInv, pauseVars, userVars
  <2> QED BY <1>1, <2>1, BurnStep DEF Burn
<1>2. ASSUME NEW b \in BOOLEAN, Issue(b, u) PROVE Inv' /\ Harmless
  <2>1. UNCHANGED <<limitVars, stakedAt, alpha, pauseVars, userVars, now>>
    BY <1>2 DEF Issue
  <2>2. CASE mint(b, u)
    BY <2>1, <2>2, MintStep
  <2>3. CASE /\ tokens[u].exists /\ ~tokens[u].isIrrevocable
             /\ upgrade(u) /\ UNCHANGED <<roundVars, markets>>
    <3>1. CountInv' /\ holders' = holders
      BY <2>1, <2>3, UpgradeCounts DEF Inv
    <3>2. SettingsInv' /\ now' = now /\ received' = received
      BY <2>1 DEF Inv, SettingsInv, pauseVars, userVars
    <3>3. MarketsKept
      BY <2>3, MarketsUnchanged
    <3>4. \A v \in Markets, w \in Users \ holders' : markets'[v].interests[w].score = 0
      BY <2>3, <3>1 DEF Inv, MarketsInv
    <3> QED BY <3>1, <3>2, <3>3, <3>4, KeptStep
  <2> QED BY <1>2, <2>2, <2>3 DEF Issue
<1> QED BY <1>1, <1>2

\* accrueInterest alone keeps what everybody has earned.
LEMMA AccruedKept ==
  ASSUME NEW m, MarketInv(m), m.exists, initialized(m), now \in Nat, now > 0,
         m.lastAccrued <= now
  PROVE  Kept(accrueInterest(m), m) /\ accrueInterest(m).interests = m.interests
<1> DEFINE a == accrueInterest(m)
<1>1. /\ MarketInv(a) /\ a.lastAccrued = now /\ a.interests = m.interests
      /\ a.unreleasedPLPIncome = a.tokenAmountAccrued
  BY AccrueInterestFacts
<1> HIDE DEF a
<1>3. initialized(a)
  BY <1>1 DEF initialized
<1>4. accrueInterest(a) = a
  BY <1>1, <1>3, AccrueAgain
<1>5. \A u \in Users : owedNow(a, u) = owed(a, u)
  BY <1>3, <1>4 DEF owedNow
<1>6. \A u \in Users : owedNow(m, u) = owed(a, u)
  BY DEF owedNow, a
<1>7. a.lastAccrued <= now
  BY <1>1
<1> QED BY <1>1, <1>5, <1>6, <1>7 DEF Kept, a

\* The steps of updateAlpha.
LEMMA UpdateAlphaStep ==
  ASSUME Inv, NEW newAlpha \in Alphas, UpdateAlpha(newAlpha)
  PROVE  Inv' /\ Harmless
<1>1. CountInv' /\ holders' = holders
  BY StartRoundCounts DEF UpdateAlpha, Inv
<1>2. SettingsInv' /\ now' = now /\ received' = received
  BY DEF UpdateAlpha, Inv, SettingsInv, pauseVars, userVars
<1> DEFINE changed == [v \in Markets |-> accrueInterest(markets[v])]
<1>3. canAccrueAll /\ markets' = inAllMarkets(changed)
  BY DEF UpdateAlpha
<1>4. ASSUME NEW v \in Markets
      PROVE  Kept(markets'[v], markets[v]) /\ markets'[v].interests = markets[v].interests
  <2>1. CASE markets[v].exists
    <3>1. initialized(markets[v]) /\ markets'[v] = accrueInterest(markets[v])
      BY <1>3, <2>1 DEF canAccrueAll, inAllMarkets
    <3> QED BY <2>1, <3>1, MarketBefore, AccruedKept
  <2>2. CASE ~markets[v].exists
    BY <1>3, <2>2, MarketBefore DEF inAllMarkets, Kept
  <2> QED BY <2>1, <2>2
<1>5. markets' = [v \in Markets |-> markets'[v]]
  BY <1>3 DEF inAllMarkets
<1>6. \A v \in Markets : markets'[v] \in Market
  BY <1>4 DEF Kept, MarketInv
<1>7. MarketsKept
  <2>1. markets' \in [Markets -> Market]
    BY <1>5, <1>6
  <2> QED BY <1>4, <2>1 DEF MarketsKept
<1>8. \A v \in Markets, w \in Users \ holders' : markets'[v].interests[w].score = 0
  BY <1>1, <1>4 DEF Inv, MarketsInv
<1> QED BY <1>1, <1>2, <1>7, <1>8, KeptStep

\* The steps that start a round of updates.
LEMMA RoundStepKeeps == Inv /\ RoundStep => Inv' /\ Harmless
<1> SUFFICES ASSUME Inv, RoundStep PROVE Inv' /\ Harmless
  OBVIOUS
<1>1. ASSUME NEW a \in Alphas, UpdateAlpha(a) PROVE Inv' /\ Harmless
  BY <1>1, UpdateAlphaStep
<1>2. ASSUME NEW v \in Markets, NEW k \in Multipliers, UpdateMultipliers(v, k)
      PROVE  Inv' /\ Harmless
  <2>1. CountInv' /\ holders' = holders
    BY <1>2, StartRoundCounts DEF UpdateMultipliers, Inv
  <2>2. SettingsInv' /\ now' = now /\ received' = received
    BY <1>2 DEF UpdateMultipliers, Inv, SettingsInv, pauseVars, userVars
  <2> DEFINE n == [accrueInterest(markets[v]) EXCEPT !.multiplier = k]
  <2>3. Kept(n, markets[v]) /\ n.interests = markets[v].interests
    BY <1>2, MarketBefore, MultiplierKept DEF UpdateMultipliers
  <2>4. markets' = [markets EXCEPT ![v] = n]
    BY <1>2 DEF UpdateMultipliers
  <2> HIDE DEF n
  <2> QED BY <2>1, <2>2, <2>3, <2>4, OneMarketStep
<1>3. ASSUME NEW v \in Markets, NEW k \in Multipliers, AddMarket(v, k)
      PROVE  Inv' /\ Harmless
  <2>1. CountInv' /\ holders' = holders
    BY <1>3, StartRoundCounts DEF AddMarket, Inv
  <2>2. SettingsInv' /\ now' = now /\ received' = received
    BY <1>3 DEF AddMarket, Inv, SettingsInv, pauseVars, userVars
  <2> DEFINE n == addedMarket(markets[v], k)
  <2>3. Kept(n, markets[v]) /\ n.interests = markets[v].interests
    BY <1>3, MarketBefore, AddMarketKept DEF AddMarket
  <2>4. markets' = [markets EXCEPT ![v] = n]
    BY <1>3, MarketBefore DEF AddMarket, addedMarket
  <2> HIDE DEF n
  <2> QED BY <2>1, <2>2, <2>3, <2>4, OneMarketStep
<1> QED BY <1>1, <1>2, <1>3 DEF RoundStep

\* The steps of the other settings.
LEMMA SettingStepKeeps == Inv /\ SettingStep => Inv' /\ Harmless
<1> SUFFICES ASSUME Inv, SettingStep PROVE Inv' /\ Harmless
  OBVIOUS
<1>1. UNCHANGED <<tokenVars, markets, roundVars, received, now>>
  BY DEF SettingStep, SetLimit, SetStakedAt, TogglePause, PauseOrResumeFundsTransfer, userVars
<1>2. CountInv' /\ holders' = holders
  <2>1. CASE UNCHANGED limitVars
    BY <1>1, <2>1, QuietCounts DEF Inv
  <2>2. ASSUME NEW i \in Limits, NEW r \in Limits, SetLimit(i, r)
        PROVE  CountInv' /\ holders' = holders
    <3>1. i \in Nat /\ r \in Nat
      BY PrimeAssumption
    <3>2. holders' = holders
      BY <1>1 DEF holders, tokenVars
    <3> QED BY <1>1, <2>2, <3>1, <3>2
        DEF Inv, CountInv, MembersCounted, RoundCanFinish, SetLimit, tokenVars, roundVars
  <2> QED BY <2>1, <2>2
      DEF SettingStep, SetStakedAt, TogglePause, PauseOrResumeFundsTransfer
<1>3. SettingsInv'
  <2>1. /\ UNCHANGED <<alpha, stake, capital, received, now>>
        /\ paused' \in BOOLEAN /\ fundsTransferPaused' \in BOOLEAN
    BY DEF SettingStep, SetLimit, SetStakedAt, TogglePause, PauseOrResumeFundsTransfer,
           userVars, pauseVars, Inv, SettingsInv
  <2>2. stakedAt' \in [Users -> Nat]
    <3>1. StakedTimes \subseteq Nat
      BY PrimeAssumption
    <3> QED BY <3>1 DEF SettingStep, SetLimit, SetStakedAt, TogglePause,
               PauseOrResumeFundsTransfer, Inv, SettingsInv
  <2> QED BY <2>1, <2>2 DEF Inv, SettingsInv
<1>4. MarketsKept
  BY <1>1, MarketsUnchanged
<1>5. \A v \in Markets, w \in Users \ holders' : markets'[v].interests[w].score = 0
  BY <1>1, <1>2 DEF Inv, MarketsInv
<1> QED BY <1>1, <1>2, <1>3, <1>4, <1>5, KeptStep

\* A step of the provider alone.
LEMMA ProviderStep ==
  ASSUME Inv, providerOnly
  PROVE  /\ CountInv' /\ holders' = holders /\ SettingsInv' /\ UNCHANGED <<now, received>>
<1>1. CountInv' /\ holders' = holders
  BY QuietCounts DEF Inv, providerOnly
<1> QED BY <1>1 DEF providerOnly, Inv, SettingsInv, pauseVars, userVars

\* Income gives a market more to pay with and changes no interest.
LEMMA FundStep ==
  ASSUME Inv, NEW v \in Markets, NEW amount \in Fundings, Fund(v, amount)
  PROVE  Inv' /\ Harmless
<1> DEFINE n == [markets[v] EXCEPT !.plpBalance = @ + amount]
<1>1. CountInv' /\ holders' = holders /\ SettingsInv' /\ UNCHANGED <<now, received>>
  BY ProviderStep DEF Fund
<1>2. amount \in Nat
  BY PrimeAssumption
<1>3. /\ MarketInv(n) /\ n.interests = markets[v].interests
      /\ n.lastAccrued = markets[v].lastAccrued
      /\ n = markets[v] \/ n.plpBalance > markets[v].plpBalance
  BY <1>2, MarketBefore, FundFacts
<1>4. markets' = [markets EXCEPT ![v] = n] /\ markets \in [Markets -> Market]
  BY MarketBefore DEF Fund
<1> HIDE DEF n
<1>5. MarketsInv'
  <2>1. n \in Market
    BY <1>3 DEF MarketInv
  <2>2. markets' \in [Markets -> Market]
    BY <1>4, <2>1
  <2>3. ASSUME NEW w \in Markets
        PROVE  /\ MarketInv(markets'[w]) /\ markets'[w].lastAccrued <= now'
               /\ markets'[w].interests = markets[w].interests
    <3>1. CASE w = v
      BY <1>1, <1>3, <1>4, <3>1, MarketBefore
    <3>2. CASE w # v
      BY <1>1, <1>4, <3>2, MarketBefore
    <3> QED BY <3>1, <3>2
  <2> QED BY <1>1, <2>2, <2>3 DEF Inv, MarketsInv
<1>6. ASSUME NEW w \in Markets, NEW u \in Users
      PROVE  \/ earned(w, u)' = earned(w, u)
             \/ markets'[w].plpBalance > markets[w].plpBalance
  <2>1. CASE markets'[w] = markets[w]
    BY <1>1, <2>1, EarnedNow
  <2>2. CASE markets'[w] # markets[w]
    <3>1. w = v /\ markets'[w] = n
      BY <1>4, <2>2
    <3> QED BY <1>3, <2>2, <3>1
  <2> QED BY <2>1, <2>2
<1> QED BY <1>1, <1>5, <1>6 DEF Inv, Harmless

\* The steps that bring income.
LEMMA IncomeStepKeeps == Inv /\ IncomeStep => Inv' /\ Harmless
<1> SUFFICES ASSUME Inv, NEW v \in Markets,
                    \/ AccrueInterest(v) \/ AccrueTokens(v) \/ InitializeToken(v)
                    \/ \E speed \in Speeds : SetTokenDistributionSpeed(v, speed)
                    \/ \E amount \in Fundings : Fund(v, amount)
             PROVE  Inv' /\ Harmless
  BY DEF IncomeStep
<1> DEFINE m == markets[v]
<1>1. /\ MarketInv(m) /\ m.lastAccrued <= now /\ now \in Nat /\ now > 0
      /\ m \in Market /\ m.interests \in [Users -> Interest]
  BY MarketBefore, MarketFields DEF MarketInv
<1>2. ASSUME AccrueInterest(v) PROVE Inv' /\ Harmless
  <2> DEFINE n == accrueInterest(m)
  <2>1. CountInv' /\ holders' = holders /\ SettingsInv' /\ UNCHANGED <<now, received>>
    BY <1>2, ProviderStep DEF AccrueInterest, providerOnly
  <2>2. markets' = [markets EXCEPT ![v] = n]
    BY <1>2 DEF AccrueInterest
  <2>3. Kept(n, m) /\ n.interests = m.interests
    BY <1>1, <1>2, AccruedKept DEF AccrueInterest
  <2> HIDE DEF n
  <2> QED BY <2>1, <2>2, <2>3, OneMarketStep
<1>3. ASSUME AccrueTokens(v) PROVE Inv' /\ Harmless
  <2> DEFINE n == accrueTokens(m)
  <2>1. CountInv' /\ holders' = holders /\ SettingsInv' /\ UNCHANGED <<now, received>>
    BY <1>3, ProviderStep DEF AccrueTokens
  <2>2. markets' = [markets EXCEPT ![v] = n] /\ initialized(m)
    BY <1>3 DEF AccrueTokens
  <2>3. Kept(n, m)
    BY <1>1, <2>2, AccrueTokensKept
  <2>4. n.interests = m.interests
    BY <1>1 DEF accrueTokens, Market
  <2> HIDE DEF n
  <2> QED BY <2>1, <2>2, <2>3, <2>4, OneMarketStep
<1>4. ASSUME InitializeToken(v) PROVE Inv' /\ Harmless
  <2> DEFINE n == [m EXCEPT !.lastAccrued = now]
  <2>1. CountInv' /\ holders' = holders /\ SettingsInv' /\ UNCHANGED <<now, received>>
    BY <1>4, ProviderStep DEF InitializeToken
  <2>2. markets' = [markets EXCEPT ![v] = n] /\ ~initialized(m)
    BY <1>4, MarketBefore DEF InitializeToken
  <2>3. Kept(n, m)
    BY <1>1, <2>2, InitializeTokenKept
  <2>4. n.interests = m.interests
    BY <1>1 DEF Market
  <2> HIDE DEF n
  <2> QED BY <2>1, <2>2, <2>3, <2>4, OneMarketStep
<1>5. ASSUME NEW speed \in Speeds, SetTokenDistributionSpeed(v, speed)
      PROVE  Inv' /\ Harmless
  <2> DEFINE n == [accrueTokens(m) EXCEPT !.tokenDistributionSpeed = speed]
  <2>1. CountInv' /\ holders' = holders /\ SettingsInv' /\ UNCHANGED <<now, received>>
    BY <1>5, ProviderStep DEF SetTokenDistributionSpeed
  <2>2. markets' = [markets EXCEPT ![v] = n] /\ initialized(m)
    BY <1>5 DEF SetTokenDistributionSpeed
  <2>3. speed \in Nat
    BY PrimeAssumption
  <2>4. Kept(n, m)
    BY <1>1, <2>2, <2>3, SpeedKept
  <2>5. n.interests = m.interests
    BY <1>1 DEF accrueTokens, Market
  <2> HIDE DEF n
  <2> QED BY <2>1, <2>2, <2>4, <2>5, OneMarketStep
<1>6. ASSUME NEW amount \in Fundings, Fund(v, amount) PROVE Inv' /\ Harmless
  BY <1>6, FundStep
<1> QED BY <1>2, <1>3, <1>4, <1>5, <1>6

\* The passing of time.
LEMMA TickKeeps == Inv /\ Tick => Inv' /\ Harmless
<1> SUFFICES ASSUME Inv, Tick PROVE Inv' /\ Harmless
  OBVIOUS
<1>1. /\ now' = now + 1 /\ now \in Nat /\ now > 0
      /\ UNCHANGED <<tokenVars, limitVars, stakedAt, markets, alpha, roundVars, pauseVars,
                     userVars>>
  BY DEF Tick, Inv, SettingsInv
<1>2. CountInv' /\ holders' = holders
  BY <1>1, QuietCounts DEF Inv
<1>3. SettingsInv'
  BY <1>1 DEF Inv, SettingsInv, pauseVars, userVars
<1>4. \A v \in Markets : markets[v].lastAccrued \in Nat /\ markets[v].lastAccrued <= now
  BY MarketBefore, MarketFields DEF MarketInv
<1>5. MarketsInv'
  BY <1>1, <1>2, <1>4 DEF Inv, MarketsInv
<1>6. now' # now
  BY <1>1
<1> QED BY <1>2, <1>3, <1>5, <1>6 DEF Inv, Harmless

\* The smallest multiplier, which the initial markets have.
LEMMA SmallestMultiplier ==
  ASSUME Multipliers # {}
  PROVE  (CHOOSE n \in Multipliers : \A k \in Multipliers : n <= k) \in Multipliers
<1>1. Multipliers \subseteq Nat
  BY PrimeAssumption
<1>2. \E n \in Multipliers : \A k \in Multipliers : n <= k
  BY <1>1, LeastNatural
<1> QED BY <1>2

\* A market nobody has an interest in.
LEMMA InitialMarket ==
  ASSUME NEW v \in Markets
  PROVE  MarketInv(initialMarket(v \in InitialMarkets))
<1> DEFINE m == initialMarket(v \in InitialMarkets)
           k == IF v \in InitialMarkets
                  THEN CHOOSE n \in Multipliers : \A l \in Multipliers : n <= l ELSE 0
<1>1. k \in Multipliers \cup {0} /\ (v \in InitialMarkets => k \in Multipliers)
  <2>1. CASE v \in InitialMarkets
    BY <2>1, PrimeAssumption, SmallestMultiplier
  <2> QED BY <2>1
<1>2. m.multiplier = k
  BY DEF initialMarket
<1> HIDE DEF k
<1>3. /\ m.exists = (v \in InitialMarkets) /\ m.rewardIndex = 0 /\ m.sumOfMembersScore = 0
      /\ m.interests = [u \in Users |-> noInterest] /\ m.unreleasedPLPIncome = 0
      /\ m.balance = 0 /\ m.tokenAmountAccrued = 0 /\ m.plpBalance = 0
      /\ m.lastAccrued \in Nat
  BY DEF initialMarket
<1>4. noInterest \in Interest
  BY DEF noInterest, Interest
<1>5. m \in Market
  <2>1. [u \in Users |-> noInterest] \in [Users -> Interest]
    BY <1>4
  <2> DEFINE added == v \in InitialMarkets
             accruedAt == IF added THEN 1 ELSE 0
             none == [u \in Users |-> noInterest]
  <2>2. m = [exists |-> added, multiplier |-> k, rewardIndex |-> 0,
             sumOfMembersScore |-> 0, interests |-> none,
             unreleasedPLPIncome |-> 0, balance |-> 0, tokenDistributionSpeed |-> 0,
             tokenAmountAccrued |-> 0, lastAccrued |-> accruedAt, plpBalance |-> 0]
    BY DEF initialMarket, k
  <2>3. added \in BOOLEAN /\ accruedAt \in Nat /\ 0 \in Nat /\ none \in [Users -> Interest]
    BY <2>1
  <2> HIDE DEF added, accruedAt, none, m
  <2> QED BY <1>1, <2>2, <2>3, Zenon DEF Market
<1> HIDE DEF m
<1>6. \A u \in Users : m.interests[u].rewardIndex = 0 /\ m.interests[u].score = 0
                         /\ m.interests[u].accrued = 0
  BY <1>3 DEF noInterest
<1>7. scores(m) = [u \in Users |-> 0] /\ Total(scores(m)) = 0
  <2>1. scores(m) = [u \in Users |-> 0]
    BY <1>6 DEF scores
  <2> QED BY <2>1, UsersFinite, TotalZero
<1>8. Total(entitlements(m)) = 0 /\ income(m) * expScale = 0
  <2>1. entitlements(m) = [u \in Users |-> 0]
    BY <1>3, <1>6, ExpScaleAssumption DEF entitlements, entitlement
  <2> QED BY <1>3, <2>1, UsersFinite, TotalZero, ExpScaleAssumption DEF income
<1>9. MarketInv(m)
  <2>1. (m.exists => m.multiplier \in Multipliers) /\ (~initialized(m) => m.tokenAmountAccrued = 0)
    BY <1>1, <1>2, <1>3
  <2>2. /\ \A u \in Users : m.interests[u].rewardIndex <= m.rewardIndex
        /\ m.unreleasedPLPIncome <= m.tokenAmountAccrued
        /\ m.tokenAmountAccrued <= m.plpBalance
    BY <1>3, <1>6
  <2>3. m.sumOfMembersScore = Total(scores(m)) /\ Total(entitlements(m)) <= income(m) * expScale
    BY <1>3, <1>7, <1>8
  <2> QED BY <1>3, <1>5, <2>1, <2>2, <2>3, Zenon DEF MarketInv
<1> QED BY <1>9 DEF m

\* The invariant holds initially.
LEMMA InitEstablishes == Init => Inv
<1> SUFFICES ASSUME Init PROVE Inv
  OBVIOUS
<1>1. MarketsInv
  <2>1. \A v \in Markets : MarketInv(markets[v])
    BY InitialMarket DEF Init
  <2>2. markets \in [Markets -> Market]
    BY <2>1 DEF Init, MarketInv
  <2>3. \A v \in Markets : markets[v].lastAccrued <= now
    BY DEF Init, initialMarket
  <2>4. \A v \in Markets, u \in Users : markets[v].interests[u].score = 0
    BY DEF Init, initialMarket, noInterest
  <2> QED BY <2>1, <2>2, <2>3, <2>4 DEF MarketsInv
<1>2. CountInv
  <2>1. holders = {}
    BY DEF Init, holders, noToken
  <2>2. /\ {u \in holders : tokens[u].isIrrevocable} = {}
        /\ {u \in holders : ~tokens[u].isIrrevocable} = {}
        /\ holders \ isScoreUpdated = {} /\ Cardinality({}) = 0
    BY <2>1, FS_EmptySet
  <2>3. MembersCounted
    <3>1. /\ totalIrrevocable = 0 /\ totalRevocable = 0 /\ InitialLimit \in Nat
          /\ irrevocableLimit = InitialLimit /\ revocableLimit = InitialLimit
      BY PrimeAssumption DEF Init
    <3>2. /\ Cardinality({u \in holders : tokens[u].isIrrevocable}) = 0
          /\ Cardinality({u \in holders : ~tokens[u].isIrrevocable}) = 0
      BY <2>2, Zenon
    <3>3. 0 <= InitialLimit
      BY <3>1
    <3> QED BY <3>1, <3>2, <3>3, Zenon DEF MembersCounted
  <2>4. RoundCanFinish
    <3>1. pendingScoreUpdates = 0
      BY DEF Init
    <3> QED BY <2>2, <3>1 DEF RoundCanFinish
  <2>5. tokens \in [Users -> Token] /\ InitialLimit \in Nat
    BY PrimeAssumption DEF Init, noToken, Token
  <2> QED BY <2>3, <2>4, <2>5 DEF Init, CountInv
<1>3. SettingsInv
  <2>1. /\ stakedAt = [u \in Users |-> 0] /\ alpha \in Alphas
        /\ paused = TRUE /\ fundsTransferPaused = FALSE
        /\ stake = [u \in Users |-> 0] /\ now = 1
        /\ capital = [v \in Markets |-> [u \in Users |-> 0]]
        /\ received = [v \in Markets |-> [u \in Users |-> 0]]
    BY DEF Init
  <2>2. /\ stakedAt \in [Users -> Nat] /\ stake \in [Users -> Stakes \cup {0}]
        /\ now \in Nat /\ now > 0
    BY <2>1
  <2>3. /\ capital \in [Markets -> [Users -> Capitals \cup {0}]]
        /\ received \in [Markets -> [Users -> Nat]]
    BY <2>1
  <2> QED BY <2>1, <2>2, <2>3 DEF SettingsInv
<1> QED BY <1>1, <1>2, <1>3 DEF Inv

\* Every step keeps the invariant and takes from nobody.
LEMMA StepKeeps == Inv /\ [Next]_vars => Inv' /\ (Harmless \/ UNCHANGED vars)
<1>1. ASSUME Inv, UNCHANGED vars PROVE Inv'
  <2>1. UNCHANGED <<tokenVars, limitVars, stakedAt, markets, alpha, roundVars, pauseVars,
                    userVars, now>>
    BY <1>1 DEF vars
  <2>2. CountInv' /\ holders' = holders
    BY <1>1, <2>1, QuietCounts DEF Inv
  <2>3. SettingsInv'
    BY <1>1, <2>1 DEF Inv, SettingsInv, pauseVars, userVars
  <2>4. MarketsInv'
    BY <1>1, <2>1, <2>2 DEF Inv, MarketsInv
  <2> QED BY <2>2, <2>3, <2>4 DEF Inv
<1> QED BY <1>1, UserStepKeeps, TokenStepKeeps, RoundStepKeeps, SettingStepKeeps,
           IncomeStepKeeps, TickKeeps DEF Next

-----------------------------------------------------------------------------
(* The theorems. *)

\* The inductive invariant holds in every reachable state: of the markets of
\* Prime and its provider, the counts of tokens and rounds, and the settings.
THEOREM Invariance == Spec => []Inv
<1>1. Init => Inv
  BY InitEstablishes
<1>2. Inv /\ [Next]_vars => Inv'
  BY StepKeeps
<1> QED BY <1>1, <1>2, PTL DEF Spec

\* The totals of Prime are the numbers of tokens of each kind and
\* sumOfMembersScore is the sum of the scores of the holders, for every set of
\* users and markets and every score function: no counter is decremented
\* below 0 by _burn, _updateScore or _upgrade.
THEOREM BooksAlwaysAgree == Spec => []BooksAgree
<1>1. Inv => BooksAgree
  BY InvImplies
<1> QED BY <1>1, Invariance, PTL

\* What a market owes to all users, truncated at every settlement, is covered
\* by what Prime holds and what the provider has counted for it: claimInterest
\* never fails for lack of funds while transfers are not paused.
THEOREM InterestIsCovered == Spec => []InterestCovered
<1>1. Inv => InterestCovered
  BY InvImplies
<1> QED BY <1>1, Invariance, PTL

\* pendingScoreUpdates never exceeds the number of holders that updateScores
\* still accepts, whoever joins, leaves or is updated during the round.
THEOREM RoundsCanFinish == Spec => []RoundCanFinish
<1>1. Inv => RoundCanFinish
  BY InvImplies
<1> QED BY <1>1, Invariance, PTL

\* No call to Prime or its provider takes from or adds to what anybody has
\* earned; only time and new income do.
THEOREM NothingEarnedIsLost == Spec => EarnedKept
<1>1. Inv /\ [Next]_vars => [Harmless]_vars
  BY StepKeeps
<1>2. Spec => [][Harmless]_vars
  BY <1>1, Invariance, PTL DEF Spec
<1> QED BY <1>2 DEF EarnedKept, Harmless
=============================================================================
