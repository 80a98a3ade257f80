------------------------------ MODULE VAIProofs ------------------------------
(***************************************************************************)
(* The safety theorems of VAI, for every set of accounts, every scale and  *)
(* every argument of the calls: debts stay computable, the supply is the   *)
(* principal that is owed, and the swapped VAI is covered.                 *)
(***************************************************************************)
EXTENDS VAI, ArithmeticProofs

\* The block counters of the accrual are in order.
AccrualOrdered == accrualBlockNumber <= blockNumber

\* The inductive invariant.  The supply is what is owed only because a debt
\* is at least its past interest, which holds only because shares of a part
\* do not exceed it.
Inv ==
  /\ TypeOK /\ AccrualOrdered
  /\ DebtsComputable /\ SupplyIsOwed /\ PegCovered /\ VAIOnlyInCorePool

Principals == [a \in Accounts |-> principal(a)]

-----------------------------------------------------------------------------
(* The arithmetic. *)

\* With a factor of at least one the truncated product is at least the scalar.
LEMMA MulAtLeastOne ==
  ASSUME NEW a \in Nat, a >= expScale, NEW s \in Nat
  PROVE  mulScalarTruncate(a, s) \in Nat /\ s <= mulScalarTruncate(a, s)
<1>1. expScale \in Nat \ {0}
  BY ExpScaleAssumption
<1>2. s * expScale <= a * s /\ a * s \in Nat
  BY <1>1, MulMonotone
<1>3. s <= (a * s) \div expScale
  BY <1>1, <1>2, DivGreatest
<1> QED BY <1>3, MulScalarBounds DEF mulScalarTruncate, truncate

\* The fraction of a total that a smaller amount is, is at most one.
LEMMA FractionOfTotal ==
  ASSUME NEW amount \in Nat, NEW total \in Nat, amount < total
  PROVE  getExp(amount, total) \in 0 .. expScale
<1> DEFINE e == (amount * expScale) \div total
<1>1. expScale \in Nat \ {0} /\ total \in Nat \ {0}
  BY ExpScaleAssumption
<1>2. amount * expScale \in Nat /\ amount * expScale <= total * expScale
  BY <1>1, MulMonotone
<1>3. e \in Nat /\ e * total <= amount * expScale
  BY <1>1, <1>2, DivBounds
<1> HIDE DEF e
<1>4. e * total <= expScale * total
  BY <1>1, <1>2, <1>3
<1>5. e <= expScale
  BY <1>1, <1>3, <1>4, MulCancel
<1> QED BY <1>1, <1>3, <1>5 DEF e, getExp

\* The share of a part is at most the part.
LEMMA ShareBounds ==
  ASSUME NEW part \in Nat, NEW amount \in Nat, NEW total \in Nat
  PROVE  shareOf(part, amount, total) \in 0 .. part
<1>1. CASE amount >= total
  BY <1>1 DEF shareOf
<1>2. CASE amount < total
  <2>1. mulScalarTruncate(getExp(amount, total), part) \in 0 .. part
    BY <1>2, FractionOfTotal, MulFraction
  <2> QED BY <1>2, <2>1 DEF shareOf
<1> QED BY <1>1, <1>2

\* A fee below the divisor is at most what it is taken from.
LEMMA FeeBounds ==
  ASSUME NEW amount \in Nat, NEW fee \in Nat, fee <= BASIS_POINTS_DIVISOR
  PROVE  feeOf(amount, fee) \in 0 .. amount
<1> DEFINE d == BASIS_POINTS_DIVISOR
           q == (amount * fee) \div d
<1>1. d \in Nat \ {0}
  BY VAIAssumption
<1> HIDE DEF d
<1>2. amount * fee \in Nat /\ fee * amount <= d * amount
  BY <1>1, MulMonotone DEF d
<1>3. q \in Nat /\ q * d <= amount * fee
  BY <1>1, <1>2, DivBounds
<1> HIDE DEF q
<1>4. q * d <= amount * d
  BY <1>1, <1>2, <1>3
<1>5. q <= amount
  BY <1>1, <1>3, <1>4, MulCancel
<1> QED BY <1>3, <1>5 DEF q, d, feeOf

\* The index never falls.
LEMMA IndexGrows ==
  ASSUME Inv, NEW index \in AccruedIndices
  PROVE  index \in Nat /\ vaiMintIndex <= index
<1>1. PICK price \in Prices : index = accruedIndex(price)
  BY DEF AccruedIndices
<1>2. price \in Nat /\ expScale \in Nat \ {0} /\ blocksPerYear \in Nat \ {0}
  BY VAIAssumption, ExpScaleAssumption
<1>3. /\ controller.baseRateMantissa \in Nat /\ controller.floatRateMantissa \in Nat
      /\ vaiMintIndex \in Nat
  BY DEF Inv, TypeOK, Controller
<1> DEFINE blocks == blockNumber - accrualBlockNumber
<1>4. blocks \in Nat
  BY DEF Inv, TypeOK, AccrualOrdered
<1> HIDE DEF blocks
<1>5. getVAIRepayRate(price) \in Nat
  <2>1. CASE price < expScale
    <3>1. expScale - price \in Nat
      BY <1>2, <2>1
    <3>2. (expScale - price) * controller.floatRateMantissa \in Nat
      BY <1>3, <3>1
    <3>3. ((expScale - price) * controller.floatRateMantissa) \div expScale \in Nat
      BY <1>2, <3>2, DivBounds
    <3> QED BY <1>3, <2>1, <3>3 DEF getVAIRepayRate
  <2>2. CASE ~(price < expScale)
    BY <1>3, <2>2 DEF getVAIRepayRate
  <2> QED BY <2>1, <2>2
<1> DEFINE rate == getVAIRepayRate(price) \div blocksPerYear
<1>6. rate \in Nat
  BY <1>2, <1>5, DivBounds
<1>7. index = vaiMintIndex + rate * blocks
  BY <1>1 DEF accruedIndex, blocks
<1> HIDE DEF rate
<1>8. rate * blocks \in Nat
  BY <1>4, <1>6
<1> QED BY <1>3, <1>7, <1>8

\* The parts of a debt are natural numbers, at every later index.
LEMMA DebtFacts ==
  ASSUME Inv, NEW a \in Accounts, NEW index \in Nat, vaiMintIndex <= index
  PROVE  /\ principal(a) \in Nat /\ newInterest(a, index) \in Nat
         /\ mintedVAIs[a] = principal(a) + pastVAIInterest[a]
         /\ getVAIRepayAmount(a, index)
              = principal(a) + pastVAIInterest[a] + newInterest(a, index)
<1>1. mintedVAIs[a] \in Nat /\ pastVAIInterest[a] \in Nat
  BY DEF Inv, TypeOK
<1>2. principal(a) \in Nat
  BY <1>1 DEF Inv, DebtsComputable, principal
<1>3. index - getVAIMinterInterestIndex(a) \in Nat
  BY ExpScaleAssumption
     DEF Inv, TypeOK, DebtsComputable, getVAIMinterInterestIndex, INITIAL_VAI_MINT_INDEX
<1>4. newInterest(a, index) \in Nat
  BY <1>2, <1>3, MulScalarBounds DEF newInterest
<1> QED BY <1>1, <1>2, <1>4 DEF principal, getVAIRepayAmount

\* A repayment takes at most what there is from every part of the debt.
LEMMA PartsBounded ==
  ASSUME Inv, NEW b \in Accounts, NEW amount \in Nat,
         NEW index \in Nat, vaiMintIndex <= index
  PROVE  LET parts == getVAICalculateRepayAmount(b, amount, index)
         IN  /\ parts.burn \in 0 .. principal(b)
             /\ parts.currentInterest \in Nat
             /\ parts.pastInterest \in 0 .. pastVAIInterest[b]
<1>1. /\ principal(b) \in Nat /\ pastVAIInterest[b] \in Nat
      /\ newInterest(b, index) \in Nat /\ getVAIRepayAmount(b, index) \in Nat
  BY DebtFacts DEF Inv, TypeOK
<1>2. pastVAIInterest[b] + newInterest(b, index) \in Nat
  BY <1>1
<1> DEFINE total == getVAIRepayAmount(b, index)
           interest == pastVAIInterest[b] + newInterest(b, index)
<1>3. /\ shareOf(principal(b), amount, total) \in 0 .. principal(b)
      /\ shareOf(interest, amount, total) \in 0 .. interest
      /\ shareOf(pastVAIInterest[b], amount, total) \in 0 .. pastVAIInterest[b]
  BY <1>1, <1>2, ShareBounds
<1>4. shareOf(interest, amount, total) \in Nat
  <2> HIDE DEF interest, total
  <2> QED BY <1>2, <1>3 DEF interest
<1>5. getVAICalculateRepayAmount(b, amount, index)
        = [burn |-> shareOf(principal(b), amount, total),
           currentInterest |-> shareOf(interest, amount, total),
           pastInterest |-> shareOf(pastVAIInterest[b], amount, total)]
  BY DEF getVAICalculateRepayAmount
<1> QED BY <1>3, <1>4, <1>5
-----------------------------------------------------------------------------
(* The steps. *)

\* There are finitely many holders.
LEMMA HoldersFinite == IsFiniteSet(Holders)
<1>1. IsFiniteSet({treasury})
  BY FS_Singleton
<1> QED BY <1>1, FS_Union, VAIAssumption DEF Holders

\* What changing the principal of one account does to the total.
LEMMA PrincipalOfOne ==
  ASSUME Inv, NEW b \in Accounts, NEW p \in Nat,
         \A a \in Accounts : principal(a)' = IF a = b THEN p ELSE principal(a)
  PROVE  /\ Total(Principals) \in Nat
         /\ Total(Principals)' = Total(Principals) - principal(b) + p
<1>1. Principals \in [Accounts -> Nat]
  BY DEF Principals, Inv, TypeOK, DebtsComputable, principal
<1>2. Principals' = [a \in Accounts |-> principal(a)']
  BY DEF Principals
<1>3. Principals' = [Principals EXCEPT ![b] = p] /\ Principals[b] = principal(b)
  BY <1>2 DEF Principals
<1>4. Total([Principals EXCEPT ![b] = p]) = Total(Principals) - Principals[b] + p
  <2>1. IsFiniteSet(Accounts)
    BY VAIAssumption
  <2> DEFINE f == Principals
  <2>2. f \in [Accounts -> Nat]
    BY <1>1
  <2> HIDE DEF f
  <2>3. Total([f EXCEPT ![b] = p]) = Total(f) - f[b] + p
    BY <2>1, <2>2, TotalExcept
  <2> QED BY <2>3 DEF f
<1> QED BY <1>1, <1>3, <1>4, TotalBounds, VAIAssumption

\* A step that leaves the debts alone leaves the principal alone.
LEMMA PrincipalsKept ==
  ASSUME Inv, UNCHANGED debts
  PROVE  Total(Principals)' = Total(Principals)
  BY DEF debts, Principals, principal

\* Two balances change.
LEMMA SupplyOfTwo ==
  ASSUME Inv, NEW x \in Holders, NEW y \in Holders, x # y,
         NEW m \in Int, balanceOf[x] + m \in Nat,
         NEW n \in Int, balanceOf[y] + n \in Nat,
         balanceOf' = [balanceOf EXCEPT ![x] = @ + m, ![y] = @ + n]
  PROVE  /\ balanceOf' \in [Holders -> Nat]
         /\ Total(balanceOf) \in Nat
         /\ Total(balanceOf)' = Total(balanceOf) + m + n
<1>1. balanceOf \in [Holders -> Nat]
  BY DEF Inv, TypeOK
<1>2. Total(balanceOf) \in Nat
  BY <1>1, HoldersFinite, TotalBounds
<1>3. /\ balanceOf' \in [Holders -> Nat]
      /\ balanceOf'[x] = balanceOf[x] + m /\ balanceOf'[y] = balanceOf[y] + n
      /\ \A z \in Holders \ {x, y} : balanceOf'[z] = balanceOf[z]
  BY <1>1
<1>4. Total(balanceOf') = Total(balanceOf) + m + n
  <2> DEFINE k == balanceOf'
             D == Holders
  <2>1. /\ IsFiniteSet(D) /\ balanceOf \in [D -> Nat] /\ k \in [D -> Nat]
        /\ x \in D /\ y \in D
        /\ k[x] = balanceOf[x] + m /\ k[y] = balanceOf[y] + n
        /\ \A z \in D \ {x, y} : k[z] = balanceOf[z]
    BY <1>1, <1>3, HoldersFinite
  <2> HIDE DEF k, D
  <2>2. Total(k) = Total(balanceOf) + m + n
    BY <2>1, TotalMove
  <2> QED BY <2>2 DEF k
<1> QED BY <1>2, <1>3, <1>4

\* A mint adds what is minted to the supply, wherever the fee goes.
LEMMA MintSupply ==
  ASSUME Inv, NEW minter \in Accounts, NEW amount \in Nat, NEW collateral \in Nat,
         MintVAI(minter, amount, collateral)
  PROVE  /\ balanceOf' \in [Holders -> Nat]
         /\ Total(balanceOf) \in Nat /\ Total(balanceOf)' = Total(balanceOf) + amount
<1> DEFINE fee == mulScalarTruncate(controller.treasuryPercent, amount)
<1>1. balanceOf' = [balanceOf EXCEPT ![treasury] = @ + fee, ![minter] = @ + (amount - fee)]
  BY DEF MintVAI
<1>2. fee \in 0 .. amount
  <2>1. controller.treasuryPercent \in 0 .. expScale
    BY ExpScaleAssumption DEF Inv, TypeOK, Controller
  <2> QED BY <2>1, MulFraction
<1> HIDE DEF fee
<1>3. treasury \in Holders /\ minter \in Holders /\ treasury # minter
  BY VAIAssumption DEF Holders
<1>4. balanceOf[treasury] \in Nat /\ balanceOf[minter] \in Nat
  BY <1>3 DEF Inv, TypeOK
<1>5. fee \in Int /\ amount - fee \in Int
  BY <1>2
<1>6. balanceOf[treasury] + fee \in Nat /\ balanceOf[minter] + (amount - fee) \in Nat
  BY <1>2, <1>4
<1>7. /\ balanceOf' \in [Holders -> Nat]
      /\ Total(balanceOf) \in Nat
      /\ Total(balanceOf)' = Total(balanceOf) + fee + (amount - fee)
  BY <1>1, <1>3, <1>5, <1>6, SupplyOfTwo
<1> QED BY <1>2, <1>7

\* Minting adds the same to the principal and to the supply.
LEMMA MintStep ==
  ASSUME Inv, NEW minter \in Accounts, NEW amount \in Nat, NEW collateral \in Nat,
         MintVAI(minter, amount, collateral)
  PROVE  Inv'
<1>1. PICK index \in AccruedIndices :
        /\ userPoolId[minter] = CORE_POOL_ID
        /\ accrueTo(index)
        /\ pastVAIInterest' = [pastVAIInterest EXCEPT ![minter] = @ + newInterest(minter, index)]
        /\ mintedVAIs' = [mintedVAIs EXCEPT ![minter] = getVAIRepayAmount(minter, index) + amount]
        /\ vaiMinterInterestIndex' = [vaiMinterInterestIndex EXCEPT ![minter] = index]
        /\ UNCHANGED <<userPoolId, controller, psm, blockNumber>>
  BY DEF MintVAI
<1> DEFINE new == newInterest(minter, index)
           owed == getVAIRepayAmount(minter, index)
<1>2. index \in Nat /\ vaiMintIndex <= index
  BY IndexGrows
<1>3. /\ principal(minter) \in Nat /\ new \in Nat /\ pastVAIInterest[minter] \in Nat
      /\ owed = principal(minter) + pastVAIInterest[minter] + new
  BY <1>2, DebtFacts DEF Inv, TypeOK
<1> HIDE DEF new, owed
<1>5. /\ balanceOf' \in [Holders -> Nat]
      /\ Total(balanceOf) \in Nat /\ Total(balanceOf)' = Total(balanceOf) + amount
  BY MintSupply
<1>6. TypeOK' /\ AccrualOrdered'
  <2>1. mintedVAIs' \in [Accounts -> Nat] /\ pastVAIInterest' \in [Accounts -> Nat]
    BY <1>1, <1>3 DEF Inv, TypeOK, new, owed
  <2> QED BY <1>1, <1>2, <1>5, <2>1 DEF Inv, TypeOK, AccrualOrdered, accrueTo
<1>7. \A a \in Accounts :
        principal(a)' = IF a = minter THEN principal(minter) + amount ELSE principal(a)
  <2>1. principal(minter)' = (owed + amount) - (pastVAIInterest[minter] + new)
    BY <1>1 DEF principal, Inv, TypeOK, new, owed
  <2>2. principal(minter)' = principal(minter) + amount
    BY <1>3, <2>1
  <2>3. ASSUME NEW a \in Accounts, a # minter PROVE principal(a)' = principal(a)
    BY <1>1, <2>3 DEF principal, Inv, TypeOK
  <2> QED BY <2>2, <2>3
<1>8. SupplyIsOwed'
  <2>1. /\ Total(Principals) \in Nat
        /\ Total(Principals)' = Total(Principals) - principal(minter) + (principal(minter) + amount)
    BY <1>3, <1>7, PrincipalOfOne
  <2>2. Total(balanceOf) = Total(Principals) + psm.vaiMinted /\ psm.vaiMinted \in Nat
    BY DEF Inv, SupplyIsOwed, Principals, TypeOK, PegStability
  <2>3. Total(balanceOf)' = Total(Principals)' + psm'.vaiMinted
    BY <1>1, <1>3, <1>5, <2>1, <2>2
  <2> QED BY <2>3 DEF SupplyIsOwed, Principals
<1>9. DebtsComputable'
  <2>1. ASSUME NEW a \in Accounts
        PROVE  /\ pastVAIInterest'[a] <= mintedVAIs'[a]
               /\ getVAIMinterInterestIndex(a)' <= index
    <3>1. CASE a = minter
      <4>1. principal(a)' \in Nat
        BY <1>3, <1>7, <3>1
      <4>2. vaiMinterInterestIndex'[a] = index
        BY <1>1, <3>1 DEF Inv, TypeOK
      <4>3. getVAIMinterInterestIndex(a) <= vaiMintIndex
        BY DEF Inv, DebtsComputable
      <4>4. index # 0
        BY <1>2, <4>3, ExpScaleAssumption
           DEF getVAIMinterInterestIndex, INITIAL_VAI_MINT_INDEX, Inv, TypeOK
      <4> QED BY <1>2, <1>6, <4>1, <4>2, <4>4
             DEF principal, getVAIMinterInterestIndex, TypeOK
    <3>2. CASE a # minter
      BY <1>1, <1>2, <3>2, ExpScaleAssumption
         DEF Inv, TypeOK, DebtsComputable, getVAIMinterInterestIndex, INITIAL_VAI_MINT_INDEX
    <3> QED BY <3>1, <3>2
  <2> QED BY <1>1, <2>1 DEF DebtsComputable, accrueTo
<1>10. PegCovered' /\ VAIOnlyInCorePool'
  BY <1>1 DEF Inv, TypeOK, PegCovered, VAIOnlyInCorePool
<1> QED BY <1>6, <1>8, <1>9, <1>10 DEF Inv

\* A repayment burns its share of the principal; the interest goes from the
\* payer to the treasury.
LEMMA RepaySupply ==
  ASSUME Inv, NEW payer \in Accounts, NEW b \in Accounts, NEW amount \in Nat,
         NEW index \in AccruedIndices, repayVAIFresh(payer, b, amount, index)
  PROVE  LET parts == getVAICalculateRepayAmount(b, amount, index)
         IN  /\ balanceOf' \in [Holders -> Nat]
             /\ Total(balanceOf) \in Nat
             /\ Total(balanceOf)' = Total(balanceOf) - parts.burn
             /\ balanceOf[treasury] \in Nat
             /\ balanceOf'[treasury] = balanceOf[treasury] + parts.currentInterest
<1> DEFINE parts == getVAICalculateRepayAmount(b, amount, index)
           burn == parts.burn
           current == parts.currentInterest
           m == 0 - (burn + current)
<1>1. index \in Nat /\ vaiMintIndex <= index
  BY IndexGrows
<1>2. burn \in Nat /\ current \in Nat
  <2>1. principal(b) \in Nat
    BY <1>1, DebtFacts
  <2> QED BY <1>1, <2>1, PartsBounded
<1>3. /\ balanceOf[payer] >= burn + current
      /\ balanceOf' = [balanceOf EXCEPT ![payer] = @ - (burn + current),
                                        ![treasury] = @ + current]
  BY DEF repayVAIFresh
<1> HIDE DEF burn, current, parts
<1>4. payer \in Holders /\ treasury \in Holders /\ payer # treasury
  BY VAIAssumption DEF Holders
<1>5. balanceOf \in [Holders -> Nat]
  BY DEF Inv, TypeOK
<1>6. /\ m \in Int /\ current \in Int /\ balanceOf[payer] + m = balanceOf[payer] - (burn + current)
      /\ balanceOf[payer] + m \in Nat /\ balanceOf[treasury] + current \in Nat
  BY <1>2, <1>3, <1>4, <1>5
<1>7. balanceOf' = [balanceOf EXCEPT ![payer] = @ + m, ![treasury] = @ + current]
  BY <1>3, <1>6
<1>8. /\ balanceOf' \in [Holders -> Nat]
      /\ Total(balanceOf) \in Nat
      /\ Total(balanceOf)' = Total(balanceOf) + m + current
  <2> HIDE DEF m
  <2> QED BY <1>4, <1>6, <1>7, SupplyOfTwo
<1>9. balanceOf[treasury] \in Nat /\ balanceOf'[treasury] = balanceOf[treasury] + current
  BY <1>4, <1>5, <1>3
<1> QED BY <1>2, <1>8, <1>9 DEF burn, current, parts

\* Repaying takes the same from the principal and from the supply; the
\* interest only moves.
LEMMA RepayStep ==
  ASSUME Inv, NEW payer \in Accounts, NEW b \in Accounts, NEW amount \in Nat,
         NEW index \in AccruedIndices, repayVAIFresh(payer, b, amount, index)
  PROVE  Inv'
<1> DEFINE parts == getVAICalculateRepayAmount(b, amount, index)
           burn == parts.burn
           current == parts.currentInterest
           past == parts.pastInterest
<1>1. index \in Nat /\ vaiMintIndex <= index
  BY IndexGrows
<1>2. burn \in 0 .. principal(b) /\ current \in Nat /\ past \in 0 .. pastVAIInterest[b]
  BY <1>1, PartsBounded
<1>3. /\ balanceOf[payer] >= burn + current
      /\ accrueTo(index)
      /\ balanceOf' = [balanceOf EXCEPT ![payer] = @ - (burn + current),
                                        ![treasury] = @ + current]
      /\ mintedVAIs' = [mintedVAIs EXCEPT ![b] = @ - (burn + past)]
      /\ pastVAIInterest' = [pastVAIInterest EXCEPT ![b] = @ - past]
      /\ UNCHANGED <<userPoolId, vaiMinterInterestIndex, controller, psm, blockNumber>>
  BY DEF repayVAIFresh
<1> HIDE DEF burn, current, past
<1>4. /\ principal(b) \in Nat /\ pastVAIInterest[b] \in Nat /\ mintedVAIs[b] \in Nat
      /\ mintedVAIs[b] = principal(b) + pastVAIInterest[b]
  BY <1>1, DebtFacts DEF Inv, TypeOK
<1>5. /\ balanceOf' \in [Holders -> Nat]
      /\ Total(balanceOf) \in Nat /\ Total(balanceOf)' = Total(balanceOf) - burn
  BY RepaySupply DEF parts, burn
<1>6. TypeOK' /\ AccrualOrdered'
  <2>1. mintedVAIs' \in [Accounts -> Nat] /\ pastVAIInterest' \in [Accounts -> Nat]
    BY <1>2, <1>3, <1>4 DEF Inv, TypeOK
  <2> QED BY <1>1, <1>3, <1>5, <2>1 DEF Inv, TypeOK, AccrualOrdered, accrueTo
<1>7. \A a \in Accounts :
        principal(a)' = IF a = b THEN principal(b) - burn ELSE principal(a)
  <2>1. principal(b)' = (mintedVAIs[b] - (burn + past)) - (pastVAIInterest[b] - past)
    BY <1>3 DEF principal, Inv, TypeOK
  <2>2. principal(b)' = principal(b) - burn
    BY <1>2, <1>4, <2>1
  <2>3. ASSUME NEW a \in Accounts, a # b PROVE principal(a)' = principal(a)
    BY <1>3, <2>3 DEF principal, Inv, TypeOK
  <2> QED BY <2>2, <2>3
<1>8. SupplyIsOwed'
  <2>1. /\ Total(Principals) \in Nat
        /\ Total(Principals)' = Total(Principals) - principal(b) + (principal(b) - burn)
    BY <1>2, <1>4, <1>7, PrincipalOfOne
  <2>2. Total(balanceOf) = Total(Principals) + psm.vaiMinted /\ psm.vaiMinted \in Nat
    BY DEF Inv, SupplyIsOwed, Principals, TypeOK, PegStability
  <2>3. Total(balanceOf)' = Total(Principals)' + psm'.vaiMinted
    BY <1>2, <1>3, <1>4, <1>5, <2>1, <2>2
  <2> QED BY <2>3 DEF SupplyIsOwed, Principals
<1>9. DebtsComputable'
  <2>1. ASSUME NEW a \in Accounts
        PROVE  /\ pastVAIInterest'[a] <= mintedVAIs'[a]
               /\ getVAIMinterInterestIndex(a)' <= index
    <3>1. principal(a)' \in Nat
      BY <1>2, <1>4, <1>7 DEF Inv, TypeOK, DebtsComputable, principal
    <3>2. pastVAIInterest'[a] <= mintedVAIs'[a]
      BY <1>6, <3>1 DEF principal, TypeOK
    <3>3. getVAIMinterInterestIndex(a)' <= index
      BY <1>1, <1>3, ExpScaleAssumption
         DEF Inv, TypeOK, DebtsComputable, getVAIMinterInterestIndex, INITIAL_VAI_MINT_INDEX
    <3> QED BY <3>2, <3>3
  <2> QED BY <1>3, <2>1 DEF DebtsComputable, accrueTo
<1>10. PegCovered' /\ VAIOnlyInCorePool'
  <2>1. \A a \in Accounts : mintedVAIs'[a] > 0 => mintedVAIs[a] > 0
    BY <1>2, <1>3, <1>4 DEF Inv, TypeOK
  <2> QED BY <1>3, <2>1 DEF Inv, PegCovered, VAIOnlyInCorePool
<1> QED BY <1>6, <1>8, <1>9, <1>10 DEF Inv

\* A step that leaves debts, VAI and swaps alone, and the index at least as
\* it was.
LEMMA QuietStep ==
  ASSUME Inv, UNCHANGED <<balanceOf, debts, psm>>,
         userPoolId' \in [Accounts -> PoolIds],
         \A a \in Accounts : mintedVAIs[a] > 0 => userPoolId'[a] = userPoolId[a],
         vaiMintIndex' \in Nat, vaiMintIndex <= vaiMintIndex',
         accrualBlockNumber' \in Nat, blockNumber' \in Nat,
         accrualBlockNumber' <= blockNumber', controller' \in Controller
  PROVE  Inv'
<1>1. TypeOK' /\ AccrualOrdered'
  BY DEF Inv, TypeOK, AccrualOrdered, debts
<1>2. SupplyIsOwed'
  BY DEF Inv, SupplyIsOwed, principal, debts
<1>3. DebtsComputable'
  BY ExpScaleAssumption
     DEF Inv, TypeOK, DebtsComputable, getVAIMinterInterestIndex, INITIAL_VAI_MINT_INDEX, debts
<1>4. PegCovered' /\ VAIOnlyInCorePool'
  BY DEF Inv, TypeOK, PegCovered, VAIOnlyInCorePool, debts
<1> QED BY <1>1, <1>2, <1>3, <1>4 DEF Inv

\* A step that moves n VAI into circulation, or out of it, and counts it as
\* swapped, with stablecoins that cover it.
LEMMA SwapStep ==
  ASSUME Inv, UNCHANGED <<userPoolId, debts, accrual, controller, blockNumber>>,
         psm' \in PegStability, PegCovered',
         balanceOf' \in [Holders -> Nat], Total(balanceOf) \in Nat,
         Total(balanceOf)' = Total(balanceOf) + (psm'.vaiMinted - psm.vaiMinted)
  PROVE  Inv'
<1>1. TypeOK' /\ AccrualOrdered'
  BY DEF Inv, TypeOK, AccrualOrdered, debts, accrual
<1>2. SupplyIsOwed'
  <2>1. Total(Principals)' = Total(Principals)
    BY PrincipalsKept
  <2>2. Principals \in [Accounts -> Nat]
    BY DEF Principals, Inv, TypeOK, DebtsComputable, principal
  <2>3. Total(Principals) \in Nat
    BY <2>2, TotalBounds, VAIAssumption
  <2>4. Total(balanceOf) = Total(Principals) + psm.vaiMinted
    BY DEF Inv, SupplyIsOwed, Principals
  <2>5. psm.vaiMinted \in Nat /\ psm'.vaiMinted \in Nat
    BY DEF Inv, TypeOK, PegStability
  <2>6. Total(balanceOf)' = Total(Principals)' + psm'.vaiMinted
    BY <2>1, <2>3, <2>4, <2>5
  <2> QED BY <2>6 DEF SupplyIsOwed, Principals
<1>3. DebtsComputable'
  BY DEF Inv, DebtsComputable, getVAIMinterInterestIndex, debts, accrual
<1>4. VAIOnlyInCorePool'
  BY DEF Inv, VAIOnlyInCorePool, debts
<1> QED BY <1>1, <1>2, <1>3, <1>4 DEF Inv

\* What PegStability mints is at most what it gets.
LEMMA SwapInStep ==
  ASSUME Inv, NEW a \in Accounts, NEW amount \in Nat, NEW price \in Nat,
         SwapStableForVAI(a, amount, price)
  PROVE  Inv'
<1> DEFINE usd == usdIn(amount, price)
           fee == feeOf(usd, psm.feeIn)
<1>1. /\ psm' = [psm EXCEPT !.vaiMinted = @ + usd, !.stable = @ + amount]
      /\ balanceOf' = [balanceOf EXCEPT ![a] = @ + (usd - fee), ![treasury] = @ + fee]
      /\ UNCHANGED <<userPoolId, debts, accrual, controller, blockNumber>>
  BY DEF SwapStableForVAI
<1>2. psm \in PegStability /\ BASIS_POINTS_DIVISOR \in Nat \ {0} /\ expScale \in Nat \ {0}
  BY VAIAssumption, ExpScaleAssumption DEF Inv, TypeOK
<1>3. usd \in 0 .. amount
  <2>1. Smaller(price, expScale) \in 0 .. expScale
    BY <1>2 DEF Smaller
  <2> QED BY <2>1, MulFraction DEF usdIn
<1>4. fee \in 0 .. usd
  <2> HIDE DEF usd
  <2>1. psm.feeIn \in Nat /\ psm.feeIn <= BASIS_POINTS_DIVISOR
    BY <1>2 DEF PegStability
  <2>2. usd \in Nat
    BY <1>3
  <2> QED BY <2>1, <2>2, FeeBounds
<1> HIDE DEF usd, fee
<1>5. psm' \in PegStability /\ psm'.vaiMinted - psm.vaiMinted = usd /\ PegCovered'
  <2>1. /\ psm.vaiMinted \in Nat /\ psm.stable \in Nat
        /\ psm'.vaiMinted = psm.vaiMinted + usd /\ psm'.stable = psm.stable + amount
    BY <1>1, <1>2 DEF PegStability
  <2>2. psm'.vaiMinted \in Nat /\ psm'.stable \in Nat
    BY <1>3, <2>1
  <2>3. psm' \in PegStability
    BY <1>1, <1>2, <2>1, <2>2 DEF PegStability
  <2>4. psm.vaiMinted <= psm.stable
    BY DEF Inv, PegCovered
  <2> QED BY <1>3, <2>1, <2>3, <2>4 DEF PegCovered
<1>6. /\ balanceOf' \in [Holders -> Nat] /\ Total(balanceOf) \in Nat
      /\ Total(balanceOf)' = Total(balanceOf) + usd
  <2>1. a \in Holders /\ treasury \in Holders /\ a # treasury
    BY VAIAssumption DEF Holders
  <2>2. usd - fee \in Int /\ fee \in Int /\ usd - fee >= 0 /\ fee >= 0
    BY <1>3, <1>4
  <2>3. balanceOf[a] + (usd - fee) \in Nat /\ balanceOf[treasury] + fee \in Nat
    BY <2>1, <2>2 DEF Inv, TypeOK
  <2>4. /\ balanceOf' \in [Holders -> Nat] /\ Total(balanceOf) \in Nat
        /\ Total(balanceOf)' = Total(balanceOf) + (usd - fee) + fee
    BY <1>1, <2>1, <2>2, <2>3, SupplyOfTwo
  <2> QED BY <1>3, <1>4, <2>4
<1> QED BY <1>1, <1>5, <1>6, SwapStep

\* What PegStability pays is at most what it burns.
LEMMA SwapOutStep ==
  ASSUME Inv, NEW a \in Accounts, NEW amount \in Nat, NEW price \in Nat,
         SwapVAIForStable(a, amount, price)
  PROVE  Inv'
<1> DEFINE usd == usdOut(amount, price)
           fee == feeOf(usd, psm.feeOut)
<1>1. /\ balanceOf[a] >= usd + fee
      /\ psm.vaiMinted >= usd /\ psm.stable >= amount
      /\ psm' = [psm EXCEPT !.vaiMinted = @ - usd, !.stable = @ - amount]
      /\ balanceOf' = [balanceOf EXCEPT ![a] = @ - (usd + fee), ![treasury] = @ + fee]
      /\ UNCHANGED <<userPoolId, debts, accrual, controller, blockNumber>>
  BY DEF SwapVAIForStable
<1>2. psm \in PegStability /\ BASIS_POINTS_DIVISOR \in Nat \ {0} /\ expScale \in Nat \ {0}
  BY VAIAssumption, ExpScaleAssumption DEF Inv, TypeOK
<1>3. usd \in Nat /\ amount <= usd
  <2>1. Larger(price, expScale) \in Nat /\ Larger(price, expScale) >= expScale
    BY <1>2 DEF Larger
  <2> QED BY <2>1, MulAtLeastOne DEF usdOut
<1>4. fee \in 0 .. usd
  <2> HIDE DEF usd
  <2>1. psm.feeOut \in Nat /\ psm.feeOut <= BASIS_POINTS_DIVISOR
    BY <1>2 DEF PegStability
  <2> QED BY <1>2, <1>3, <2>1, FeeBounds
<1> HIDE DEF usd, fee
<1>5. psm' \in PegStability /\ psm'.vaiMinted - psm.vaiMinted = 0 - usd /\ PegCovered'
  <2>1. /\ psm.vaiMinted \in Nat /\ psm.stable \in Nat
        /\ psm'.vaiMinted = psm.vaiMinted - usd /\ psm'.stable = psm.stable - amount
    BY <1>1, <1>2 DEF PegStability
  <2>2. psm'.vaiMinted \in Nat /\ psm'.stable \in Nat
    BY <1>1, <1>3, <2>1
  <2>3. psm' \in PegStability
    BY <1>1, <1>2, <2>1, <2>2 DEF PegStability
  <2>4. psm.vaiMinted <= psm.stable
    BY DEF Inv, PegCovered
  <2> QED BY <1>3, <2>1, <2>3, <2>4 DEF PegCovered
<1>6. /\ balanceOf' \in [Holders -> Nat] /\ Total(balanceOf) \in Nat
      /\ Total(balanceOf)' = Total(balanceOf) + (0 - usd)
  <2>1. a \in Holders /\ treasury \in Holders /\ a # treasury
    BY VAIAssumption DEF Holders
  <2>2. balanceOf \in [Holders -> Nat] /\ balanceOf[a] \in Nat /\ balanceOf[treasury] \in Nat
    BY <2>1 DEF Inv, TypeOK
  <2> DEFINE m == 0 - (usd + fee)
  <2>3. m \in Int /\ fee \in Int /\ balanceOf[a] + m = balanceOf[a] - (usd + fee)
    BY <1>3, <1>4, <2>2
  <2>4. balanceOf[a] + m \in Nat /\ balanceOf[treasury] + fee \in Nat
    BY <1>1, <1>3, <1>4, <2>2
  <2>5. balanceOf' = [balanceOf EXCEPT ![a] = @ + m, ![treasury] = @ + fee]
    BY <1>1, <2>3
  <2> HIDE DEF m
  <2>6. /\ balanceOf' \in [Holders -> Nat] /\ Total(balanceOf) \in Nat
        /\ Total(balanceOf)' = Total(balanceOf) + m + fee
    BY <2>1, <2>3, <2>4, <2>5, SupplyOfTwo
  <2> QED BY <1>3, <1>4, <2>6 DEF m
<1> QED BY <1>1, <1>5, <1>6, SwapStep

\* VAI that changes hands.
LEMMA TransferStep ==
  ASSUME Inv, NEW src \in Holders, NEW dst \in Holders, NEW amount \in Nat,
         Transfer(src, dst, amount)
  PROVE  Inv'
<1>1. /\ src # dst /\ balanceOf[src] >= amount
      /\ balanceOf' = [balanceOf EXCEPT ![src] = @ - amount, ![dst] = @ + amount]
      /\ UNCHANGED <<userPoolId, debts, accrual, controller, psm, blockNumber>>
  BY DEF Transfer
<1>2. balanceOf \in [Holders -> Nat] /\ balanceOf[src] \in Nat /\ balanceOf[dst] \in Nat
  BY DEF Inv, TypeOK
<1> DEFINE m == 0 - amount
<1>3. m \in Int /\ amount \in Int /\ balanceOf[src] + m = balanceOf[src] - amount
  BY <1>2
<1>4. balanceOf[src] + m \in Nat /\ balanceOf[dst] + amount \in Nat
  BY <1>1, <1>2
<1>5. balanceOf' = [balanceOf EXCEPT ![src] = @ + m, ![dst] = @ + amount]
  BY <1>1, <1>3
<1> HIDE DEF m
<1>6. /\ balanceOf' \in [Holders -> Nat] /\ Total(balanceOf) \in Nat
      /\ Total(balanceOf)' = Total(balanceOf) + m + amount
  <2>1. src # dst
    BY <1>1
  <2> QED BY <1>3, <1>4, <1>5, <2>1, SupplyOfTwo
<1>7. Total(balanceOf)' = Total(balanceOf) + (psm'.vaiMinted - psm.vaiMinted)
  BY <1>1, <1>6 DEF m, Inv, TypeOK, PegStability
<1>8. psm' \in PegStability /\ PegCovered'
  BY <1>1 DEF Inv, TypeOK, PegCovered
<1> QED BY <1>1, <1>6, <1>7, <1>8, SwapStep

\* The setters of PegStability touch neither counter.
LEMMA PsmStep ==
  ASSUME Inv, NEW p \in PegStability, SetPsm(p),
         p.vaiMinted = psm.vaiMinted, p.stable = psm.stable
  PROVE  Inv'
<1>1. /\ psm' = p /\ UNCHANGED balanceOf
      /\ UNCHANGED <<userPoolId, debts, accrual, controller, blockNumber>>
  BY DEF SetPsm
<1>2. /\ balanceOf' \in [Holders -> Nat] /\ balanceOf \in [Holders -> Nat]
      /\ psm' \in PegStability /\ PegCovered' /\ psm'.vaiMinted - psm.vaiMinted = 0
  BY <1>1 DEF Inv, TypeOK, PegCovered, PegStability
<1>3. Total(balanceOf) \in Nat
  BY <1>2, HoldersFinite, TotalBounds
<1>4. Total(balanceOf)' = Total(balanceOf)
  BY <1>1
<1>5. Total(balanceOf)' = Total(balanceOf) + (psm'.vaiMinted - psm.vaiMinted)
  BY <1>2, <1>3, <1>4
<1> QED BY <1>1, <1>2, <1>3, <1>5, SwapStep
-----------------------------------------------------------------------------
(* What a payment does to a debt. *)

\* A repayment of the share E of a debt: p is the principal, q and n the past
\* and the new interest, r the new interest that is left; growth is what the
\* index has gained, less than c whole units and one.
LEMMA RepaymentRounds ==
  ASSUME NEW S \in Nat \ {0}, NEW E \in Nat, E <= S,
         NEW p \in Nat, NEW q \in Nat, NEW n \in Nat, NEW r \in Nat,
         NEW growth \in Nat, NEW c \in Nat, growth <= c * S,
         NEW burn \in Nat, burn <= p, NEW current \in Nat, NEW past \in Nat,
         n * S <= growth * p, growth * p < n * S + S,
         r * S <= growth * (p - burn), growth * (p - burn) < r * S + S,
         burn * S <= E * p, E * p < burn * S + S,
         current * S <= E * (q + n), E * (q + n) < current * S + S,
         past * S <= E * q, E * q < past * S + S
  PROVE  /\ n - r - current + past <= 1
         /\ n - r - current + past >= 0 - (1 + c)
<1> DEFINE T == n - r - current + past
           gp == growth * p
           rest == growth * (p - burn)
<1>1. gp \in Nat /\ rest \in Nat /\ p - burn \in Nat /\ S - E \in Nat /\ T \in Int
  OBVIOUS
<1>2. S * rest = S * gp - growth * (burn * S)
  OBVIOUS
<1>3. T * S = n * S - r * S - current * S + past * S
  OBVIOUS
<1>4. E * (q + n) = E * q + E * n
  OBVIOUS
<1>5. T <= 1
  <2>1. growth * (burn * S) <= growth * (E * p)
    <3>1. burn * S \in Nat /\ E * p \in Nat
      OBVIOUS
    <3> QED BY <3>1, MulMonotone
  <2>2. growth * (E * p) = E * gp
    OBVIOUS
  <2>3. (S - E) * (n * S) <= (S - E) * gp
    BY <1>1, MulMonotone
  <2>4. (S - E) * gp = S * gp - E * gp
    BY <1>1
  <2>5. (S - E) * (n * S) = ((S - E) * n) * S
    BY <1>1
  <2>6. ((S - E) * n) * S <= rest * S
    BY <1>1, <1>2, <2>1, <2>2, <2>3, <2>4, <2>5
  <2>7. (S - E) * n <= rest
    BY <1>1, <2>6, MulCancel
  <2>8. (S - E) * n = n * S - E * n
    BY <1>1
  <2>9. T * S < 2 * S
    BY <1>1, <1>3, <1>4, <2>7, <2>8
  <2> HIDE DEF T
  <2>10. CASE T \in Nat
    BY <2>9, <2>10, MulCancel
  <2> QED BY <1>1, <2>10
<1>6. T >= 0 - (1 + c)
  <2>1. growth * (E * p) <= growth * (burn * S + S)
    <3>1. burn * S + S \in Nat /\ E * p \in Nat
      OBVIOUS
    <3> QED BY <3>1, MulMonotone
  <2>2. growth * (E * p) = E * gp /\ growth * (burn * S + S) = growth * (burn * S) + growth * S
    OBVIOUS
  <2>3. (S - E) * gp <= (S - E) * (n * S + S)
    <3>1. n * S + S \in Nat
      OBVIOUS
    <3> QED BY <1>1, <3>1, MulMonotone
  <2>4. (S - E) * gp = S * gp - E * gp
    BY <1>1
  <2> DEFINE k == (S - E) * (n + 1) + growth
  <2>5. k \in Nat /\ (S - E) * (n * S + S) + growth * S = k * S
    BY <1>1
  <2>6. rest * S <= k * S
    BY <1>1, <1>2, <2>1, <2>2, <2>3, <2>4, <2>5
  <2>7. rest <= k
    BY <1>1, <2>5, <2>6, MulCancel
  <2>8. k = n * S - E * n + S - E + growth
    BY <1>1
  <2>9. 0 < (T + 2 + c) * S
    <3>1. (T + 2 + c) * S = T * S + 2 * S + c * S
      BY <1>1
    <3> QED BY <1>1, <1>3, <1>4, <2>7, <2>8, <3>1
  <2> HIDE DEF T, k
  <2>10. T + 2 + c > 0
    <3> SUFFICES ASSUME T + 2 + c <= 0 PROVE FALSE
      BY <1>1
    <3>1. (T + 2 + c) * S <= 0
      BY <1>1
    <3> QED BY <1>1, <2>9, <3>1
  <2> QED BY <1>1, <2>10
<1> QED BY <1>5, <1>6

\* The debt after a step, from its parts.
LEMMA DebtAfter ==
  ASSUME NEW a \in Accounts
  PROVE  getVAIRepayAmount(a, vaiMintIndex)'
           = mintedVAIs'[a]
             + mulScalarTruncate(vaiMintIndex' - getVAIMinterInterestIndex(a)', principal(a)')
  BY DEF getVAIRepayAmount, newInterest

\* A debt that nobody touches has the same size at the same index.
LEMMA UntouchedFollows ==
  ASSUME NEW a \in Accounts, mintedVAIs'[a] = mintedVAIs[a],
         pastVAIInterest'[a] = pastVAIInterest[a],
         vaiMinterInterestIndex'[a] = vaiMinterInterestIndex[a]
  PROVE  followsPayments(a)
<1>1. getVAIRepayAmount(a, vaiMintIndex)' = getVAIRepayAmount(a, vaiMintIndex')
  BY DEF getVAIRepayAmount, newInterest, principal, getVAIMinterInterestIndex
<1> QED BY <1>1 DEF followsPayments

\* Minting adds the amount to the debt and to the supply.
LEMMA MintFollows ==
  ASSUME Inv, NEW minter \in Accounts, NEW amount \in Nat, NEW collateral \in Nat,
         MintVAI(minter, amount, collateral), NEW a \in Accounts
  PROVE  followsPayments(a)
<1>1. PICK index \in AccruedIndices :
        /\ accrueTo(index)
        /\ pastVAIInterest' = [pastVAIInterest EXCEPT ![minter] = @ + newInterest(minter, index)]
        /\ mintedVAIs' = [mintedVAIs EXCEPT ![minter] = getVAIRepayAmount(minter, index) + amount]
        /\ vaiMinterInterestIndex' = [vaiMinterInterestIndex EXCEPT ![minter] = index]
        /\ balanceOf' =
             [balanceOf EXCEPT
                ![treasury] = @ + mulScalarTruncate(controller.treasuryPercent, amount),
                ![minter] = @ + (amount - mulScalarTruncate(controller.treasuryPercent, amount))]
  BY DEF MintVAI
<1>2. CASE a # minter
  BY <1>1, <1>2, UntouchedFollows DEF Inv, TypeOK
<1>3. CASE a = minter
  <2> DEFINE owed == getVAIRepayAmount(a, index)
             after == getVAIRepayAmount(a, vaiMintIndex)'
  <2>1. index \in Nat /\ vaiMintIndex <= index /\ vaiMintIndex' = index
    BY <1>1, IndexGrows DEF accrueTo
  <2>2. owed \in Nat
    BY <2>1, DebtFacts DEF Inv, TypeOK
  <2>3. /\ mintedVAIs'[a] = owed + amount
        /\ vaiMinterInterestIndex'[a] = index
    BY <1>1, <1>3 DEF Inv, TypeOK
  <2>4. principal(a)' \in Nat
    BY MintStep, <1>3 DEF Inv, TypeOK, DebtsComputable, principal
  <2>5. getVAIMinterInterestIndex(a)' = index
    <3>1. getVAIMinterInterestIndex(a) <= vaiMintIndex
      BY DEF Inv, DebtsComputable
    <3>2. index # 0
      BY <2>1, <3>1, ExpScaleAssumption
         DEF getVAIMinterInterestIndex, INITIAL_VAI_MINT_INDEX, Inv, TypeOK
    <3> QED BY <2>3, <3>2 DEF getVAIMinterInterestIndex
  <2>6. mulScalarTruncate(0, principal(a)') = 0
    BY <2>4, ExpScaleAssumption DEF mulScalarTruncate, truncate
  <2>7. after = owed + amount
    BY <2>1, <2>2, <2>3, <2>5, <2>6, DebtAfter
  <2>8. Total(balanceOf') - Total(balanceOf) = amount
    BY MintSupply
  <2> HIDE DEF owed, after
  <2>9. \/ after = owed
        \/ after > owed /\ after - owed = Total(balanceOf') - Total(balanceOf)
    BY <2>2, <2>7, <2>8
  <2> QED BY <2>1, <2>9 DEF followsPayments, owed, after
<1> QED BY <1>2, <1>3

\* Interest in units of c is at least what a unit bears.
LEMMA UnitsAbove ==
  ASSUME NEW growth \in Nat
  PROVE  LET c == (growth + expScale - 1) \div expScale
         IN  c \in Nat /\ growth <= c * expScale
<1>1. expScale \in Nat \ {0} /\ growth + expScale - 1 \in Nat
  BY ExpScaleAssumption
<1> DEFINE c == (growth + expScale - 1) \div expScale
<1>2. c \in Nat /\ growth + expScale - 1 < c * expScale + expScale
  BY <1>1, DivBounds
<1> HIDE DEF c
<1>3. c * expScale \in Nat
  BY <1>1, <1>2
<1> QED BY <1>1, <1>2, <1>3 DEF c

\* A share is truncated once.
LEMMA ShareRounds ==
  ASSUME NEW part \in Nat, NEW amount \in Nat, NEW total \in Nat, amount < total
  PROVE  /\ shareOf(part, amount, total) * expScale <= getExp(amount, total) * part
         /\ getExp(amount, total) * part < shareOf(part, amount, total) * expScale + expScale
<1>1. getExp(amount, total) \in Nat
  BY FractionOfTotal, ExpScaleAssumption
<1>2. shareOf(part, amount, total) = mulScalarTruncate(getExp(amount, total), part)
  BY DEF shareOf
<1> QED BY <1>1, <1>2, MulScalarBounds

\* Interest on a smaller principal is not more.
LEMMA InterestMonotone ==
  ASSUME NEW growth \in Nat, NEW x \in Nat, NEW y \in Nat, x <= y
  PROVE  mulScalarTruncate(growth, x) <= mulScalarTruncate(growth, y)
<1>1. growth * x <= growth * y
  BY MulMonotone
<1>2. expScale \in Nat \ {0} /\ growth * y \in Nat
  BY ExpScaleAssumption
<1> DEFINE m == mulScalarTruncate(growth, x)
<1>3. m \in Nat /\ m * expScale <= growth * x
  BY MulScalarBounds
<1> HIDE DEF m
<1>4. m * expScale <= growth * y
  BY <1>1, <1>2, <1>3
<1>5. m <= (growth * y) \div expScale
  BY <1>2, <1>3, <1>4, DivGreatest
<1> QED BY <1>5 DEF m, mulScalarTruncate, truncate

\* A repayment takes what is paid from the debt, up to the roundings.
LEMMA RepayFollows ==
  ASSUME Inv, NEW payer \in Accounts, NEW b \in Accounts, NEW amount \in Nat,
         NEW index \in AccruedIndices, repayVAIFresh(payer, b, amount, index),
         NEW a \in Accounts
  PROVE  followsPayments(a)
<1> DEFINE parts == getVAICalculateRepayAmount(b, amount, index)
           burn == parts.burn
           current == parts.currentInterest
           past == parts.pastInterest
           p == principal(b)
           q == pastVAIInterest[b]
           n == newInterest(b, index)
           total == getVAIRepayAmount(b, index)
           growth == index - getVAIMinterInterestIndex(b)
           r == mulScalarTruncate(growth, p - burn)
           after == getVAIRepayAmount(b, vaiMintIndex)'
           c == (growth + expScale - 1) \div expScale
           paid == burn + current
<1>1. index \in Nat /\ vaiMintIndex <= index
  BY IndexGrows
<1>2. burn \in 0 .. p /\ current \in Nat /\ past \in 0 .. q
  BY <1>1, PartsBounded
<1>3. /\ accrueTo(index)
      /\ mintedVAIs' = [mintedVAIs EXCEPT ![b] = @ - (burn + past)]
      /\ pastVAIInterest' = [pastVAIInterest EXCEPT ![b] = @ - past]
      /\ UNCHANGED vaiMinterInterestIndex
  BY DEF repayVAIFresh
<1>4. CASE a # b
  BY <1>3, <1>4, UntouchedFollows DEF Inv, TypeOK
<1>5. CASE a = b
  <2>1. /\ p \in Nat /\ q \in Nat /\ n \in Nat /\ mintedVAIs[b] = p + q
        /\ total = p + q + n
    BY <1>1, DebtFacts DEF Inv, TypeOK
  <2>2. growth \in Nat
    BY <1>1, ExpScaleAssumption
       DEF Inv, TypeOK, DebtsComputable, getVAIMinterInterestIndex, INITIAL_VAI_MINT_INDEX
  <2>3. n = mulScalarTruncate(growth, p)
    BY DEF newInterest
  <2>4. /\ burn = shareOf(p, amount, total)
        /\ current = shareOf(q + n, amount, total)
        /\ past = shareOf(q, amount, total)
    BY DEF getVAICalculateRepayAmount
  <2>5. /\ Total(balanceOf) \in Nat /\ Total(balanceOf') = Total(balanceOf) - burn
        /\ balanceOf[treasury] \in Nat
        /\ balanceOf'[treasury] = balanceOf[treasury] + current
    BY RepaySupply
  <2>6. vaiMintIndex' = index /\ getVAIMinterInterestIndex(b)' = getVAIMinterInterestIndex(b)
    BY <1>3 DEF accrueTo, getVAIMinterInterestIndex
  <2>7. /\ mintedVAIs'[b] = (p + q) - (burn + past)
        /\ pastVAIInterest'[b] = q - past
    <3> HIDE DEF burn, past
    <3>1. mintedVAIs \in [Accounts -> Nat] /\ pastVAIInterest \in [Accounts -> Nat]
      BY DEF Inv, TypeOK
    <3>2. /\ mintedVAIs'[b] = mintedVAIs[b] - (burn + past)
          /\ pastVAIInterest'[b] = q - past
      BY <1>3, <3>1
    <3> QED BY <2>1, <3>2
  <2>8. principal(b)' = p - burn
    <3>1. principal(b)' = mintedVAIs'[b] - pastVAIInterest'[b]
      BY DEF principal
    <3> HIDE DEF p, q, burn, past
    <3> QED BY <1>2, <2>1, <2>7, <3>1
  <2>9. after = ((p + q) - (burn + past)) + r
    <3>1. after = mintedVAIs'[b]
                  + mulScalarTruncate(vaiMintIndex' - getVAIMinterInterestIndex(b)',
                                      principal(b)')
      BY DebtAfter
    <3> HIDE DEF p, q, burn, past, after
    <3> QED BY <2>6, <2>7, <2>8, <3>1
  <2>10. r \in Nat /\ r <= n
    <3> HIDE DEF p, burn, growth
    <3>1. p - burn \in Nat /\ p - burn <= p
      BY <1>2, <2>1
    <3> QED BY <2>1, <2>2, <2>3, <3>1, MulScalarBounds, InterestMonotone
  <2>11. c \in Nat /\ growth <= c * expScale
    <3> HIDE DEF growth
    <3> QED BY <2>2, UnitsAbove
  <2>12. total - after = paid \/
         (total - after <= paid + 1 /\ total - after >= paid - (1 + c))
    <3>1. CASE amount >= total
      <4>1. burn = p /\ current = q + n /\ past = q
        BY <2>4, <3>1 DEF shareOf
      <4>2. p - burn = 0
        BY <2>1, <4>1
      <4>3. r = 0
        BY <2>2, <4>2, ExpScaleAssumption DEF mulScalarTruncate, truncate
      <4> HIDE DEF p, q, n, r, burn, current, past, total, after
      <4> QED BY <2>1, <2>9, <4>1, <4>3
    <3>2. CASE amount < total
      <4> DEFINE E == getExp(amount, total)
      <4>1. total \in Nat /\ q + n \in Nat
        <5> HIDE DEF p, q, n, total
        <5> QED BY <2>1
      <4>2. E \in 0 .. expScale /\ expScale \in Nat \ {0}
        <5> HIDE DEF total
        <5> QED BY <3>2, <4>1, FractionOfTotal, ExpScaleAssumption
      <4>3. /\ burn * expScale <= E * p /\ E * p < burn * expScale + expScale
            /\ current * expScale <= E * (q + n)
            /\ E * (q + n) < current * expScale + expScale
            /\ past * expScale <= E * q /\ E * q < past * expScale + expScale
        <5> HIDE DEF p, q, n, total, burn, current, past
        <5> QED BY <2>1, <2>4, <3>2, <4>1, ShareRounds
      <4> HIDE DEF p, q, n, r, burn, current, past, total, after, growth, c, E
      <4>4. /\ n * expScale <= growth * p /\ growth * p < n * expScale + expScale
        BY <2>1, <2>2, <2>3, MulScalarBounds
      <4>5. p - burn \in Nat /\ burn \in Nat /\ burn <= p /\ past \in Nat
        BY <1>2, <2>1
      <4>6. /\ r * expScale <= growth * (p - burn)
            /\ growth * (p - burn) < r * expScale + expScale
        BY <2>2, <4>5, MulScalarBounds DEF r
      <4>7. /\ n - r - current + past <= 1
            /\ n - r - current + past >= 0 - (1 + c)
        <5>1. E \in Nat /\ E <= expScale
          BY <4>2
        <5> QED BY <1>2, <2>1, <2>2, <2>10, <2>11, <4>2, <4>3, <4>4, <4>5, <4>6, <5>1,
                   RepaymentRounds
      <4> QED BY <1>2, <2>1, <2>9, <2>10, <2>11, <4>5, <4>7
    <3> QED BY <2>1, <3>1, <3>2
  <2>13. after <= total
    <3> HIDE DEF p, q, n, r, burn, current, past, total, after
    <3> QED BY <1>2, <2>1, <2>9, <2>10
  <2>14. after \in Int /\ total \in Int /\ paid \in Int
    <3> HIDE DEF p, q, n, r, burn, current, past, total, after
    <3> QED BY <1>2, <2>1, <2>9, <2>10
  <2>15. paid = (Total(balanceOf) - balanceOf[treasury])
                  - (Total(balanceOf') - balanceOf'[treasury])
    <3>1. burn \in Int
      <4> HIDE DEF p, burn
      <4> QED BY <1>2, <2>1
    <3> HIDE DEF burn, current
    <3> QED BY <1>2, <2>5, <3>1
  <2>16. after = total \/ (after < total /\ total - after \in (paid - (1 + c)) .. (paid + 1))
    <3> HIDE DEF total, after, paid, c
    <3> QED BY <2>11, <2>12, <2>13, <2>14
  <2> HIDE DEF paid, after
  <2> QED BY <1>5, <2>6, <2>15, <2>16 DEF followsPayments, after
<1> QED BY <1>4, <1>5

\* Every step follows the payments.
LEMMA StepFollows ==
  ASSUME Inv, [Next]_vars, NEW a \in Accounts
  PROVE  followsPayments(a)
<1>1. ASSUME UNCHANGED debts PROVE followsPayments(a)
  BY <1>1, UntouchedFollows DEF debts
<1>2. CASE UserStep
  <2>1. CASE \E b \in Accounts, amount \in Amounts, collateral \in Collaterals :
               MintVAI(b, amount, collateral)
    BY <2>1, MintFollows, VAIAssumption
  <2>2. CASE \E b, d \in Accounts, amount \in Amounts : RepayVAI(b, d, amount)
    BY <2>2, RepayFollows, VAIAssumption DEF RepayVAI
  <2>3. CASE \E b, d \in Accounts, amount \in Amounts, forced \in BOOLEAN :
               LiquidateVAI(b, d, amount, forced)
    BY <2>3, RepayFollows, VAIAssumption DEF LiquidateVAI
  <2>4. CASE \E b \in Accounts, amount \in Amounts, price \in Prices :
               SwapStableForVAI(b, amount, price) \/ SwapVAIForStable(b, amount, price)
    BY <1>1, <2>4 DEF SwapStableForVAI, SwapVAIForStable
  <2>5. CASE \E b \in Accounts, pool \in PoolIds : EnterPool(b, pool)
    BY <1>1, <2>5 DEF EnterPool
  <2> QED BY <1>2, <2>1, <2>2, <2>3, <2>4, <2>5 DEF UserStep
<1>3. CASE GovernanceStep
  BY <1>1, <1>3
     DEF GovernanceStep, SetBaseRate, SetFloatRate, SetMintCap, SetTreasuryPercent,
         SetProtocolPaused, SetController, SetFeeIn, SetFeeOut, SetVAIMintCap, SetPaused, SetPsm
<1>4. CASE AccrueVAIInterest \/ NextBlock
  BY <1>1, <1>4 DEF AccrueVAIInterest, NextBlock
<1>5. CASE \E src, dst \in Holders, amount \in Amounts : Transfer(src, dst, amount)
  BY <1>1, <1>5 DEF Transfer
<1>6. CASE UNCHANGED vars
  BY <1>1, <1>6 DEF vars
<1> QED BY <1>2, <1>3, <1>4, <1>5, <1>6 DEF Next
-----------------------------------------------------------------------------
(* The theorems. *)

\* The invariant holds initially.
LEMMA InitEstablishes == Init => Inv
<1> SUFFICES ASSUME Init PROVE Inv
  OBVIOUS
<1>1. PICK cap \in MintCaps, pegCap \in MintCaps, feeIn \in Fees, feeOut \in Fees :
        InitWith(<<0, 0>>, cap, [vaiMinted |-> 0, stable |-> 0, vaiMintCap |-> pegCap,
                                 isPaused |-> FALSE, feeIn |-> feeIn, feeOut |-> feeOut])
  BY DEF Init
<1>2. /\ cap \in Nat /\ pegCap \in Nat /\ expScale \in Nat \ {0}
      /\ feeIn \in 0 .. BASIS_POINTS_DIVISOR - 1 /\ feeOut \in 0 .. BASIS_POINTS_DIVISOR - 1
      /\ CORE_POOL_ID \in PoolIds
  BY VAIAssumption, ExpScaleAssumption
<1>3. psm = [vaiMinted |-> 0, stable |-> 0, vaiMintCap |-> pegCap,
             isPaused |-> FALSE, feeIn |-> feeIn, feeOut |-> feeOut]
  BY <1>1 DEF InitWith
<1>4. psm \in PegStability /\ PegCovered
  BY <1>2, <1>3 DEF PegStability, PegCovered
<1>5. controller \in Controller
  BY <1>1, <1>2 DEF InitWith, Controller
<1>6. TypeOK /\ AccrualOrdered
  BY <1>1, <1>2, <1>4, <1>5
     DEF InitWith, TypeOK, AccrualOrdered, INITIAL_VAI_MINT_INDEX
<1>7. DebtsComputable /\ VAIOnlyInCorePool
  BY <1>1, <1>2 DEF InitWith, DebtsComputable, VAIOnlyInCorePool,
                    getVAIMinterInterestIndex, INITIAL_VAI_MINT_INDEX
<1>8. SupplyIsOwed
  <2>1. balanceOf \in [Holders -> Nat] /\ \A h \in Holders : balanceOf[h] = 0
    BY <1>1 DEF InitWith
  <2>2. Principals \in [Accounts -> Nat] /\ \A a \in Accounts : Principals[a] = 0
    BY <1>1 DEF InitWith, Principals, principal
  <2>3. Total(balanceOf) = 0 /\ Total(Principals) = 0
    BY <2>1, <2>2, TotalZero
  <2> QED BY <1>3, <2>3 DEF SupplyIsOwed, Principals
<1> QED BY <1>4, <1>6, <1>7, <1>8 DEF Inv

\* The steps of users keep the invariant.
LEMMA UserStepPreserves == Inv /\ UserStep => Inv'
<1> SUFFICES ASSUME Inv, UserStep PROVE Inv'
  OBVIOUS
<1>1. CASE \E a \in Accounts, amount \in Amounts, collateral \in Collaterals :
             MintVAI(a, amount, collateral)
  BY <1>1, MintStep, VAIAssumption
<1>2. CASE \E a, b \in Accounts, amount \in Amounts : RepayVAI(a, b, amount)
  BY <1>2, RepayStep, VAIAssumption DEF RepayVAI
<1>3. CASE \E a, b \in Accounts, amount \in Amounts, forced \in BOOLEAN :
             LiquidateVAI(a, b, amount, forced)
  BY <1>3, RepayStep, VAIAssumption DEF LiquidateVAI
<1>4. CASE \E a \in Accounts, amount \in Amounts, price \in Prices :
             SwapStableForVAI(a, amount, price)
  BY <1>4, SwapInStep, VAIAssumption
<1>5. CASE \E a \in Accounts, amount \in Amounts, price \in Prices :
             SwapVAIForStable(a, amount, price)
  BY <1>5, SwapOutStep, VAIAssumption
<1>6. ASSUME NEW a \in Accounts, NEW pool \in PoolIds, EnterPool(a, pool) PROVE Inv'
  <2>1. /\ hasValidPoolBorrows(a, pool)
        /\ userPoolId' = [userPoolId EXCEPT ![a] = pool]
        /\ UNCHANGED <<balanceOf, debts, accrual, controller, psm, blockNumber>>
    BY <1>6 DEF EnterPool
  <2>2. userPoolId' \in [Accounts -> PoolIds]
    BY <2>1 DEF Inv, TypeOK
  <2>3. \A c \in Accounts : mintedVAIs[c] > 0 => userPoolId'[c] = userPoolId[c]
    BY <2>1 DEF Inv, TypeOK, VAIOnlyInCorePool, hasValidPoolBorrows
  <2> QED BY <2>1, <2>2, <2>3, QuietStep DEF Inv, TypeOK, AccrualOrdered, accrual
<1> QED BY <1>1, <1>2, <1>3, <1>4, <1>5, <1>6 DEF UserStep

\* The steps of governance keep the invariant.
LEMMA GovernanceStepPreserves == Inv /\ GovernanceStep => Inv'
<1> SUFFICES ASSUME Inv, GovernanceStep PROVE Inv'
  OBVIOUS
<1>1. ASSUME NEW c \in Controller, SetController(c) PROVE Inv'
  BY <1>1, QuietStep DEF SetController, Inv, TypeOK, AccrualOrdered, accrual
<1>2. controller \in Controller /\ psm \in PegStability
  BY DEF Inv, TypeOK
<1>3. ASSUME NEW rate \in Rates, SetBaseRate(rate) \/ SetFloatRate(rate) PROVE Inv'
  BY <1>1, <1>2, <1>3, VAIAssumption DEF SetBaseRate, SetFloatRate, Controller
<1>4. ASSUME NEW cap \in MintCaps, SetMintCap(cap) PROVE Inv'
  BY <1>1, <1>2, <1>4, VAIAssumption DEF SetMintCap, Controller
<1>5. ASSUME NEW cap \in MintCaps, SetVAIMintCap(cap) PROVE Inv'
  BY <1>2, <1>5, PsmStep, VAIAssumption DEF SetVAIMintCap, PegStability
<1>6. ASSUME NEW percent \in TreasuryPercents, SetTreasuryPercent(percent) PROVE Inv'
  BY <1>1, <1>2, <1>6, VAIAssumption DEF SetTreasuryPercent, Controller
<1>7. ASSUME NEW fee \in Fees, SetFeeIn(fee) \/ SetFeeOut(fee) PROVE Inv'
  BY <1>2, <1>7, PsmStep, VAIAssumption DEF SetFeeIn, SetFeeOut, PegStability
<1>8. ASSUME NEW paused \in BOOLEAN, SetProtocolPaused(paused) PROVE Inv'
  BY <1>1, <1>2, <1>8 DEF SetProtocolPaused, Controller
<1>9. ASSUME NEW paused \in BOOLEAN, SetPaused(paused) PROVE Inv'
  BY <1>2, <1>9, PsmStep DEF SetPaused, PegStability
<1> QED BY <1>3, <1>4, <1>5, <1>6, <1>7, <1>8, <1>9 DEF GovernanceStep

\* Every step keeps the invariant.
LEMMA StepPreserves == Inv /\ [Next]_vars => Inv'
<1> SUFFICES ASSUME Inv, [Next]_vars PROVE Inv'
  OBVIOUS
<1>1. CASE UserStep
  BY <1>1, UserStepPreserves
<1>2. CASE GovernanceStep
  BY <1>2, GovernanceStepPreserves
<1>3. CASE AccrueVAIInterest
  <2>1. PICK index \in AccruedIndices : accrueTo(index)
    BY <1>3 DEF AccrueVAIInterest
  <2>2. index \in Nat /\ vaiMintIndex <= index
    BY <2>1, IndexGrows
  <2> QED BY <1>3, <2>1, <2>2, QuietStep
          DEF AccrueVAIInterest, accrueTo, Inv, TypeOK, AccrualOrdered
<1>4. CASE NextBlock
  BY <1>4, QuietStep DEF NextBlock, Inv, TypeOK, AccrualOrdered, accrual
<1>5. CASE \E src, dst \in Holders, amount \in Amounts : Transfer(src, dst, amount)
  BY <1>5, TransferStep, VAIAssumption
<1>6. CASE UNCHANGED vars
  BY <1>6, QuietStep DEF vars, Inv, TypeOK, AccrualOrdered, accrual
<1> QED BY <1>1, <1>2, <1>3, <1>4, <1>5, <1>6 DEF Next

\* Inv holds in every reachable state.
THEOREM Invariance == Spec => []Inv
  BY InitEstablishes, StepPreserves, PTL DEF Spec

\* No balance, no debt and no counter ever falls below zero: a subtraction of
\* VAIController.sol or PegStability.sol that would revert is never reached
\* with the amounts that repayments and swaps compute.
THEOREM TypeCorrect == Spec => []TypeOK
<1>1. Inv => TypeOK
  BY DEF Inv
<1> QED BY <1>1, Invariance, PTL

\* getVAIRepayAmount never reverts, for no order of mints, partial repayments,
\* liquidations and changes of the rate.
THEOREM DebtsAlwaysComputable == Spec => []DebtsComputable
<1>1. Inv => DebtsComputable
  BY DEF Inv
<1> QED BY <1>1, Invariance, PTL

\* The supply of VAI is the principal that minters owe and what has been
\* swapped in.
THEOREM SupplyOwed == Spec => []SupplyIsOwed
<1>1. Inv => SupplyIsOwed
  BY DEF Inv
<1> QED BY <1>1, Invariance, PTL

\* PegStability holds a stablecoin for every VAI it has minted.
THEOREM PegIsCovered == Spec => []PegCovered
<1>1. Inv => PegCovered
  BY DEF Inv
<1> QED BY <1>1, Invariance, PTL

\* A debt changes only by what is minted to it or paid for it, up to what the
\* truncated shares of a repayment leave: no order of mints, partial repayments,
\* liquidations and new rates forgives interest, or charges it twice.
THEOREM DebtsAreFollowed == Spec => DebtsFollowPayments
<1>1. Inv /\ [Next]_vars => [\A a \in Accounts : followsPayments(a)]_vars
  BY StepFollows
<1> QED BY <1>1, Invariance, PTL DEF Spec, DebtsFollowPayments

\* Nobody who owes VAI leaves the core pool, and nobody outside it mints.
THEOREM MintersStayInCorePool == Spec => []VAIOnlyInCorePool
<1>1. Inv => VAIOnlyInCorePool
  BY DEF Inv
<1> QED BY <1>1, Invariance, PTL
=============================================================================
