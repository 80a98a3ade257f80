--------------------------- MODULE PeripheryProofs ---------------------------
(***************************************************************************)
(* The theorems of what is around the markets: the liquidator and the two  *)
(* vaults, for any depositors, markets, scale and amounts, and a market    *)
(* whose chain changes its block time, for any curve and any times.        *)
(***************************************************************************)
EXTENDS Periphery, InterestDue, ArithmeticProofs

-----------------------------------------------------------------------------
(* Each vault has the totals of ArithmeticProofs as its own. *)

\* The totals of the VAI vault are totals.
LEMMA VaiTotal == \A f : VaiVault!Total(f) = Total(f)
  BY DEF Total, Units, Cardinality,
         VaiVault!Total, VaiVault!Units, VaiVault!Cardinality

\* The totals of the VRT vault are totals.
LEMMA VrtTotal == \A f : VrtVault!Total(f) = Total(f)
  BY DEF Total, Units, Cardinality,
         VrtVault!Total, VrtVault!Units, VrtVault!Cardinality

\* What the assumptions of the vaults say.
LEMMA VaultsFacts ==
  /\ IsFiniteSet(Accounts)
  /\ Deposits \subseteq Nat \ {0} /\ Blocks \subseteq Nat
  /\ interestRatePerBlock \in Nat \ {0}
  /\ Rewards \cup Rates \cup MinReleases \subseteq Nat
<1>1. VaiVault!IsFiniteSet(Accounts) = IsFiniteSet(Accounts)
  BY DEF IsFiniteSet, VaiVault!IsFiniteSet
<1> QED BY <1>1, VaultsAssumption DEF VaiVault!VAIVaultAssumption, VrtVault!VRTVaultAssumption

\* The total of amounts of the depositors, and what one change does to it.
LEMMA DepositorsTotal ==
  \A f \in [Accounts -> Nat] :
    /\ Total(f) \in Nat
    /\ \A x \in Accounts : f[x] \in Nat /\ f[x] <= Total(f)
    /\ \A x \in Accounts, v \in Nat :
         Total([f EXCEPT ![x] = v]) = Total(f) - f[x] + v
  BY TotalExcept, TotalBounds, VaultsFacts
-----------------------------------------------------------------------------
(* The VRT vault. *)

\* The interest of a deposit, and the end of the accrual, as functions of what
\* they read.
Interest(user, end) ==
  IF user.accrualStartBlockNumber = 0 \/ user.accrualStartBlockNumber >= end THEN 0
  ELSE (user.totalPrincipalAmount * interestRatePerBlock
          * (end - user.accrualStartBlockNumber)) \div expScale
AccrualEnd(last, block) == IF block > last THEN last ELSE block

\* No accrual starts in the future, and none has started on a principal while
\* no end is set.
StartsPassed ==
  \A a \in Accounts :
    /\ vrtUsers[a].accrualStartBlockNumber <= vrtBlock
    /\ \/ lastAccruingBlock # 0
       \/ vrtUsers[a].accrualStartBlockNumber = 0
       \/ vrtUsers[a].totalPrincipalAmount = 0

VrtInv == VrtVault!TypeOK /\ StartsPassed /\ VrtVault!BooksAgree

\* Interest is a natural number.
LEMMA InterestType ==
  ASSUME NEW user \in VrtVault!UserInfo, NEW end \in Nat
  PROVE  Interest(user, end) \in Nat
<1> DEFINE s == user.accrualStartBlockNumber
           p == user.totalPrincipalAmount
<1>1. s \in Nat /\ p \in Nat
  BY DEF VrtVault!UserInfo
<1>2. CASE s = 0 \/ s >= end
  BY <1>2 DEF Interest
<1>3. CASE ~ (s = 0 \/ s >= end)
  <2>1. end - s \in Nat /\ p * interestRatePerBlock \in Nat
    BY <1>1, <1>3, VaultsFacts
  <2>2. p * interestRatePerBlock * (end - s) \in Nat
    BY <2>1
  <2> QED BY <1>3, <2>2, DivBounds, ExpScaleAssumption DEF Interest
<1> QED BY <1>2, <1>3

\* What the contract computes is Interest.
LEMMA AccruedIs ==
  /\ \A user : VrtVault!accruedInterest(user)
                 = Interest(user, AccrualEnd(lastAccruingBlock, vrtBlock))
  /\ VrtVault!newStart = AccrualEnd(lastAccruingBlock, vrtBlock)
     \/ ~ (lastAccruingBlock \in Nat /\ vrtBlock \in Nat)
BY DEF VrtVault!accruedInterest, VrtVault!endOfAccrual, VrtVault!newStart,
       Interest, AccrualEnd

\* The principals, and their total after one account changes.
Principals == [a \in Accounts |-> vrtUsers[a].totalPrincipalAmount]

LEMMA PrincipalsAfter ==
  ASSUME VrtVault!TypeOK, NEW a \in Accounts, NEW u \in VrtVault!UserInfo,
         vrtUsers' = [vrtUsers EXCEPT ![a] = u]
  PROVE  /\ Total(Principals) \in Nat /\ Total(Principals)' \in Nat
         /\ Total(Principals)' = Total(Principals) - vrtUsers[a].totalPrincipalAmount
                                   + u.totalPrincipalAmount
<1>1. /\ vrtUsers \in [Accounts -> VrtVault!UserInfo]
      /\ vrtUsers' \in [Accounts -> VrtVault!UserInfo]
      /\ u.totalPrincipalAmount \in Nat
  BY DEF VrtVault!TypeOK, VrtVault!UserInfo
<1>2. Principals \in [Accounts -> Nat] /\ Principals' \in [Accounts -> Nat]
  BY <1>1 DEF Principals, VrtVault!UserInfo
<1>3. Principals' = [Principals EXCEPT ![a] = u.totalPrincipalAmount]
  BY <1>1 DEF Principals
<1>5. Principals[a] = vrtUsers[a].totalPrincipalAmount
  BY DEF Principals
<1>6. Total([Principals EXCEPT ![a] = u.totalPrincipalAmount])
        = Total(Principals) - Principals[a] + u.totalPrincipalAmount
  BY <1>1, <1>2, DepositorsTotal, Zenon
<1>7. Total(Principals) \in Nat /\ Total(Principals)' \in Nat
  BY <1>2, DepositorsTotal
<1> QED BY <1>3, <1>5, <1>6, <1>7

\* The books in terms of Total.
LEMMA VrtBooks ==
  VrtVault!BooksAgree <=> vrt + Total(vrtReceived) = Total(Principals) + given
BY VrtTotal DEF VrtVault!BooksAgree, Principals

\* The end of the accrual now.
vrtEnd == AccrualEnd(lastAccruingBlock, vrtBlock)

\* What a call of a depositor does: it pays the interest up to now, and makes
\* the accrual of what remains start not before now.
Payment(a, u) ==
  LET i == Interest(vrtUsers[a], vrtEnd)
  IN  /\ vrtUsers' = [vrtUsers EXCEPT ![a] = u]
      /\ vrtReceived' = [vrtReceived EXCEPT ![a] = @ + i]
      /\ vrt >= i
      /\ vrt' = vrt - i + (u.totalPrincipalAmount - vrtUsers[a].totalPrincipalAmount)
      /\ vrt' >= 0
      /\ u.accrualStartBlockNumber <= vrtBlock /\ u.accrualStartBlockNumber >= vrtEnd
      /\ \/ lastAccruingBlock # 0
         \/ u.accrualStartBlockNumber = 0 \/ u.totalPrincipalAmount = 0
      /\ UNCHANGED <<lastAccruingBlock, vaultPaused, given, vrtBlock>>

\* What the parts of the state are, and what the contract reads of them.
LEMMA VrtState ==
  ASSUME VrtInv
  PROVE  /\ vrtUsers \in [Accounts -> VrtVault!UserInfo]
         /\ vrt \in Nat /\ lastAccruingBlock \in Nat /\ vrtBlock \in Nat /\ vrtEnd \in Nat
         /\ vrtReceived \in [Accounts -> Nat] /\ given \in Int
         /\ vrtEnd <= vrtBlock /\ (lastAccruingBlock = 0 => vrtEnd = 0)
         /\ \A user : VrtVault!accruedInterest(user) = Interest(user, vrtEnd)
         /\ VrtVault!newStart = vrtEnd
         /\ \A a \in Accounts : Interest(vrtUsers[a], vrtEnd) \in Nat
<1>1. /\ vrtUsers \in [Accounts -> VrtVault!UserInfo]
      /\ vrt \in Nat /\ lastAccruingBlock \in Nat /\ vrtBlock \in Nat /\ vrtEnd \in Nat
      /\ vrtReceived \in [Accounts -> Nat] /\ given \in Int
      /\ vrtEnd <= vrtBlock /\ (lastAccruingBlock = 0 => vrtEnd = 0)
  BY DEF VrtInv, VrtVault!TypeOK, AccrualEnd, vrtEnd
<1>2. \A user : VrtVault!accruedInterest(user) = Interest(user, vrtEnd)
  BY AccruedIs DEF vrtEnd
<1>3. VrtVault!newStart = vrtEnd
  BY <1>1, AccruedIs DEF vrtEnd
<1>4. \A a \in Accounts : Interest(vrtUsers[a], vrtEnd) \in Nat
  BY <1>1, InterestType
<1> QED BY <1>1, <1>2, <1>3, <1>4

\* Every call of a depositor is a payment.
LEMMA CallsPay ==
  ASSUME VrtInv, NEW a \in Accounts,
         \/ VrtVault!Claim(a) \/ VrtVault!Withdraw(a)
         \/ \E amount \in Deposits : VrtVault!Deposit(a, amount)
  PROVE  \E u \in VrtVault!UserInfo : Payment(a, u)
<1>1. /\ vrtUsers \in [Accounts -> VrtVault!UserInfo]
      /\ vrt \in Nat /\ vrtBlock \in Nat /\ vrtEnd \in Nat
      /\ vrtEnd <= vrtBlock /\ (lastAccruingBlock = 0 => vrtEnd = 0)
      /\ \A user : VrtVault!accruedInterest(user) = Interest(user, vrtEnd)
      /\ VrtVault!newStart = vrtEnd
      /\ \A b \in Accounts : Interest(vrtUsers[b], vrtEnd) \in Nat
  BY VrtState
<1>2. ASSUME NEW amount \in Deposits, VrtVault!Deposit(a, amount)
      PROVE  \E u \in VrtVault!UserInfo : Payment(a, u)
  <2> DEFINE u == [hasPosition |-> TRUE, accrualStartBlockNumber |-> vrtEnd,
                   totalPrincipalAmount |-> vrtUsers[a].totalPrincipalAmount + amount]
  <2>1. u \in VrtVault!UserInfo /\ amount \in Nat /\ vrtUsers[a].totalPrincipalAmount \in Nat
    BY <1>1, VaultsFacts DEF VrtVault!UserInfo
  <2>2. /\ vrtUsers' = [vrtUsers EXCEPT ![a] = u]
        /\ vrt >= Interest(vrtUsers[a], vrtEnd)
        /\ vrt' = (vrt - Interest(vrtUsers[a], vrtEnd)) + amount
        /\ vrtReceived' = [vrtReceived EXCEPT ![a] = @ + Interest(vrtUsers[a], vrtEnd)]
        /\ UNCHANGED <<lastAccruingBlock, vaultPaused, given, vrtBlock>>
    <3>1. vrtUsers' = [vrtUsers EXCEPT ![a] = u]
      BY <1>1, <1>2 DEF VrtVault!Deposit
    <3>2. vrt >= 0 + Interest(vrtUsers[a], vrtEnd)
      BY <1>1, <1>2, Zenon DEF VrtVault!Deposit, VrtVault!covers
    <3>3. /\ vrt' = (vrt - Interest(vrtUsers[a], vrtEnd)) + amount
          /\ vrtReceived' = [vrtReceived EXCEPT ![a] = @ + Interest(vrtUsers[a], vrtEnd)]
          /\ UNCHANGED <<lastAccruingBlock, vaultPaused, given, vrtBlock>>
      BY <1>1, <1>2, Zenon DEF VrtVault!Deposit
    <3> QED BY <1>1, <3>1, <3>2, <3>3
  <2>3. /\ u.accrualStartBlockNumber = vrtEnd
        /\ u.totalPrincipalAmount = vrtUsers[a].totalPrincipalAmount + amount
    OBVIOUS
  <2> DEFINE i == Interest(vrtUsers[a], vrtEnd)
  <2>4. /\ i \in Nat /\ vrt >= i
        /\ vrtReceived' = [vrtReceived EXCEPT ![a] = @ + i]
    BY <1>1, <2>1, <2>2, <1>1
  <2> HIDE DEF u
  <2>5. /\ vrt' = vrt - i + (u.totalPrincipalAmount - vrtUsers[a].totalPrincipalAmount)
        /\ vrt' >= 0
    BY <1>1, <2>1, <2>2, <2>3, <2>4
  <2>6. /\ u.accrualStartBlockNumber <= vrtBlock
        /\ u.accrualStartBlockNumber >= vrtEnd
        /\ \/ lastAccruingBlock # 0
           \/ u.accrualStartBlockNumber = 0 \/ u.totalPrincipalAmount = 0
    BY <1>1, <2>3
  <2> QED BY <2>1, <2>2, <2>4, <2>5, <2>6 DEF Payment
<1>3. ASSUME VrtVault!Claim(a) PROVE \E u \in VrtVault!UserInfo : Payment(a, u)
  <2> DEFINE u == [vrtUsers[a] EXCEPT !.accrualStartBlockNumber = vrtEnd]
  <2>1. u \in VrtVault!UserInfo /\ vrtUsers[a].totalPrincipalAmount \in Nat
    BY <1>1 DEF VrtVault!UserInfo
  <2>2. /\ vrtUsers' = [vrtUsers EXCEPT ![a] = u]
        /\ vrt >= Interest(vrtUsers[a], vrtEnd)
        /\ vrt' = vrt - Interest(vrtUsers[a], vrtEnd)
        /\ vrtReceived' = [vrtReceived EXCEPT ![a] = @ + Interest(vrtUsers[a], vrtEnd)]
        /\ UNCHANGED <<lastAccruingBlock, vaultPaused, given, vrtBlock>>
    <3>1. vrtUsers' = [vrtUsers EXCEPT ![a] = u]
      BY <1>1, <1>3 DEF VrtVault!Claim
    <3>2. vrt >= 0 + Interest(vrtUsers[a], vrtEnd)
      BY <1>1, <1>3, Zenon DEF VrtVault!Claim, VrtVault!covers
    <3>3. /\ vrt' = vrt - Interest(vrtUsers[a], vrtEnd)
          /\ vrtReceived' = [vrtReceived EXCEPT ![a] = @ + Interest(vrtUsers[a], vrtEnd)]
          /\ UNCHANGED <<lastAccruingBlock, vaultPaused, given, vrtBlock>>
      BY <1>1, <1>3, Zenon DEF VrtVault!Claim
    <3> QED BY <1>1, <3>1, <3>2, <3>3
  <2>3. /\ u.accrualStartBlockNumber = vrtEnd
        /\ u.totalPrincipalAmount = vrtUsers[a].totalPrincipalAmount
    BY <1>1 DEF VrtVault!UserInfo
  <2> DEFINE i == Interest(vrtUsers[a], vrtEnd)
  <2>4. /\ i \in Nat /\ vrt >= i
        /\ vrtReceived' = [vrtReceived EXCEPT ![a] = @ + i]
    BY <1>1, <2>1, <2>2, <1>1
  <2> HIDE DEF u
  <2>5. /\ vrt' = vrt - i + (u.totalPrincipalAmount - vrtUsers[a].totalPrincipalAmount)
        /\ vrt' >= 0
    BY <1>1, <2>1, <2>2, <2>3, <2>4
  <2>6. /\ u.accrualStartBlockNumber <= vrtBlock
        /\ u.accrualStartBlockNumber >= vrtEnd
        /\ \/ lastAccruingBlock # 0
           \/ u.accrualStartBlockNumber = 0 \/ u.totalPrincipalAmount = 0
    BY <1>1, <2>3
  <2> QED BY <2>1, <2>2, <2>4, <2>5, <2>6 DEF Payment
<1>4. ASSUME VrtVault!Withdraw(a) PROVE \E u \in VrtVault!UserInfo : Payment(a, u)
  <2> DEFINE u == [vrtUsers[a] EXCEPT !.totalPrincipalAmount = 0,
                                      !.accrualStartBlockNumber = vrtBlock]
  <2>1. u \in VrtVault!UserInfo /\ vrtUsers[a].totalPrincipalAmount \in Nat
    BY <1>1 DEF VrtVault!UserInfo
  <2>2. /\ vrtUsers' = [vrtUsers EXCEPT ![a] = u]
        /\ vrt >= vrtUsers[a].totalPrincipalAmount + Interest(vrtUsers[a], vrtEnd)
        /\ vrt' = vrt - (vrtUsers[a].totalPrincipalAmount + Interest(vrtUsers[a], vrtEnd))
        /\ vrtReceived' = [vrtReceived EXCEPT ![a] = @ + Interest(vrtUsers[a], vrtEnd)]
        /\ UNCHANGED <<lastAccruingBlock, vaultPaused, given, vrtBlock>>
    BY <1>1, <1>4, <2>1
    DEF VrtVault!Withdraw, VrtVault!covers, VrtVault!withdrawn
  <2>3. u.accrualStartBlockNumber = vrtBlock /\ u.totalPrincipalAmount = 0
    BY <1>1 DEF VrtVault!UserInfo
  <2> DEFINE i == Interest(vrtUsers[a], vrtEnd)
  <2>4. /\ i \in Nat /\ vrt >= i
        /\ vrtReceived' = [vrtReceived EXCEPT ![a] = @ + i]
    BY <1>1, <2>1, <2>2, <1>1
  <2> HIDE DEF u
  <2>5. /\ vrt' = vrt - i + (u.totalPrincipalAmount - vrtUsers[a].totalPrincipalAmount)
        /\ vrt' >= 0
    BY <1>1, <2>1, <2>2, <2>3, <2>4
  <2>6. /\ u.accrualStartBlockNumber <= vrtBlock
        /\ u.accrualStartBlockNumber >= vrtEnd
        /\ \/ lastAccruingBlock # 0
           \/ u.accrualStartBlockNumber = 0 \/ u.totalPrincipalAmount = 0
    BY <1>1, <2>3
  <2> QED BY <2>1, <2>2, <2>4, <2>5, <2>6 DEF Payment
<1> QED BY <1>2, <1>3, <1>4

\* A payment keeps the books.
LEMMA PayPreserves ==
  ASSUME VrtInv, NEW a \in Accounts, NEW u \in VrtVault!UserInfo, Payment(a, u)
  PROVE  VrtInv'
<1> DEFINE i == Interest(vrtUsers[a], vrtEnd)
<1>0. /\ i \in Nat
      /\ vrtUsers' = [vrtUsers EXCEPT ![a] = u]
      /\ vrtReceived' = [vrtReceived EXCEPT ![a] = @ + i]
      /\ vrt >= i
      /\ vrt' = vrt - i + (u.totalPrincipalAmount - vrtUsers[a].totalPrincipalAmount)
      /\ vrt' >= 0
      /\ u.accrualStartBlockNumber <= vrtBlock
      /\ \/ lastAccruingBlock # 0
         \/ u.accrualStartBlockNumber = 0 \/ u.totalPrincipalAmount = 0
      /\ UNCHANGED <<lastAccruingBlock, vaultPaused, given, vrtBlock>>
  BY VrtState DEF Payment
<1> HIDE DEF i
<1> USE DEF VrtInv
<1>1. VrtVault!TypeOK /\ VrtVault!TypeOK'
  BY <1>0 DEF VrtVault!TypeOK, VrtVault!UserInfo
<1>2. StartsPassed'
  BY <1>0, <1>1 DEF StartsPassed, VrtVault!TypeOK
<1>3. /\ Total(Principals) \in Nat /\ Total(Principals)' \in Nat
      /\ Total(Principals)' = Total(Principals) - vrtUsers[a].totalPrincipalAmount
                                + u.totalPrincipalAmount
  BY <1>0, PrincipalsAfter
<1>4. vrtReceived \in [Accounts -> Nat]
  BY <1>1 DEF VrtVault!TypeOK
<1>5. vrtReceived' = [vrtReceived EXCEPT ![a] = vrtReceived[a] + i] /\ vrtReceived[a] + i \in Nat
  BY <1>0, <1>4
<1>6. \A v \in Nat : Total([vrtReceived EXCEPT ![a] = v]) = Total(vrtReceived) - vrtReceived[a] + v
  BY <1>4, DepositorsTotal, Zenon
<1>7. Total(vrtReceived') = Total(vrtReceived) - vrtReceived[a] + (vrtReceived[a] + i)
  BY <1>5, <1>6
<1>8. Total(vrtReceived) \in Nat /\ vrtReceived[a] \in Nat
  BY <1>4, DepositorsTotal
<1>9. Total(vrtReceived') = Total(vrtReceived) + i
  BY <1>0, <1>7, <1>8
<1>10. vrt + Total(vrtReceived) = Total(Principals) + given
  BY VrtBooks
<1>11. vrt' + Total(vrtReceived') = Total(Principals)' + given'
  <2>1. vrt \in Nat /\ given \in Int /\ vrtUsers[a].totalPrincipalAmount \in Nat
        /\ u.totalPrincipalAmount \in Nat
    BY <1>1 DEF VrtVault!TypeOK, VrtVault!UserInfo
  <2> QED BY <2>1, <1>0, <1>3, <1>8, <1>9, <1>10
<1>12. VrtVault!BooksAgree'
  BY <1>11, VrtTotal DEF VrtVault!BooksAgree, Principals
<1> QED BY <1>1, <1>2, <1>12

\* No call of the VRT vault disturbs its books.
LEMMA VrtStep == VrtInv /\ [VrtVault!Next]_vrtVars => VrtInv'
<1> SUFFICES ASSUME VrtInv, [VrtVault!Next]_vrtVars PROVE VrtInv'
  OBVIOUS
<1>0. /\ vrtUsers \in [Accounts -> VrtVault!UserInfo]
      /\ vrt \in Nat /\ lastAccruingBlock \in Nat /\ vrtBlock \in Nat
      /\ vrtReceived \in [Accounts -> Nat] /\ given \in Int
  BY VrtState
<1>1. ASSUME NEW a \in Accounts,
             \/ VrtVault!Claim(a) \/ VrtVault!Withdraw(a)
             \/ \E amount \in Deposits : VrtVault!Deposit(a, amount)
      PROVE  VrtInv'
  BY <1>1, CallsPay, PayPreserves
<1>2. ASSUME NEW block \in Blocks, VrtVault!SetLastAccruingBlock(block) PROVE VrtInv'
  <2>1. /\ block \in Nat /\ block # 0
        /\ lastAccruingBlock' = block
        /\ UNCHANGED <<vrtUsers, vrt, vaultPaused, vrtReceived, given, vrtBlock>>
    BY <1>0, <1>2, VaultsFacts DEF VrtVault!SetLastAccruingBlock, VrtVault!maySetLast
  <2> QED BY <2>1 DEF VrtInv, VrtVault!TypeOK, StartsPassed, VrtVault!BooksAgree
<1>3. ASSUME NEW paused \in BOOLEAN, VrtVault!SetPaused(paused) PROVE VrtInv'
  BY <1>3 DEF VrtVault!SetPaused, VrtInv, VrtVault!TypeOK, StartsPassed, VrtVault!BooksAgree
<1>4. ASSUME NEW amount \in Deposits,
             VrtVault!WithdrawBep20(amount) \/ VrtVault!Fund(amount)
      PROVE  VrtInv'
  <2>1. /\ amount \in Nat
        /\ vrt' \in Nat /\ given' \in Int /\ vrt' - vrt = given' - given
        /\ UNCHANGED <<vrtUsers, lastAccruingBlock, vaultPaused, vrtReceived, vrtBlock>>
    BY <1>0, <1>4, VaultsFacts DEF VrtVault!WithdrawBep20, VrtVault!Fund
  <2>2. Total(vrtReceived) \in Nat /\ Total(Principals) \in Nat
    <3>1. Principals \in [Accounts -> Nat]
      BY <1>0 DEF Principals, VrtVault!UserInfo
    <3> QED BY <1>0, <3>1, TotalBounds, VaultsFacts
  <2>3. Principals' = Principals
    BY <2>1 DEF Principals
  <2>4. vrt' + Total(vrtReceived') = Total(Principals') + given'
    BY <1>0, <2>1, <2>2, <2>3, VrtBooks DEF VrtInv
  <2>5. VrtVault!BooksAgree'
    BY <2>4, VrtTotal DEF VrtVault!BooksAgree, Principals
  <2> QED BY <2>1, <2>5 DEF VrtInv, VrtVault!TypeOK, StartsPassed
<1>5. CASE VrtVault!NextBlock
  <2>1. /\ vrtBlock' = vrtBlock + 1
        /\ UNCHANGED <<vrtUsers, vrt, lastAccruingBlock, vaultPaused, vrtReceived, given>>
    BY <1>5 DEF VrtVault!NextBlock
  <2>2. StartsPassed'
    BY <1>0, <2>1 DEF VrtInv, StartsPassed, VrtVault!UserInfo
  <2> QED BY <1>0, <2>1, <2>2 DEF VrtInv, VrtVault!TypeOK, VrtVault!BooksAgree
<1>6. CASE UNCHANGED vrtVars
  BY <1>6 DEF vrtVars, VrtInv, VrtVault!TypeOK, StartsPassed, VrtVault!BooksAgree
<1> QED
  BY <1>1, <1>2, <1>3, <1>4, <1>5, <1>6 DEF VrtVault!Next

\* What an account of the VRT vault has earned.
VrtEarned(a) == vrtReceived[a] + Interest(vrtUsers[a], vrtEnd)

\* A payment changes what nobody has earned: what is paid is no longer owed.
LEMMA PayEarns ==
  ASSUME VrtInv, NEW a \in Accounts, NEW u \in VrtVault!UserInfo, Payment(a, u),
         NEW b \in Accounts
  PROVE  VrtEarned(b)' = VrtEarned(b)
<1>1. /\ vrtUsers \in [Accounts -> VrtVault!UserInfo]
      /\ vrtReceived \in [Accounts -> Nat] /\ vrtEnd \in Nat
      /\ Interest(vrtUsers[a], vrtEnd) \in Nat
  BY VrtState
<1>2. /\ vrtUsers' = [vrtUsers EXCEPT ![a] = u]
      /\ vrtReceived' = [vrtReceived EXCEPT ![a] = @ + Interest(vrtUsers[a], vrtEnd)]
      /\ u.accrualStartBlockNumber >= vrtEnd
  BY DEF Payment
<1>3. vrtEnd' = vrtEnd
  BY DEF Payment, vrtEnd, AccrualEnd
<1>4. VrtEarned(b)' = vrtReceived'[b] + Interest(vrtUsers'[b], vrtEnd)
  BY <1>3 DEF VrtEarned, Interest
<1>5. CASE b = a
  <2>1. vrtUsers'[b] = u /\ vrtReceived'[b] = vrtReceived[a] + Interest(vrtUsers[a], vrtEnd)
    BY <1>1, <1>2, <1>5
  <2>2. Interest(u, vrtEnd) = 0
    BY <1>2 DEF Interest
  <2> QED BY <1>1, <1>4, <1>5, <2>1, <2>2 DEF VrtEarned
<1>6. CASE b # a
  <2>1. vrtUsers'[b] = vrtUsers[b] /\ vrtReceived'[b] = vrtReceived[b]
    BY <1>1, <1>2, <1>6
  <2> QED BY <1>4, <2>1 DEF VrtEarned
<1> QED BY <1>5, <1>6

\* One block more of interest, up to truncation.
LEMMA OneBlock ==
  ASSUME NEW user \in VrtVault!UserInfo, NEW end \in Nat,
         user.accrualStartBlockNumber # 0, user.accrualStartBlockNumber <= end
  PROVE  LET forOneBlock == user.totalPrincipalAmount * interestRatePerBlock
         IN  (Interest(user, end + 1) - Interest(user, end)) * expScale
               \in (forOneBlock - expScale) .. (forOneBlock + expScale)
<1> DEFINE s == user.accrualStartBlockNumber
           c == user.totalPrincipalAmount * interestRatePerBlock
           x == c * (end - s)
           y == c * (end + 1 - s)
<1>1. s \in Nat /\ user.totalPrincipalAmount \in Nat /\ expScale \in Nat \ {0} /\ c \in Nat
      /\ interestRatePerBlock \in Nat
  BY VaultsFacts, ExpScaleAssumption DEF VrtVault!UserInfo
<1>2. Interest(user, end + 1) = y \div expScale
  BY <1>1 DEF Interest
<1>3. Interest(user, end) = x \div expScale
  <2>1. CASE s = end
    <3>1. x = 0
      BY <1>1, <2>1
    <3>2. 0 \div expScale = 0
      BY <1>1
    <3> QED BY <2>1, <3>1, <3>2 DEF Interest
  <2>2. CASE s # end
    BY <1>1, <2>2 DEF Interest
  <2> QED BY <2>1, <2>2
<1> HIDE DEF c
<1>4. x \in Nat /\ y \in Nat /\ y = x + c
  BY <1>1
<1> HIDE DEF x, y
<1> DEFINE p == x \div expScale
           q == y \div expScale
<1>5. p \in Nat /\ p * expScale <= x /\ x < p * expScale + expScale
  BY <1>1, <1>4, DivBounds
<1>6. q \in Nat /\ q * expScale <= y /\ y < q * expScale + expScale
  BY <1>1, <1>4, DivBounds
<1> HIDE DEF p, q
<1>7. (q - p) * expScale = q * expScale - p * expScale
  BY <1>1, <1>5, <1>6
<1>8. (q - p) * expScale \in Int
  BY <1>1, <1>5, <1>6
<1>9. (q - p) * expScale \in (c - expScale) .. (c + expScale)
  BY <1>1, <1>4, <1>5, <1>6, <1>7, <1>8
<1> QED BY <1>2, <1>3, <1>9 DEF p, q, c

\* What an account earns in a step, as InterestIsTime says it.
EarnsRight(a) ==
  LET gain == (VrtEarned(a)' - VrtEarned(a)) * expScale
      forOneBlock == vrtUsers[a].totalPrincipalAmount * interestRatePerBlock
  IN  IF VrtVault!NextBlock /\ vrtUsers[a].accrualStartBlockNumber # 0
         /\ vrtBlock < lastAccruingBlock
        THEN gain \in (forOneBlock - expScale) .. (forOneBlock + expScale)
        ELSE gain = 0

\* A step that leaves the blocks alone is right when nobody earns by it.
LEMMA NothingEarned ==
  ASSUME VrtInv, NEW a \in Accounts, VrtEarned(a)' = VrtEarned(a),
         vrtBlock' = vrtBlock \/ ~ (vrtUsers[a].accrualStartBlockNumber # 0
                                    /\ vrtBlock < lastAccruingBlock)
  PROVE  EarnsRight(a)
<1>1. VrtEarned(a) \in Nat /\ vrtBlock \in Nat /\ expScale \in Nat
  BY VrtState, ExpScaleAssumption DEF VrtEarned
<1>2. (VrtEarned(a)' - VrtEarned(a)) * expScale = 0
  BY <1>1
<1>3. ~ (VrtVault!NextBlock /\ vrtUsers[a].accrualStartBlockNumber # 0
         /\ vrtBlock < lastAccruingBlock)
  BY <1>1 DEF VrtVault!NextBlock
<1> QED BY <1>2, <1>3 DEF EarnsRight

\* Every step of the VRT vault earns what it should for everybody.
LEMMA VrtEarns ==
  VrtInv /\ [VrtVault!Next]_vrtVars => \A a \in Accounts : EarnsRight(a)
<1> SUFFICES ASSUME VrtInv, [VrtVault!Next]_vrtVars, NEW a \in Accounts
             PROVE  EarnsRight(a)
  OBVIOUS
<1>0. /\ vrtUsers \in [Accounts -> VrtVault!UserInfo] /\ vrtUsers[a] \in VrtVault!UserInfo
      /\ vrtReceived \in [Accounts -> Nat]
      /\ vrtBlock \in Nat /\ lastAccruingBlock \in Nat /\ vrtEnd \in Nat
      /\ Interest(vrtUsers[a], vrtEnd) \in Nat
      /\ vrtUsers[a].accrualStartBlockNumber \in Nat
      /\ vrtUsers[a].totalPrincipalAmount \in Nat
      /\ vrtUsers[a].accrualStartBlockNumber <= vrtBlock
  BY VrtState DEF VrtInv, StartsPassed, VrtVault!UserInfo
<1>1. ASSUME NEW b \in Accounts,
             \/ VrtVault!Claim(b) \/ VrtVault!Withdraw(b)
             \/ \E amount \in Deposits : VrtVault!Deposit(b, amount)
      PROVE  EarnsRight(a)
  <2>1. PICK u \in VrtVault!UserInfo : Payment(b, u)
    BY <1>1, CallsPay
  <2>2. VrtEarned(a)' = VrtEarned(a)
    BY <2>1, PayEarns
  <2>3. vrtBlock' = vrtBlock
    BY <2>1 DEF Payment
  <2> QED BY <2>2, <2>3, NothingEarned
<1>2. ASSUME NEW block \in Blocks, VrtVault!SetLastAccruingBlock(block)
      PROVE  EarnsRight(a)
  <2>1. /\ block \in Nat /\ lastAccruingBlock' = block
        /\ lastAccruingBlock # 0 => vrtBlock < lastAccruingBlock
        /\ lastAccruingBlock = 0 \/ block < lastAccruingBlock => vrtBlock < block
        /\ UNCHANGED <<vrtUsers, vrtReceived, vrtBlock>>
    BY <1>2, VaultsFacts DEF VrtVault!SetLastAccruingBlock, VrtVault!maySetLast
  <2>2. Interest(vrtUsers[a], vrtEnd') = Interest(vrtUsers[a], vrtEnd)
    <3>1. vrtEnd' = AccrualEnd(block, vrtBlock)
      BY <2>1 DEF vrtEnd
    <3>2. CASE lastAccruingBlock # 0
      BY <1>0, <2>1, <3>1, <3>2 DEF vrtEnd, AccrualEnd
    <3>3. CASE lastAccruingBlock = 0
      <4>1. \/ vrtUsers[a].accrualStartBlockNumber = 0
            \/ vrtUsers[a].totalPrincipalAmount = 0
        BY <3>3 DEF VrtInv, StartsPassed
      <4>2. CASE vrtUsers[a].accrualStartBlockNumber = 0
        BY <4>2 DEF Interest
      <4>3. CASE vrtUsers[a].totalPrincipalAmount = 0
        <5>1. \A end \in Nat : Interest(vrtUsers[a], end) = 0
          <6> SUFFICES ASSUME NEW end \in Nat PROVE Interest(vrtUsers[a], end) = 0
            OBVIOUS
          <6>1. CASE vrtUsers[a].accrualStartBlockNumber >= end
            BY <6>1 DEF Interest
          <6>2. CASE ~ (vrtUsers[a].accrualStartBlockNumber >= end)
            <7>1. end - vrtUsers[a].accrualStartBlockNumber \in Nat
              BY <1>0, <6>2
            <7>2. vrtUsers[a].totalPrincipalAmount * interestRatePerBlock
                    * (end - vrtUsers[a].accrualStartBlockNumber) = 0
              BY <4>3, <7>1, VaultsFacts
            <7>3. 0 \div expScale = 0
              BY ExpScaleAssumption
            <7> QED BY <7>2, <7>3 DEF Interest
          <6> QED BY <6>1, <6>2
        <5>2. vrtEnd' \in Nat
          BY <1>0, <2>1, <3>1 DEF AccrualEnd
        <5> QED BY <1>0, <5>1, <5>2
      <4> QED BY <4>1, <4>2, <4>3
    <3> QED BY <3>2, <3>3
  <2>3. VrtEarned(a)' = VrtEarned(a)
    BY <2>1, <2>2 DEF VrtEarned, Interest
  <2> QED BY <2>1, <2>3, NothingEarned
<1>3. ASSUME \/ \E paused \in BOOLEAN : VrtVault!SetPaused(paused)
             \/ \E amount \in Deposits :
                  VrtVault!WithdrawBep20(amount) \/ VrtVault!Fund(amount)
             \/ UNCHANGED vrtVars
      PROVE  EarnsRight(a)
  <2>1. UNCHANGED <<vrtUsers, vrtReceived, lastAccruingBlock, vrtBlock>>
    BY <1>3 DEF VrtVault!SetPaused, VrtVault!WithdrawBep20, VrtVault!Fund, vrtVars
  <2>2. VrtEarned(a)' = VrtEarned(a)
    BY <2>1 DEF VrtEarned, Interest, vrtEnd, AccrualEnd
  <2> QED BY <2>1, <2>2, NothingEarned
<1>4. CASE VrtVault!NextBlock
  <2>1. /\ vrtBlock' = vrtBlock + 1
        /\ UNCHANGED <<vrtUsers, vrtReceived, lastAccruingBlock>>
    BY <1>4 DEF VrtVault!NextBlock
  <2>2. VrtEarned(a)' = vrtReceived[a] + Interest(vrtUsers[a], vrtEnd')
    BY <2>1 DEF VrtEarned, Interest
  <2>3. CASE vrtUsers[a].accrualStartBlockNumber # 0 /\ vrtBlock < lastAccruingBlock
    <3>1. vrtEnd = vrtBlock /\ vrtEnd' = vrtBlock + 1
      BY <1>0, <2>1, <2>3 DEF vrtEnd, AccrualEnd
    <3>2. (Interest(vrtUsers[a], vrtBlock + 1) - Interest(vrtUsers[a], vrtBlock)) * expScale
            \in (vrtUsers[a].totalPrincipalAmount * interestRatePerBlock - expScale)
                .. (vrtUsers[a].totalPrincipalAmount * interestRatePerBlock + expScale)
      BY <1>0, <2>3, OneBlock
    <3>3. Interest(vrtUsers[a], vrtBlock + 1) \in Nat /\ Interest(vrtUsers[a], vrtBlock) \in Nat
      BY <1>0, InterestType
    <3>4. VrtEarned(a)' - VrtEarned(a)
            = Interest(vrtUsers[a], vrtBlock + 1) - Interest(vrtUsers[a], vrtBlock)
      BY <1>0, <2>2, <3>1, <3>3 DEF VrtEarned
    <3> QED BY <1>4, <2>3, <3>2, <3>4 DEF EarnsRight
  <2>4. CASE ~ (vrtUsers[a].accrualStartBlockNumber # 0 /\ vrtBlock < lastAccruingBlock)
    <3>1. Interest(vrtUsers[a], vrtEnd') = Interest(vrtUsers[a], vrtEnd)
      <4>1. CASE vrtUsers[a].accrualStartBlockNumber = 0
        BY <4>1 DEF Interest
      <4>2. CASE ~ (vrtBlock < lastAccruingBlock)
        BY <1>0, <2>1, <4>2 DEF vrtEnd, AccrualEnd
      <4> QED BY <2>4, <4>1, <4>2
    <3> QED BY <2>2, <2>4, <3>1, NothingEarned DEF VrtEarned
  <2> QED BY <2>3, <2>4
<1> QED BY <1>1, <1>2, <1>3, <1>4 DEF VrtVault!Next
-----------------------------------------------------------------------------
(* The VAI vault.  Its operators work on the record of the vault; so do the *)
(* lemmas.                                                                  *)

UserRec == [amount : Nat, rewardDebt : Nat]

\* What an account has been promised and not been paid, without any rounding,
\* times expScale.
Exact(v, user) == v.accXVSPerShare * user.amount - user.rewardDebt * expScale

Stakes(users) == [a \in Accounts |-> users[a].amount]
Exacts(v, users) == [a \in Accounts |-> Exact(v, users[a])]

\* The books of a vault v with the accounts users, of which r amounts have
\* been changed so far.
Sound(v, users, r) ==
  /\ v \in VaiVault!Vault /\ users \in [Accounts -> UserRec] /\ r \in Nat
  /\ v.xvsBalance <= v.xvs
  /\ Total(Stakes(users)) <= v.vai
  /\ \A a \in Accounts :
       users[a].rewardDebt * expScale <= v.accXVSPerShare * users[a].amount
  /\ Total(Exacts(v, users)) + v.pendingRewards * expScale <= (v.xvsBalance + r) * expScale

\* What the VAI vault grows by is a truncated product.
LEMMA VaiGrown ==
  \A v, user : VaiVault!grown(v, user) = mulScalarTruncate(v.accXVSPerShare, user.amount)
BY DEF VaiVault!grown, VaiVault!mulScalarTruncate, VaiVault!truncate,
       mulScalarTruncate, truncate

\* The types of what Sound speaks of.
LEMMA SoundTypes ==
  ASSUME NEW v, NEW users, NEW r, Sound(v, users, r)
  PROVE  /\ expScale \in Nat \ {0} /\ r \in Nat
         /\ v \in VaiVault!Vault
         /\ v.vai \in Nat /\ v.xvs \in Nat /\ v.xvsBalance \in Nat
         /\ v.pendingRewards \in Nat /\ v.accXVSPerShare \in Nat
         /\ \A a \in Accounts : /\ users[a] \in UserRec
                                /\ users[a].amount \in Nat /\ users[a].rewardDebt \in Nat
                                /\ Exact(v, users[a]) \in Nat
         /\ Stakes(users) \in [Accounts -> Nat] /\ Total(Stakes(users)) \in Nat
         /\ Exacts(v, users) \in [Accounts -> Nat] /\ Total(Exacts(v, users)) \in Nat
<1>1. /\ expScale \in Nat \ {0} /\ r \in Nat
      /\ v \in VaiVault!Vault
      /\ v.vai \in Nat /\ v.xvs \in Nat /\ v.xvsBalance \in Nat
      /\ v.pendingRewards \in Nat /\ v.accXVSPerShare \in Nat
  BY ExpScaleAssumption DEF Sound, VaiVault!Vault
<1>2. ASSUME NEW a \in Accounts
      PROVE  /\ users[a] \in UserRec
             /\ users[a].amount \in Nat /\ users[a].rewardDebt \in Nat
             /\ Exact(v, users[a]) \in Nat
  <2>1. /\ users[a] \in UserRec /\ users[a].amount \in Nat /\ users[a].rewardDebt \in Nat
        /\ users[a].rewardDebt * expScale <= v.accXVSPerShare * users[a].amount
    BY DEF Sound, UserRec
  <2>2. users[a].rewardDebt * expScale \in Nat /\ v.accXVSPerShare * users[a].amount \in Nat
    BY <1>1, <2>1
  <2> QED BY <2>1, <2>2 DEF Exact
<1>3. Stakes(users) \in [Accounts -> Nat] /\ Exacts(v, users) \in [Accounts -> Nat]
  BY <1>2 DEF Stakes, Exacts
<1> QED BY <1>1, <1>2, <1>3, DepositorsTotal

\* What arrives becomes pending, and is recorded.
LEMMA PendingSound ==
  ASSUME NEW v, NEW users, NEW r, Sound(v, users, r)
  PROVE  LET u == VaiVault!updatePendingRewards(v)
         IN  /\ Sound(u, users, r) /\ u.xvsBalance = u.xvs
             /\ u.xvs = v.xvs /\ u.vai = v.vai /\ u.accXVSPerShare = v.accXVSPerShare
             /\ u.pendingRewards = v.pendingRewards + (v.xvs - v.xvsBalance)
<1> DEFINE u == VaiVault!updatePendingRewards(v)
<1>1. /\ expScale \in Nat /\ v \in VaiVault!Vault /\ r \in Nat
      /\ v.xvs \in Nat /\ v.xvsBalance \in Nat /\ v.pendingRewards \in Nat
      /\ v.xvsBalance <= v.xvs
      /\ Total(Exacts(v, users)) \in Nat
      /\ Total(Exacts(v, users)) + v.pendingRewards * expScale <= (v.xvsBalance + r) * expScale
  BY SoundTypes DEF Sound
<1>2. /\ u \in VaiVault!Vault
      /\ u.xvs = v.xvs /\ u.vai = v.vai /\ u.accXVSPerShare = v.accXVSPerShare
      /\ u.xvsBalance = v.xvs
      /\ u.pendingRewards = v.pendingRewards + (v.xvs - v.xvsBalance)
  <2> DEFINE x == v.xvs
             y == v.pendingRewards + (v.xvs - v.xvsBalance)
  <2>1. x \in Nat /\ y \in Nat
    BY <1>1
  <2> DEFINE w == [v EXCEPT !.xvsBalance = x]
  <2>2. u = [w EXCEPT !.pendingRewards = y]
    BY SMT DEF VaiVault!updatePendingRewards
  <2> HIDE DEF x, y, u
  <2>3. /\ w \in VaiVault!Vault /\ w.xvsBalance = x /\ w.pendingRewards = v.pendingRewards
        /\ w.xvs = v.xvs /\ w.vai = v.vai /\ w.accXVSPerShare = v.accXVSPerShare
    BY <1>1, <2>1 DEF VaiVault!Vault
  <2> HIDE DEF w
  <2>4. /\ u \in VaiVault!Vault
        /\ u.xvs = v.xvs /\ u.vai = v.vai /\ u.accXVSPerShare = v.accXVSPerShare
        /\ u.xvsBalance = x /\ u.pendingRewards = y
    BY <2>1, <2>2, <2>3 DEF VaiVault!Vault
  <2> QED BY <2>4 DEF x, y
<1> HIDE DEF u
<1>3. Exacts(u, users) = Exacts(v, users)
  BY <1>2 DEF Exacts, Exact
<1>4. Total(Exacts(v, users)) + u.pendingRewards * expScale <= (u.xvsBalance + r) * expScale
  <2>1. u.pendingRewards * expScale = v.pendingRewards * expScale + (v.xvs - v.xvsBalance) * expScale
    BY <1>1, <1>2
  <2>2. (u.xvsBalance + r) * expScale
          = (v.xvsBalance + r) * expScale + (v.xvs - v.xvsBalance) * expScale
    BY <1>1, <1>2
  <2>3. /\ v.pendingRewards * expScale \in Int /\ (v.xvs - v.xvsBalance) * expScale \in Int
        /\ (v.xvsBalance + r) * expScale \in Int
    BY <1>1
  <2> QED BY <1>1, <2>1, <2>2, <2>3
<1>5. Sound(u, users, r)
  BY <1>2, <1>3, <1>4, <1>1 DEF Sound
<1> QED BY <1>2, <1>5 DEF u

\* Sharing what is pending keeps the books: truncation only leaves something
\* over.
LEMMA ShareSound ==
  ASSUME NEW v, NEW users, NEW r, Sound(v, users, r)
  PROVE  LET u == VaiVault!updateVault(v)
         IN  /\ Sound(u, users, r) /\ u.xvsBalance = u.xvs
             /\ u.xvs = v.xvs /\ u.vai = v.vai
             /\ u.accXVSPerShare >= v.accXVSPerShare
<1> DEFINE w == VaiVault!updatePendingRewards(v)
           u == VaiVault!updateVault(v)
           d == VaiVault!getExp(w.pendingRewards, w.vai)
<1>1. /\ Sound(w, users, r) /\ w.xvsBalance = w.xvs
      /\ w.xvs = v.xvs /\ w.vai = v.vai /\ w.accXVSPerShare = v.accXVSPerShare
  BY PendingSound
<1>2. u = IF w.vai = 0 THEN w
          ELSE [w EXCEPT !.accXVSPerShare = @ + d, !.pendingRewards = 0]
  BY DEF VaiVault!updateVault
<1>3. v.accXVSPerShare \in Nat
  BY SoundTypes
<1> HIDE DEF w, u
<1>4. CASE w.vai = 0
  BY <1>1, <1>2, <1>3, <1>4 DEF u
<1>5. CASE w.vai # 0
  <2>1. /\ expScale \in Nat /\ r \in Nat /\ w \in VaiVault!Vault
        /\ w.vai \in Nat /\ w.xvs \in Nat /\ w.pendingRewards \in Nat
        /\ w.accXVSPerShare \in Nat
        /\ users \in [Accounts -> UserRec]
        /\ Stakes(users) \in [Accounts -> Nat] /\ Total(Stakes(users)) \in Nat
        /\ Exacts(w, users) \in [Accounts -> Nat] /\ Total(Exacts(w, users)) \in Nat
        /\ Total(Stakes(users)) <= w.vai
        /\ Total(Exacts(w, users)) + w.pendingRewards * expScale
             <= (w.xvsBalance + r) * expScale
    BY <1>1, SoundTypes DEF Sound
  <2>2. w.pendingRewards * expScale \in Nat
    BY <2>1
  <2>3. d \in Nat /\ d * w.vai <= w.pendingRewards * expScale
    BY <1>5, <2>1, <2>2, DivBounds DEF VaiVault!getExp
  <2> HIDE DEF d
  <2>4. /\ u \in VaiVault!Vault /\ u.xvs = w.xvs /\ u.vai = w.vai
        /\ u.xvsBalance = w.xvsBalance /\ u.pendingRewards = 0
        /\ u.accXVSPerShare = w.accXVSPerShare + d
    <3> DEFINE x == w.accXVSPerShare + d
    <3>1. x \in Nat
      BY <2>1, <2>3
    <3> DEFINE z == [w EXCEPT !.accXVSPerShare = x]
    <3>2. u = [z EXCEPT !.pendingRewards = 0]
      BY <1>2, <1>5, SMT
    <3> HIDE DEF x
    <3>4. /\ z \in VaiVault!Vault /\ z.xvsBalance = w.xvsBalance
          /\ z.xvs = w.xvs /\ z.vai = w.vai /\ z.accXVSPerShare = x
      BY <2>1, <3>1 DEF VaiVault!Vault
    <3> HIDE DEF z
    <3>3. /\ u \in VaiVault!Vault /\ u.xvs = w.xvs /\ u.vai = w.vai
          /\ u.xvsBalance = w.xvsBalance /\ u.pendingRewards = 0
          /\ u.accXVSPerShare = x
      BY <3>2, <3>4 DEF VaiVault!Vault
    <3> QED BY <3>3 DEF x
  <2>5. ASSUME NEW a \in Accounts
        PROVE  /\ Exact(u, users[a]) = Exacts(w, users)[a] + d * Stakes(users)[a]
               /\ users[a].rewardDebt * expScale <= u.accXVSPerShare * users[a].amount
    <3>1. /\ users[a].amount \in Nat /\ users[a].rewardDebt \in Nat
          /\ users[a].rewardDebt * expScale <= w.accXVSPerShare * users[a].amount
      BY <1>1, <2>1 DEF Sound, UserRec
    <3>2. u.accXVSPerShare * users[a].amount
            = w.accXVSPerShare * users[a].amount + d * users[a].amount
      BY <2>1, <2>3, <2>4, <3>1
    <3>3. /\ w.accXVSPerShare * users[a].amount \in Nat /\ d * users[a].amount \in Nat
          /\ users[a].rewardDebt * expScale \in Nat
      BY <2>1, <2>3, <3>1
    <3> QED BY <3>1, <3>2, <3>3 DEF Exact, Exacts, Stakes
  <2> DEFINE D == [a \in Accounts |-> d * Stakes(users)[a]]
  <2>6. Exacts(u, users) = [a \in Accounts |-> Exacts(w, users)[a] + D[a]]
    BY <2>5 DEF Exacts
  <2>7. Total(D) = d * Total(Stakes(users)) /\ D \in [Accounts -> Nat]
    <3>1. D \in [Accounts -> Nat]
      BY <2>1, <2>3
    <3>2. Total(D) = d * Total(Stakes(users))
      BY <2>1, <2>3, TotalTimes, VaultsFacts
    <3> QED BY <3>1, <3>2
  <2> HIDE DEF D
  <2>8. Total(Exacts(u, users)) = Total(Exacts(w, users)) + d * Total(Stakes(users))
    <3>1. Total([a \in Accounts |-> Exacts(w, users)[a] + D[a]])
            = Total(Exacts(w, users)) + Total(D)
      BY <2>1, <2>7, TotalSum, VaultsFacts
    <3> QED BY <2>6, <2>7, <3>1
  <2>9. d * Total(Stakes(users)) <= d * w.vai
    BY <2>1, <2>3
  <2>10. Total(Exacts(u, users)) + u.pendingRewards * expScale
           <= (u.xvsBalance + r) * expScale
    <3>1. /\ d * w.vai \in Int /\ d * Total(Stakes(users)) \in Int
          /\ u.pendingRewards * expScale = 0
          /\ (u.xvsBalance + r) * expScale = (w.xvsBalance + r) * expScale
      BY <2>1, <2>3, <2>4
    <3>2. (w.xvsBalance + r) * expScale \in Int
      BY <1>1, <2>1
    <3> QED BY <2>1, <2>2, <2>3, <2>8, <2>9, <3>1, <3>2
  <2>11. Sound(u, users, r)
    BY <1>1, <2>1, <2>4, <2>5, <2>10 DEF Sound
  <2> QED BY <1>1, <2>1, <2>3, <2>4, <2>11 DEF u
<1> QED BY <1>4, <1>5

\* The types of a pending payment: what an account is owed is a natural number
\* and costs at most what it was promised exactly.
LEMMA OwedFacts ==
  ASSUME NEW v, NEW users, NEW r, Sound(v, users, r), NEW a \in Accounts
  PROVE  LET p == VaiVault!pendingXVS(v, users[a])
         IN  /\ p \in Nat
             /\ p = mulScalarTruncate(v.accXVSPerShare, users[a].amount) - users[a].rewardDebt
             /\ p * expScale <= Exact(v, users[a])
             /\ users[a].rewardDebt
                  <= mulScalarTruncate(v.accXVSPerShare, users[a].amount)
<1> DEFINE g == mulScalarTruncate(v.accXVSPerShare, users[a].amount)
           d == users[a].rewardDebt
           x == v.accXVSPerShare * users[a].amount
<1>1. /\ expScale \in Nat \ {0} /\ v.accXVSPerShare \in Nat
      /\ users[a].amount \in Nat /\ d \in Nat
  BY SoundTypes
<1>2. x \in Nat /\ d * expScale <= x
  BY <1>1 DEF Sound
<1>3. g \in Nat /\ g * expScale <= x /\ x < g * expScale + expScale
  BY <1>1, MulScalarBounds
<1>4. VaiVault!pendingXVS(v, users[a]) = g - d
  BY VaiGrown DEF VaiVault!pendingXVS
<1>5. Exact(v, users[a]) = x - d * expScale
  BY DEF Exact
<1> HIDE DEF g, d, x
<1>6. d <= g
  <2>1. d * expScale < (g + 1) * expScale
    BY <1>1, <1>2, <1>3
  <2>2. d < g + 1
    BY <1>1, <1>3, <2>1, MulCancel
  <2> QED BY <1>1, <1>3, <2>2
<1>7. (g - d) * expScale = g * expScale - d * expScale
  BY <1>1, <1>3
<1>8. g - d \in Nat /\ (g - d) * expScale <= x - d * expScale
  BY <1>1, <1>2, <1>3, <1>6, <1>7
<1> QED BY <1>4, <1>5, <1>6, <1>8 DEF g, d

\* A payment takes from the vault what it can, never more than it is.
LEMMA TransferFacts ==
  ASSUME NEW v \in VaiVault!Vault, NEW p \in Nat
  PROVE  LET w == VaiVault!safeXVSTransfer(v, p)
         IN  /\ w \in VaiVault!Vault
             /\ w.xvsBalance = w.xvs /\ w.xvs <= v.xvs /\ v.xvs <= w.xvs + p
             /\ p <= v.xvs => w.xvs = v.xvs - p
             /\ w.vai = v.vai /\ w.pendingRewards = v.pendingRewards
             /\ w.accXVSPerShare = v.accXVSPerShare
<1> DEFINE left == IF p > v.xvs THEN 0 ELSE v.xvs - p
           z == [v EXCEPT !.xvs = left]
           w == VaiVault!safeXVSTransfer(v, p)
<1>1. w = [z EXCEPT !.xvsBalance = left]
  BY SMT DEF VaiVault!safeXVSTransfer
<1>2. v.xvs \in Nat /\ left \in Nat /\ left <= v.xvs /\ v.xvs <= left + p
      /\ (p <= v.xvs => left = v.xvs - p)
  BY DEF VaiVault!Vault
<1> HIDE DEF left, w
<1>3. /\ z \in VaiVault!Vault /\ z.xvs = left
      /\ z.vai = v.vai /\ z.pendingRewards = v.pendingRewards
      /\ z.accXVSPerShare = v.accXVSPerShare
  BY <1>2 DEF VaiVault!Vault
<1> HIDE DEF z
<1>4. /\ w \in VaiVault!Vault /\ w.xvs = left /\ w.xvsBalance = left
      /\ w.vai = v.vai /\ w.pendingRewards = v.pendingRewards
      /\ w.accXVSPerShare = v.accXVSPerShare
  BY <1>1, <1>2, <1>3 DEF VaiVault!Vault
<1> QED BY <1>2, <1>4 DEF w

\* Paying an account and giving it another stake keeps the books, when a change
\* of the stake counts for one rounding.
LEMMA ResizeSound ==
  ASSUME NEW v, NEW users, NEW r, Sound(v, users, r), v.xvsBalance = v.xvs,
         NEW a \in Accounts, NEW n \in Nat,
         NEW w, w = VaiVault!safeXVSTransfer(v, VaiVault!pendingXVS(v, users[a])),
         NEW z, z = [w EXCEPT !.vai = (w.vai - users[a].amount) + n],
         NEW s, s = [users EXCEPT ![a] =
                       [amount |-> n, rewardDebt |-> mulScalarTruncate(v.accXVSPerShare, n)]],
         NEW t \in Nat, t = IF n = users[a].amount THEN r ELSE r + 1
  PROVE  Sound(z, s, t)
<1> DEFINE K == expScale
           acc == v.accXVSPerShare
           amt == users[a].amount
           d == users[a].rewardDebt
           p == VaiVault!pendingXVS(v, users[a])
           h == mulScalarTruncate(acc, n)
           e == acc * n - h * K
           X == Exacts(v, users)
           S == Stakes(users)
<1>1. /\ K \in Nat \ {0} /\ r \in Nat /\ v \in VaiVault!Vault
      /\ v.vai \in Nat /\ v.xvs \in Nat /\ v.pendingRewards \in Nat /\ acc \in Nat
      /\ users \in [Accounts -> UserRec] /\ amt \in Nat /\ d \in Nat
      /\ S \in [Accounts -> Nat] /\ X \in [Accounts -> Nat]
      /\ Total(S) \in Nat /\ Total(S) <= v.vai
      /\ Total(X) \in Nat /\ Total(X) + v.pendingRewards * K <= (v.xvs + r) * K
  BY SoundTypes DEF Sound
<1>2. p \in Nat /\ p = mulScalarTruncate(acc, amt) - d /\ p * K <= X[a] /\ X[a] = acc * amt - d * K
  BY OwedFacts DEF Exacts, Exact
<1>3. h \in Nat /\ h * K <= acc * n /\ acc * n < h * K + K
  BY <1>1, MulScalarBounds
<1>4. e \in Nat /\ e < K
  <2>1. acc * n \in Nat /\ h * K \in Nat
    BY <1>1, <1>3
  <2> QED BY <1>1, <1>3, <2>1
<1>5. /\ w \in VaiVault!Vault
      /\ w.xvsBalance = w.xvs /\ w.xvs <= v.xvs /\ v.xvs <= w.xvs + p
      /\ w.vai = v.vai /\ w.pendingRewards = v.pendingRewards /\ w.accXVSPerShare = acc
  BY <1>1, <1>2, TransferFacts
<1>6. S[a] = amt /\ amt <= Total(S) /\ Total([S EXCEPT ![a] = n]) = Total(S) - amt + n
  <2>1. S[a] = amt
    BY DEF Stakes
  <2> HIDE DEF S, amt
  <2>2. Total([S EXCEPT ![a] = n]) = Total(S) - S[a] + n /\ S[a] <= Total(S)
    BY <1>1, DepositorsTotal, Zenon
  <2> QED BY <2>1, <2>2
<1> HIDE DEF e
<1>7. X[a] <= Total(X) /\ Total([X EXCEPT ![a] = e]) = Total(X) - X[a] + e
  <2> HIDE DEF X
  <2> QED BY <1>1, <1>4, DepositorsTotal, Zenon
<1>8. /\ z \in VaiVault!Vault
      /\ z.xvs = w.xvs /\ z.xvsBalance = w.xvs /\ z.pendingRewards = v.pendingRewards
      /\ z.accXVSPerShare = acc /\ z.vai = (v.vai - amt) + n
  <2>1. (w.vai - amt) + n \in Nat
    BY <1>1, <1>5, <1>6
  <2> HIDE DEF acc
  <2> QED BY <1>5, <2>1 DEF VaiVault!Vault
<1>9. /\ s \in [Accounts -> UserRec]
      /\ s[a] = [amount |-> n, rewardDebt |-> h]
      /\ \A b \in Accounts \ {a} : s[b] = users[b]
  BY <1>1, <1>3 DEF UserRec
<1>10. s[a].amount = n /\ s[a].rewardDebt = h
  BY <1>9
<1>11. Stakes(s) = [S EXCEPT ![a] = n]
  BY <1>1, <1>9, <1>10 DEF Stakes
<1>12. Exacts(z, s) = [X EXCEPT ![a] = e]
  <2>1. Exact(z, s[a]) = e
    BY <1>8, <1>10 DEF Exact, e
  <2>2. \A b \in Accounts \ {a} : Exact(z, s[b]) = Exact(v, users[b])
    BY <1>8, <1>9 DEF Exact
  <2>3. /\ Exacts(z, s) = [b \in Accounts |-> Exact(z, s[b])]
        /\ \A b \in Accounts : X[b] = Exact(v, users[b])
    BY DEF Exacts
  <2> DEFINE Y == [X EXCEPT ![a] = e]
  <2> HIDE DEF X
  <2>4. Y = [b \in Accounts |-> IF b = a THEN e ELSE X[b]]
    BY <1>1
  <2>5. \A b \in Accounts : Exact(z, s[b]) = IF b = a THEN e ELSE X[b]
    BY <2>1, <2>2, <2>3
  <2> HIDE DEF Y
  <2>6. Exacts(z, s) = Y
    BY <2>3, <2>4, <2>5
  <2> QED BY <2>6 DEF Y
<1>13. Total(Exacts(z, s)) + z.pendingRewards * K <= (z.xvsBalance + t) * K
  <2> DEFINE q == v.pendingRewards * K
             x == X[a]
             T == Total(X)
  <2>1. /\ q \in Nat /\ x \in Nat /\ T \in Nat /\ w.xvs \in Nat
        /\ p * K \in Nat /\ w.xvs * K \in Nat /\ r * K \in Nat
    BY <1>1, <1>2, <1>5 DEF VaiVault!Vault
  <2>2. v.xvs * K <= (w.xvs + p) * K
    BY <1>1, <1>2, <1>5, <2>1
  <2>3. (w.xvs + p) * K = w.xvs * K + p * K /\ (v.xvs + r) * K = v.xvs * K + r * K
    BY <1>1, <1>2, <2>1
  <2>4. T + q <= w.xvs * K + p * K + r * K
    BY <1>1, <2>1, <2>2, <2>3
  <2>5. CASE n = amt
    <3>1. h = p + d
      BY <1>1, <1>2, <1>3, <2>5
    <3>2. h * K = p * K + d * K /\ d * K \in Nat /\ acc * n \in Nat
      BY <1>1, <1>2, <3>1
    <3>3. e = x - p * K
      BY <1>2, <2>5, <3>2, <2>1 DEF e
    <3>4. T - x + e + q <= (w.xvs + r) * K
      <4>1. (w.xvs + r) * K = w.xvs * K + r * K
        BY <1>1, <2>1
      <4> HIDE DEF T, x, q
      <4> QED BY <2>1, <2>4, <3>3, <4>1, <1>4
    <3> QED BY <1>7, <1>8, <1>12, <2>5, <3>4
  <2>6. CASE n # amt
    <3>1. (w.xvs + (r + 1)) * K = w.xvs * K + r * K + K
      BY <1>1, <2>1
    <3>2. T - x + e + q <= (w.xvs + (r + 1)) * K
      <4>1. p * K <= x
        BY <1>2
      <4> HIDE DEF T, x, q
      <4> QED BY <1>1, <1>4, <2>1, <2>4, <3>1, <4>1
    <3> QED BY <1>7, <1>8, <1>12, <2>6, <3>2
  <2> QED BY <2>5, <2>6
<1>14. \A b \in Accounts : s[b].rewardDebt * K <= z.accXVSPerShare * s[b].amount
  BY <1>3, <1>8, <1>9, <1>10 DEF Sound
<1>15. Total(Stakes(s)) <= z.vai
  BY <1>1, <1>6, <1>8, <1>11
<1>16. z.xvsBalance <= z.xvs
  BY <1>5, <1>8 DEF VaiVault!Vault
<1> QED BY <1>8, <1>9, <1>13, <1>14, <1>15, <1>16 DEF Sound

\* What is owed and covered, as the properties say it.
LEMMA SoundMeans ==
  ASSUME NEW v, NEW users, NEW r, Sound(v, users, r)
  PROVE  Total([a \in Accounts |-> VaiVault!pendingXVS(v, users[a])]) + v.pendingRewards
           <= v.xvsBalance + r
<1> DEFINE K == expScale
           P == [a \in Accounts |-> VaiVault!pendingXVS(v, users[a])]
           X == Exacts(v, users)
<1>1. /\ K \in Nat \ {0} /\ r \in Nat /\ v.xvsBalance \in Nat /\ v.pendingRewards \in Nat
      /\ X \in [Accounts -> Nat] /\ Total(X) \in Nat
      /\ Total(X) + v.pendingRewards * K <= (v.xvsBalance + r) * K
  BY SoundTypes DEF Sound
<1>2. P \in [Accounts -> Nat] /\ \A a \in Accounts : K * P[a] <= X[a] /\ K * P[a] \in Nat
  <2>1. \A a \in Accounts : P[a] \in Nat /\ P[a] * K <= X[a]
    BY OwedFacts DEF Exacts
  <2>2. \A a \in Accounts : K * P[a] = P[a] * K /\ K * P[a] \in Nat
    <3> HIDE DEF P
    <3> QED BY <1>1, <2>1
  <2> QED BY <2>1, <2>2
<1> HIDE DEF P, X
<1>3. Total([a \in Accounts |-> K * P[a]]) = K * Total(P)
  BY <1>1, <1>2, TotalTimes, VaultsFacts
<1>4. Total([a \in Accounts |-> K * P[a]]) <= Total(X)
  <2> DEFINE Q == [a \in Accounts |-> K * P[a]]
  <2>1. Q \in [Accounts -> Nat] /\ \A a \in Accounts : Q[a] <= X[a]
    BY <1>2
  <2> HIDE DEF Q
  <2>2. Total(Q) <= Total(X)
    BY <1>1, <2>1, TotalMonotone, VaultsFacts
  <2> QED BY <2>2 DEF Q
<1>5. Total(P) \in Nat
  BY <1>2, DepositorsTotal
<1>6. (Total(P) + v.pendingRewards) * K <= (v.xvsBalance + r) * K
  <2>1. (Total(P) + v.pendingRewards) * K = K * Total(P) + v.pendingRewards * K
    BY <1>1, <1>5
  <2>2. K * Total(P) \in Nat /\ v.pendingRewards * K \in Nat /\ (v.xvsBalance + r) * K \in Nat
    BY <1>1, <1>5
  <2> QED BY <1>1, <1>3, <1>4, <2>1, <2>2
<1>7. Total(P) + v.pendingRewards <= v.xvsBalance + r
  <2> DEFINE x == Total(P) + v.pendingRewards
             y == v.xvsBalance + r
  <2>1. x \in Nat /\ y \in Nat /\ x * K <= y * K
    BY <1>1, <1>5, <1>6
  <2> HIDE DEF x, y
  <2>2. x <= y
    BY <1>1, <2>1, MulCancel
  <2> QED BY <2>2 DEF x, y
<1> QED BY <1>7 DEF P

VaiInv == VaiVault!TypeOK /\ Sound(vault, vaiUsers, resized)

\* Truncated products and quotients are monotone.
LEMMA TruncateMonotone ==
  ASSUME NEW x \in Nat, NEW y \in Nat, x <= y, NEW k \in Nat \ {0}
  PROVE  x \div k <= y \div k
<1>1. x \div k \in Nat /\ (x \div k) * k <= x
  BY DivBounds
<1> DEFINE q == x \div k
<1>2. q \in Int /\ q * k <= y
  BY <1>1
<1> HIDE DEF q
<1>3. q <= y \div k
  BY <1>2, DivGreatest
<1> QED BY <1>3 DEF q

\* The index of the VAI vault once everything is shared.
SharedIndex(v) ==
  IF v.vai = 0 THEN v.accXVSPerShare
  ELSE v.accXVSPerShare
       + ((v.pendingRewards + (v.xvs - v.xvsBalance)) * expScale) \div v.vai

\* updateVault shares what is pending and what has arrived.
LEMMA SharedIs ==
  ASSUME NEW v, NEW users, NEW r, Sound(v, users, r)
  PROVE  /\ VaiVault!updateVault(v).accXVSPerShare = SharedIndex(v)
         /\ SharedIndex(v) \in Nat /\ SharedIndex(v) >= v.accXVSPerShare
<1> DEFINE u == VaiVault!updatePendingRewards(v)
           w == VaiVault!updateVault(v)
           i == u.accXVSPerShare + VaiVault!getExp(u.pendingRewards, u.vai)
           z == [u EXCEPT !.accXVSPerShare = i]
<1>1. /\ u \in VaiVault!Vault
      /\ u.vai = v.vai /\ u.accXVSPerShare = v.accXVSPerShare
      /\ u.pendingRewards = v.pendingRewards + (v.xvs - v.xvsBalance)
  BY PendingSound, SoundTypes
<1>2. Sound(w, users, r) /\ w.accXVSPerShare >= v.accXVSPerShare
  BY ShareSound
<1>3. w.accXVSPerShare \in Nat
  BY <1>2, SoundTypes
<1>4. w.accXVSPerShare = SharedIndex(v)
  <2>1. CASE u.vai = 0
    BY <1>1, <2>1 DEF VaiVault!updateVault, SharedIndex
  <2>2. CASE u.vai # 0
    <3>1. w = [z EXCEPT !.pendingRewards = 0]
      BY <2>2, SMT DEF VaiVault!updateVault
    <3>2. z.accXVSPerShare = i
      <4> HIDE DEF u, i
      <4> QED BY <1>1 DEF VaiVault!Vault
    <3>3. z \in [vai : {z.vai}, xvs : {z.xvs}, xvsBalance : {z.xvsBalance},
                 pendingRewards : {z.pendingRewards},
                 accXVSPerShare : {i}, vaultPaused : {z.vaultPaused}]
      <4> HIDE DEF u, i
      <4> QED BY <1>1 DEF VaiVault!Vault
    <3> HIDE DEF z, w
    <3>4. w.accXVSPerShare = i
      BY <3>1, <3>2, <3>3
    <3> QED BY <1>1, <2>2, <3>4 DEF SharedIndex, VaiVault!getExp
  <2> QED BY <2>1, <2>2
<1> QED BY <1>2, <1>3, <1>4

\* With a higher index, nobody is owed less.
LEMMA IndexMonotone ==
  ASSUME NEW v, NEW w, NEW user, v.accXVSPerShare \in Nat, w.accXVSPerShare \in Nat,
         v.accXVSPerShare <= w.accXVSPerShare,
         user.amount \in Nat, user.rewardDebt \in Nat
  PROVE  VaiVault!pendingXVS(v, user) <= VaiVault!pendingXVS(w, user)
<1> DEFINE x == v.accXVSPerShare * user.amount
           y == w.accXVSPerShare * user.amount
<1>1. x \in Nat /\ y \in Nat /\ x <= y
  BY MulMonotone
<1>2. /\ VaiVault!pendingXVS(v, user) = x \div expScale - user.rewardDebt
      /\ VaiVault!pendingXVS(w, user) = y \div expScale - user.rewardDebt
  BY VaiGrown DEF VaiVault!pendingXVS, mulScalarTruncate, truncate
<1> HIDE DEF x, y
<1>3. x \div expScale <= y \div expScale /\ x \div expScale \in Nat /\ y \div expScale \in Nat
  BY <1>1, TruncateMonotone, DivBounds, ExpScaleAssumption
<1> QED BY <1>2, <1>3

\* What the properties compare, of a vault v.
Owed(v, users, a) == VaiVault!pendingXVS(VaiVault!updateVault(v), users[a])

\* A vault in which more has arrived for the same stakes owes nobody less.
LEMMA ArrivalKeeps ==
  ASSUME NEW v, NEW w, NEW users, NEW r, Sound(v, users, r), Sound(w, users, r),
         w.vai = v.vai, w.accXVSPerShare = v.accXVSPerShare,
         v.pendingRewards + (v.xvs - v.xvsBalance)
           <= w.pendingRewards + (w.xvs - w.xvsBalance),
         NEW a \in Accounts
  PROVE  Owed(v, users, a) <= Owed(w, users, a) /\ Owed(v, users, a) \in Nat
         /\ Owed(w, users, a) \in Nat
<1> DEFINE x == v.pendingRewards + (v.xvs - v.xvsBalance)
           y == w.pendingRewards + (w.xvs - w.xvsBalance)
           k == v.vai
<1>1. /\ expScale \in Nat /\ v.vai \in Nat /\ v.accXVSPerShare \in Nat
      /\ v.pendingRewards \in Nat /\ v.xvs \in Nat /\ v.xvsBalance \in Nat
      /\ v.xvsBalance <= v.xvs
  BY SoundTypes DEF Sound
<1>2. /\ w.pendingRewards \in Nat /\ w.xvs \in Nat /\ w.xvsBalance \in Nat
      /\ w.xvsBalance <= w.xvs
  BY SoundTypes DEF Sound
<1>3. x \in Nat /\ y \in Nat /\ x <= y /\ k \in Nat
  BY <1>1, <1>2
<1>4. SharedIndex(v) <= SharedIndex(w)
  <2>1. CASE k = 0
    BY <1>1, <2>1 DEF SharedIndex
  <2>2. CASE k # 0
    <3>1. /\ SharedIndex(v) = v.accXVSPerShare + (x * expScale) \div k
          /\ SharedIndex(w) = v.accXVSPerShare + (y * expScale) \div k
      BY <2>2 DEF SharedIndex
    <3> HIDE DEF x, y, k
    <3>2. x * expScale \in Nat /\ y * expScale \in Nat /\ x * expScale <= y * expScale
      BY <1>1, <1>3, MulMonotone
    <3>3. /\ (x * expScale) \div k <= (y * expScale) \div k
          /\ (x * expScale) \div k \in Nat /\ (y * expScale) \div k \in Nat
      BY <1>3, <2>2, <3>2, TruncateMonotone, DivBounds
    <3> QED BY <1>1, <3>1, <3>3
  <2> QED BY <2>1, <2>2
<1>5. /\ Sound(VaiVault!updateVault(v), users, r) /\ Sound(VaiVault!updateVault(w), users, r)
      /\ VaiVault!updateVault(v).accXVSPerShare <= VaiVault!updateVault(w).accXVSPerShare
  BY <1>4, ShareSound, SharedIs
<1>6. /\ VaiVault!updateVault(v).accXVSPerShare \in Nat
      /\ VaiVault!updateVault(w).accXVSPerShare \in Nat
      /\ users[a].amount \in Nat /\ users[a].rewardDebt \in Nat
  BY <1>5, SoundTypes
<1>7. Owed(v, users, a) <= Owed(w, users, a)
  BY <1>5, <1>6, IndexMonotone DEF Owed
<1> QED BY <1>5, <1>7, OwedFacts DEF Owed

\* What deposit, withdraw and claim come to.
Settlement(a, n) ==
  LET v == VaiVault!updateVault(vault)
      w == VaiVault!safeXVSTransfer(v, VaiVault!pendingXVS(v, vaiUsers[a]))
  IN  /\ vault' = [w EXCEPT !.vai = (w.vai - vaiUsers[a].amount) + n]
      /\ vaiUsers' = [vaiUsers EXCEPT ![a] =
           [amount |-> n, rewardDebt |-> mulScalarTruncate(v.accXVSPerShare, n)]]
      /\ xvsReceived' = [xvsReceived EXCEPT ![a] = @ + (vault.xvs - w.xvs)]
      /\ resized' = IF n = vaiUsers[a].amount THEN resized ELSE resized + 1
      /\ UNCHANGED <<comptroller, vaiBlock>>

\* What the invariant says of the parts of the state.
LEMMA VaiState ==
  ASSUME VaiInv
  PROVE  /\ Sound(vault, vaiUsers, resized)
         /\ vault \in VaiVault!Vault /\ vaiUsers \in [Accounts -> UserRec]
         /\ vault.xvs \in Nat /\ vault.xvsBalance \in Nat /\ vault.pendingRewards \in Nat
         /\ vault.vai \in Nat /\ vault.xvsBalance <= vault.xvs
         /\ xvsReceived \in [Accounts -> Nat] /\ resized \in Nat /\ vaiBlock \in Nat
         /\ comptroller \in VaiVault!Comptroller
  BY DEF VaiInv, Sound, VaiVault!TypeOK, VaiVault!Vault

\* The calls of depositors settle.
LEMMA SetAmountSettles ==
  ASSUME VaiInv, NEW a \in Accounts, NEW n \in Nat, VaiVault!SetAmount(a, n)
  PROVE  Settlement(a, n)
<1> DEFINE v == VaiVault!updateVault(vault)
           p == VaiVault!pendingXVS(v, vaiUsers[a])
           w == VaiVault!safeXVSTransfer(v, p)
<1>1. w = VaiVault!settled(a)
  BY Zenon DEF VaiVault!settled
<1>2. Sound(v, vaiUsers, resized)
  BY VaiState, ShareSound
<1>3. p \in Nat /\ v \in VaiVault!Vault
  BY <1>2, OwedFacts, SoundTypes
<1>4. w.accXVSPerShare = v.accXVSPerShare
  BY <1>3, TransferFacts
<1>5. VaiVault!userAfter(w, vaiUsers[a], n)
        = [amount |-> n, rewardDebt |-> mulScalarTruncate(v.accXVSPerShare, n)]
  BY <1>4 DEF VaiVault!userAfter, VaiVault!mulScalarTruncate, VaiVault!truncate,
              mulScalarTruncate, truncate
<1> HIDE DEF w
<1>6. /\ vault' = [w EXCEPT !.vai = (@ - vaiUsers[a].amount) + n]
      /\ vaiUsers' = [vaiUsers EXCEPT ![a] = VaiVault!userAfter(w, vaiUsers[a], n)]
      /\ xvsReceived' = [xvsReceived EXCEPT ![a] = @ + (vault.xvs - w.xvs)]
      /\ resized' = IF n = vaiUsers[a].amount THEN resized ELSE resized + 1
      /\ UNCHANGED <<comptroller, vaiBlock>>
  BY <1>1, Zenon DEF VaiVault!SetAmount
<1>7. vault' = [w EXCEPT !.vai = (w.vai - vaiUsers[a].amount) + n]
  BY <1>6
<1> QED BY <1>5, <1>6, <1>7 DEF Settlement, w

\* A settlement keeps the invariant, and nobody is worse off by it, except who
\* is owed more than there is.
LEMMA SettlementFacts ==
  ASSUME VaiInv, NEW a \in Accounts, NEW n \in Nat, Settlement(a, n)
  PROVE  /\ VaiInv'
         /\ \A b \in Accounts :
              \/ xvsReceived'[b] + Owed(vault', vaiUsers', b)
                   >= xvsReceived[b] + Owed(vault, vaiUsers, b)
              \/ Owed(vault, vaiUsers, b) > vault.xvs
<1> DEFINE v == VaiVault!updateVault(vault)
           p == VaiVault!pendingXVS(v, vaiUsers[a])
           w == VaiVault!safeXVSTransfer(v, p)
<1>1. /\ Sound(v, vaiUsers, resized) /\ v.xvsBalance = v.xvs /\ v.xvs = vault.xvs
  BY VaiState, ShareSound
<1>2. p \in Nat /\ v \in VaiVault!Vault /\ v.accXVSPerShare \in Nat
  BY <1>1, OwedFacts, SoundTypes
<1>3. /\ w \in VaiVault!Vault /\ w.xvs <= v.xvs /\ (p <= v.xvs => w.xvs = v.xvs - p)
      /\ w.accXVSPerShare = v.accXVSPerShare /\ w.xvs \in Nat /\ w.vai \in Nat
  <2>1. /\ w \in VaiVault!Vault /\ w.xvs <= v.xvs /\ (p <= v.xvs => w.xvs = v.xvs - p)
        /\ w.accXVSPerShare = v.accXVSPerShare
    BY <1>2, TransferFacts
  <2> HIDE DEF w
  <2> QED BY <2>1 DEF VaiVault!Vault
<1>4. /\ vault' = [w EXCEPT !.vai = (w.vai - vaiUsers[a].amount) + n]
      /\ vaiUsers' = [vaiUsers EXCEPT ![a] =
           [amount |-> n, rewardDebt |-> mulScalarTruncate(v.accXVSPerShare, n)]]
      /\ xvsReceived' = [xvsReceived EXCEPT ![a] = @ + (vault.xvs - w.xvs)]
      /\ resized' = IF n = vaiUsers[a].amount THEN resized ELSE resized + 1
      /\ UNCHANGED <<comptroller, vaiBlock>>
  BY DEF Settlement
<1>5. resized' \in Nat
  BY <1>4, VaiState
<1>6. Sound(vault', vaiUsers', resized')
  <2> DEFINE z == [w EXCEPT !.vai = (w.vai - vaiUsers[a].amount) + n]
             s == [vaiUsers EXCEPT ![a] =
                     [amount |-> n, rewardDebt |-> mulScalarTruncate(v.accXVSPerShare, n)]]
             t == IF n = vaiUsers[a].amount THEN resized ELSE resized + 1
  <2>1. t \in Nat
    BY VaiState
  <2>2. Sound(z, s, t)
    BY <1>1, <2>1, ResizeSound
  <2> QED BY <1>4, <2>2
<1>7. vault'.accXVSPerShare = v.accXVSPerShare
  <2> HIDE DEF v, w
  <2> QED BY <1>3, <1>4 DEF VaiVault!Vault
<1>8. VaiInv'
  <2>1. vault.xvs - w.xvs \in Nat
    BY <1>1, <1>3, VaiState
  <2> HIDE DEF w
  <2>2. xvsReceived' \in [Accounts -> Nat]
    BY <1>4, <2>1, VaiState
  <2>3. vault' \in VaiVault!Vault /\ vaiUsers' \in [Accounts -> UserRec]
    BY <1>6 DEF Sound
  <2>4. comptroller' \in VaiVault!Comptroller /\ vaiBlock' \in Nat
    BY <1>4, VaiState
  <2> QED BY <1>5, <1>6, <2>2, <2>3, <2>4 DEF VaiInv, VaiVault!TypeOK, UserRec
<1>9. ASSUME NEW b \in Accounts, Owed(vault, vaiUsers, b) <= vault.xvs
      PROVE  xvsReceived'[b] + Owed(vault', vaiUsers', b)
               >= xvsReceived[b] + Owed(vault, vaiUsers, b)
  <2> DEFINE u == VaiVault!updateVault(vault')
  <2>1. Sound(u, vaiUsers', resized') /\ u.accXVSPerShare >= v.accXVSPerShare
    BY <1>6, <1>7, ShareSound
  <2>2. Owed(vault', vaiUsers', b) \in Nat /\ Owed(vault, vaiUsers, b) \in Nat
        /\ xvsReceived[b] \in Nat
    BY <1>1, <2>1, OwedFacts, VaiState DEF Owed
  <2>3. CASE b = a
    <3>1. Owed(vault, vaiUsers, b) = p
      BY <2>3 DEF Owed
    <3> HIDE DEF p
    <3>2. vault.xvs - w.xvs = p
      BY <1>1, <1>2, <1>3, <1>9, <3>1, VaiState
    <3>3. xvsReceived'[b] = xvsReceived[b] + p
      <4> HIDE DEF w
      <4> QED BY <1>4, <2>3, <3>2, VaiState
    <3> QED BY <1>2, <2>2, <3>1, <3>3
  <2>4. CASE b # a
    <3>1. xvsReceived'[b] = xvsReceived[b] /\ vaiUsers'[b] = vaiUsers[b]
      <4> HIDE DEF v, w
      <4> QED BY <1>4, <2>4, VaiState
    <3>2. VaiVault!pendingXVS(v, vaiUsers[b]) <= VaiVault!pendingXVS(u, vaiUsers[b])
      <4> HIDE DEF u, v
      <4>1. /\ expScale \in Nat \ {0} /\ v.accXVSPerShare \in Nat
            /\ vaiUsers[b].amount \in Nat /\ vaiUsers[b].rewardDebt \in Nat
        BY <1>1, SoundTypes
      <4>2. u.accXVSPerShare \in Nat
        BY <2>1, SoundTypes
      <4> QED BY <2>1, <4>1, <4>2, IndexMonotone
    <3> QED BY <2>2, <3>1, <3>2 DEF Owed
  <2> QED BY <2>3, <2>4
<1>10. ASSUME NEW b \in Accounts
       PROVE  Owed(vault, vaiUsers, b) <= vault.xvs \/ Owed(vault, vaiUsers, b) > vault.xvs
  BY <1>1, OwedFacts, VaiState DEF Owed
<1> QED BY <1>8, <1>9, <1>10

\* What is worth keeping for everybody, as EarningsKept says it.
NobodyWorse ==
  \A b \in Accounts :
    \/ xvsReceived'[b] + Owed(vault', vaiUsers', b)
         >= xvsReceived[b] + Owed(vault, vaiUsers, b)
    \/ Owed(vault, vaiUsers, b) > vault.xvs

\* More VAI or more XVS than before does no harm to the books.
LEMMA MoreSound ==
  ASSUME NEW v, NEW users, NEW r, Sound(v, users, r), NEW z \in VaiVault!Vault,
         z.accXVSPerShare = v.accXVSPerShare, z.pendingRewards = v.pendingRewards,
         z.xvsBalance = v.xvsBalance, z.xvs >= v.xvs, z.vai >= v.vai
  PROVE  Sound(z, users, r)
<1>1. Exacts(z, users) = Exacts(v, users)
  BY DEF Exacts, Exact
<1>2. z.xvsBalance <= z.xvs
  BY SoundTypes DEF Sound, VaiVault!Vault
<1>3. Total(Stakes(users)) <= z.vai
  BY SoundTypes DEF Sound, VaiVault!Vault
<1> QED BY <1>1, <1>2, <1>3 DEF Sound

\* A step in which XVS arrives, or nothing happens, for the same stakes.
LEMMA ArrivalFacts ==
  ASSUME VaiInv, Sound(vault', vaiUsers, resized),
         UNCHANGED <<vaiUsers, xvsReceived, resized>>,
         comptroller' \in VaiVault!Comptroller, vaiBlock' \in Nat,
         vault'.vai = vault.vai, vault'.accXVSPerShare = vault.accXVSPerShare,
         vault.pendingRewards + (vault.xvs - vault.xvsBalance)
           <= vault'.pendingRewards + (vault'.xvs - vault'.xvsBalance)
  PROVE  VaiInv' /\ NobodyWorse
<1>1. Sound(vault', vaiUsers', resized')
  BY Zenon
<1>2. VaiInv'
  BY <1>1, VaiState DEF VaiInv, VaiVault!TypeOK, Sound, UserRec
<1>3. ASSUME NEW b \in Accounts
      PROVE  xvsReceived'[b] + Owed(vault', vaiUsers', b)
               >= xvsReceived[b] + Owed(vault, vaiUsers, b)
  <2>1. /\ Owed(vault, vaiUsers, b) <= Owed(vault', vaiUsers, b)
        /\ Owed(vault, vaiUsers, b) \in Nat /\ Owed(vault', vaiUsers, b) \in Nat
    BY VaiState, ArrivalKeeps
  <2>2. xvsReceived[b] \in Nat
    BY VaiState
  <2>3. Owed(vault', vaiUsers', b) = Owed(vault', vaiUsers, b)
    BY Zenon
  <2> QED BY <2>1, <2>2, <2>3
<1> QED BY <1>2, <1>3 DEF NobodyWorse

\* What is released is in the comptroller.
LEMMA ReleaseFacts ==
  ASSUME VaiInv, VaiVault!releases
  PROVE  VaiVault!releaseAmount \in Nat /\ VaiVault!releaseAmount <= comptroller.xvs
<1>1. /\ comptroller.xvs \in Nat /\ comptroller.venusVAIVaultRate \in Nat
      /\ comptroller.releaseStartBlock \in Nat /\ vaiBlock \in Nat
      /\ vaiBlock >= comptroller.releaseStartBlock
  BY VaiState DEF VaiVault!Comptroller, VaiVault!releases
<1> DEFINE owing == comptroller.venusVAIVaultRate * (vaiBlock - comptroller.releaseStartBlock)
<1>2. owing \in Nat
  <2>1. vaiBlock - comptroller.releaseStartBlock \in Nat
    BY <1>1
  <2> QED BY <1>1, <2>1
<1>3. VaiVault!releaseAmount = IF comptroller.xvs >= owing THEN owing ELSE comptroller.xvs
  BY DEF VaiVault!releaseAmount
<1> HIDE DEF owing
<1> QED BY <1>1, <1>2, <1>3

\* A release at any rate.
LEMMA ReleaseKeeps ==
  ASSUME VaiInv, NEW rate \in Nat, VaiVault!ReleaseToVault(rate)
  PROVE  VaiInv' /\ NobodyWorse
<1>1. UNCHANGED <<vaiUsers, xvsReceived, resized, vaiBlock>>
  BY DEF VaiVault!ReleaseToVault
<1>2. CASE VaiVault!releases
  <2> DEFINE k == VaiVault!releaseAmount
             v == [vault EXCEPT !.xvs = @ + k]
  <2>1. k \in Nat /\ k <= comptroller.xvs
    BY <1>2, ReleaseFacts
  <2>2. /\ comptroller' = [comptroller EXCEPT !.xvs = @ - k,
                                              !.releaseStartBlock = vaiBlock,
                                              !.venusVAIVaultRate = rate]
        /\ vault' = VaiVault!updatePendingRewards(v)
    BY <1>2, Zenon DEF VaiVault!ReleaseToVault
  <2> HIDE DEF k
  <2>3. /\ v \in VaiVault!Vault /\ v.xvs = vault.xvs + k /\ v.vai = vault.vai
        /\ v.accXVSPerShare = vault.accXVSPerShare
        /\ v.pendingRewards = vault.pendingRewards /\ v.xvsBalance = vault.xvsBalance
    BY <2>1, VaiState DEF VaiVault!Vault
  <2> HIDE DEF v
  <2>4. Sound(v, vaiUsers, resized)
    BY <2>1, <2>3, VaiState, MoreSound
  <2>5. /\ Sound(vault', vaiUsers, resized) /\ vault'.xvsBalance = vault'.xvs
        /\ vault'.xvs = v.xvs /\ vault'.vai = v.vai
        /\ vault'.accXVSPerShare = v.accXVSPerShare
        /\ vault'.pendingRewards = v.pendingRewards + (v.xvs - v.xvsBalance)
    BY <2>2, <2>4, PendingSound
  <2>6. comptroller' \in VaiVault!Comptroller
    <3> DEFINE c == [comptroller EXCEPT !.xvs = @ - k]
               d == [c EXCEPT !.releaseStartBlock = vaiBlock]
    <3>1. comptroller' = [d EXCEPT !.venusVAIVaultRate = rate]
      BY <2>2, SMT
    <3>2. c \in VaiVault!Comptroller
      BY <2>1, VaiState DEF VaiVault!Comptroller
    <3> HIDE DEF c
    <3>3. d \in VaiVault!Comptroller
      BY <3>2, VaiState DEF VaiVault!Comptroller
    <3> HIDE DEF d
    <3> QED BY <3>1, <3>3 DEF VaiVault!Comptroller
  <2>7. vault.pendingRewards + (vault.xvs - vault.xvsBalance)
          <= vault'.pendingRewards + (vault'.xvs - vault'.xvsBalance)
    BY <2>1, <2>3, <2>5, VaiState
  <2> QED BY <1>1, <2>3, <2>5, <2>6, <2>7, VaiState, ArrivalFacts
<1>3. CASE ~ VaiVault!releases
  <2>1. /\ comptroller' = [comptroller EXCEPT !.venusVAIVaultRate = rate]
        /\ vault' = vault
    BY <1>3, Zenon DEF VaiVault!ReleaseToVault
  <2>2. comptroller' \in VaiVault!Comptroller
    BY <2>1, VaiState DEF VaiVault!Comptroller
  <2>3. Sound(vault', vaiUsers, resized)
    BY <2>1, VaiState
  <2> QED BY <1>1, <2>1, <2>2, <2>3, VaiState, ArrivalFacts
<1> QED BY <1>2, <1>3

\* Every step of the VAI vault keeps its books, and nobody is worse off by it,
\* but for a donation of VAI.
LEMMA VaiStep ==
  VaiInv /\ [VaiVault!Next]_vaiVars =>
    /\ VaiInv'
    /\ (\E amount \in Deposits : VaiVault!DonateVAI(amount)) \/ NobodyWorse
<1> SUFFICES ASSUME VaiInv, [VaiVault!Next]_vaiVars
             PROVE  /\ VaiInv'
                    /\ \/ \E amount \in Deposits : VaiVault!DonateVAI(amount)
                       \/ NobodyWorse
  OBVIOUS
<1>0. /\ Sound(vault, vaiUsers, resized)
      /\ vault \in VaiVault!Vault /\ vaiUsers \in [Accounts -> UserRec]
      /\ vault.xvs \in Nat /\ vault.xvsBalance \in Nat /\ vault.pendingRewards \in Nat
      /\ vault.vai \in Nat /\ vault.xvsBalance <= vault.xvs
      /\ comptroller \in VaiVault!Comptroller /\ vaiBlock \in Nat
      /\ \A a \in Accounts : vaiUsers[a].amount \in Nat
  BY VaiState DEF UserRec
<1>1. ASSUME NEW a \in Accounts,
             \/ VaiVault!Claim(a)
             \/ \E amount \in Deposits : VaiVault!Deposit(a, amount) \/ VaiVault!Withdraw(a, amount)
      PROVE  VaiInv' /\ NobodyWorse
  <2>1. PICK n \in Nat : VaiVault!SetAmount(a, n)
    <3>1. CASE VaiVault!Claim(a)
      BY <1>0, <3>1 DEF VaiVault!Claim
    <3>2. ASSUME NEW amount \in Deposits, VaiVault!Deposit(a, amount)
          PROVE  \E n \in Nat : VaiVault!SetAmount(a, n)
      <4>1. vaiUsers[a].amount + amount \in Nat
        BY <1>0, VaultsFacts
      <4> QED BY <3>2, <4>1 DEF VaiVault!Deposit
    <3>3. ASSUME NEW amount \in Deposits, VaiVault!Withdraw(a, amount)
          PROVE  \E n \in Nat : VaiVault!SetAmount(a, n)
      <4>1. vaiUsers[a].amount - amount \in Nat
        BY <1>0, <3>3, VaultsFacts DEF VaiVault!Withdraw
      <4> QED BY <3>3, <4>1 DEF VaiVault!Withdraw
    <3> QED BY <1>1, <3>1, <3>2, <3>3
  <2>2. Settlement(a, n)
    BY <2>1, SetAmountSettles
  <2> QED BY <2>2, SettlementFacts DEF NobodyWorse
<1>2. CASE VaiVault!UpdatePendingRewards
  <2>1. /\ vault' = VaiVault!updatePendingRewards(vault)
        /\ UNCHANGED <<comptroller, vaiUsers, xvsReceived, resized, vaiBlock>>
    BY <1>2 DEF VaiVault!UpdatePendingRewards, VaiVault!SetVault
  <2>2. /\ Sound(vault', vaiUsers, resized) /\ vault'.xvsBalance = vault'.xvs
        /\ vault'.xvs = vault.xvs /\ vault'.vai = vault.vai
        /\ vault'.accXVSPerShare = vault.accXVSPerShare
        /\ vault'.pendingRewards = vault.pendingRewards + (vault.xvs - vault.xvsBalance)
    BY <1>0, <2>1, PendingSound
  <2> QED BY <1>0, <2>1, <2>2, ArrivalFacts
<1>3. CASE VaiVault!MarketHook
  <2>1. comptroller.venusVAIVaultRate \in Nat
    BY <1>0 DEF VaiVault!Comptroller
  <2> QED BY <1>3, <2>1, ReleaseKeeps DEF VaiVault!MarketHook
<1>4. ASSUME NEW rate \in Rates, VaiVault!SetVenusVAIVaultRate(rate)
      PROVE  VaiInv' /\ NobodyWorse
  <2>1. rate \in Nat
    BY VaultsFacts
  <2> QED BY <1>4, <2>1, ReleaseKeeps DEF VaiVault!SetVenusVAIVaultRate
<1>5. ASSUME NEW paused \in BOOLEAN, VaiVault!SetPaused(paused)
      PROVE  VaiInv' /\ NobodyWorse
  <2>1. /\ vault' = [vault EXCEPT !.vaultPaused = paused]
        /\ UNCHANGED <<comptroller, vaiUsers, xvsReceived, resized, vaiBlock>>
    BY <1>5 DEF VaiVault!SetPaused, VaiVault!SetVault
  <2>2. /\ vault' \in VaiVault!Vault /\ vault'.xvs = vault.xvs /\ vault'.vai = vault.vai
        /\ vault'.accXVSPerShare = vault.accXVSPerShare
        /\ vault'.pendingRewards = vault.pendingRewards
        /\ vault'.xvsBalance = vault.xvsBalance
    BY <1>0, <2>1 DEF VaiVault!Vault
  <2>3. Sound(vault', vaiUsers, resized)
    BY <1>0, <2>2, MoreSound
  <2> QED BY <1>0, <2>1, <2>2, <2>3, ArrivalFacts
<1>6. ASSUME NEW amount \in Rewards, VaiVault!DonateXVS(amount)
      PROVE  VaiInv' /\ NobodyWorse
  <2>1. /\ amount \in Nat /\ vault' = [vault EXCEPT !.xvs = @ + amount]
        /\ UNCHANGED <<comptroller, vaiUsers, xvsReceived, resized, vaiBlock>>
    BY <1>6, VaultsFacts DEF VaiVault!DonateXVS, VaiVault!SetVault
  <2>2. /\ vault' \in VaiVault!Vault /\ vault'.xvs = vault.xvs + amount
        /\ vault'.vai = vault.vai
        /\ vault'.accXVSPerShare = vault.accXVSPerShare
        /\ vault'.pendingRewards = vault.pendingRewards
        /\ vault'.xvsBalance = vault.xvsBalance
    BY <1>0, <2>1 DEF VaiVault!Vault
  <2>3. vault'.xvs >= vault.xvs /\ vault'.vai >= vault.vai
    BY <1>0, <2>1, <2>2
  <2>4. Sound(vault', vaiUsers, resized)
    BY <1>0, <2>2, <2>3, MoreSound
  <2> QED BY <1>0, <2>1, <2>2, <2>4, ArrivalFacts
<1>7. ASSUME NEW amount \in Deposits, VaiVault!DonateVAI(amount)
      PROVE  VaiInv'
  <2>1. /\ amount \in Nat /\ vault' = [vault EXCEPT !.vai = @ + amount]
        /\ UNCHANGED <<comptroller, vaiUsers, xvsReceived, resized, vaiBlock>>
    BY <1>7, VaultsFacts DEF VaiVault!DonateVAI, VaiVault!SetVault
  <2>2. /\ vault' \in VaiVault!Vault /\ vault'.xvs = vault.xvs
        /\ vault'.vai = vault.vai + amount
        /\ vault'.accXVSPerShare = vault.accXVSPerShare
        /\ vault'.pendingRewards = vault.pendingRewards
        /\ vault'.xvsBalance = vault.xvsBalance
    BY <1>0, <2>1 DEF VaiVault!Vault
  <2>3. vault'.xvs >= vault.xvs /\ vault'.vai >= vault.vai
    BY <1>0, <2>1, <2>2
  <2>4. Sound(vault', vaiUsers, resized)
    BY <1>0, <2>2, <2>3, MoreSound
  <2>5. Sound(vault', vaiUsers', resized')
    BY <2>1, <2>4, Zenon
  <2> QED BY <2>1, <2>2, <2>5 DEF VaiInv, VaiVault!TypeOK
<1>8. ASSUME \/ \E amount \in Rewards : VaiVault!Fund(amount) \/ VaiVault!Grant(amount)
             \/ VaiVault!NextBlock \/ UNCHANGED vaiVars
      PROVE  VaiInv' /\ NobodyWorse
  <2>1. /\ UNCHANGED <<vault, vaiUsers, xvsReceived, resized>>
        /\ vaiBlock' \in Nat
    BY <1>0, <1>8 DEF VaiVault!Fund, VaiVault!Grant, VaiVault!SetBalance,
                      VaiVault!NextBlock, vaiVars
  <2>2. comptroller' \in VaiVault!Comptroller
    <3>1. ASSUME NEW xvs \in Nat, VaiVault!SetBalance(xvs)
          PROVE  comptroller' \in VaiVault!Comptroller
      BY <1>0, <3>1 DEF VaiVault!SetBalance, VaiVault!Comptroller
    <3>2. \A amount \in Rewards : amount \in Nat
      BY VaultsFacts
    <3>3. comptroller.xvs \in Nat
      BY <1>0 DEF VaiVault!Comptroller
    <3>4. \A amount \in Rewards :
            /\ comptroller.xvs + amount \in Nat
            /\ amount <= comptroller.xvs => comptroller.xvs - amount \in Nat
      BY <3>2, <3>3
    <3>5. CASE \E amount \in Rewards : VaiVault!Fund(amount) \/ VaiVault!Grant(amount)
      BY <3>1, <3>4, <3>5 DEF VaiVault!Fund, VaiVault!Grant
    <3>6. CASE VaiVault!NextBlock \/ UNCHANGED vaiVars
      BY <1>0, <3>6 DEF VaiVault!NextBlock, vaiVars
    <3> QED BY <1>8, <3>5, <3>6
  <2>3. Sound(vault', vaiUsers, resized)
    BY <1>0, <2>1
  <2> QED BY <1>0, <2>1, <2>2, <2>3, ArrivalFacts
<1> QED
  BY <1>1, <1>2, <1>3, <1>4, <1>5, <1>6, <1>7, <1>8 DEF VaiVault!Next
-----------------------------------------------------------------------------
(* What the vaults promise. *)

\* Nobody has anything in a new vault.
LEMMA VaultsInit == PeripheryInit => VrtInv /\ VaiInv
<1> SUFFICES ASSUME PeripheryInit PROVE VrtInv /\ VaiInv
  OBVIOUS
<1>1. VrtInv
  <2>1. /\ vrtUsers = [a \in Accounts |-> [hasPosition |-> FALSE, accrualStartBlockNumber |-> 0,
                                           totalPrincipalAmount |-> 0]]
        /\ vrt = 0 /\ lastAccruingBlock = 0 /\ vaultPaused = FALSE
        /\ vrtReceived = [a \in Accounts |-> 0] /\ given = 0 /\ vrtBlock = 1
    BY DEF PeripheryInit, VrtVault!Init
  <2>2. VrtVault!TypeOK
    <3>1. [hasPosition |-> FALSE, accrualStartBlockNumber |-> 0,
           totalPrincipalAmount |-> 0] \in VrtVault!UserInfo
      BY DEF VrtVault!UserInfo
    <3>2. vrtUsers \in [Accounts -> VrtVault!UserInfo]
      BY <2>1, <3>1, Zenon
    <3>3. /\ vrt \in Nat /\ lastAccruingBlock \in Nat /\ vrtBlock \in Nat
          /\ vrtReceived \in [Accounts -> Nat] /\ given \in Int
      BY <2>1
    <3>4. vaultPaused \in BOOLEAN
      BY <2>1, Zenon
    <3> QED BY <3>2, <3>3, <3>4, Zenon DEF VrtVault!TypeOK
  <2>3. StartsPassed
    BY <2>1 DEF StartsPassed
  <2>4. /\ Principals \in [Accounts -> Nat] /\ \A a \in Accounts : Principals[a] = 0
        /\ vrtReceived \in [Accounts -> Nat] /\ \A a \in Accounts : vrtReceived[a] = 0
    BY <2>1 DEF Principals
  <2>5. Total(Principals) = 0 /\ Total(vrtReceived) = 0
    BY <2>4, TotalZero
  <2>6. VrtVault!BooksAgree
    BY <2>1, <2>5, VrtBooks
  <2> QED BY <2>2, <2>3, <2>6 DEF VrtInv
<1>2. VaiInv
  <2>1. PICK xvs \in Nat, start \in Nat, rate \in Nat, minimum \in Nat :
          VaiVault!InitWith(xvs, start, rate, minimum)
    BY DEF PeripheryInit
  <2>2. /\ vaiBlock = 1 /\ resized = 0
        /\ vault = [vai |-> 0, xvs |-> 0, xvsBalance |-> 0, pendingRewards |-> 0,
                    accXVSPerShare |-> 0, vaultPaused |-> FALSE]
        /\ vaiUsers = [a \in Accounts |-> [amount |-> 0, rewardDebt |-> 0]]
        /\ xvsReceived = [a \in Accounts |-> 0]
        /\ comptroller \in VaiVault!Comptroller
    BY <2>1 DEF VaiVault!InitWith, VaiVault!Comptroller
  <2>3. VaiVault!TypeOK
    BY <2>2 DEF VaiVault!TypeOK, VaiVault!Vault
  <2>4. expScale \in Nat
    BY ExpScaleAssumption
  <2>5. \A a \in Accounts : vaiUsers[a].amount = 0 /\ vaiUsers[a].rewardDebt = 0
    BY <2>2
  <2>6. vault.accXVSPerShare = 0 /\ vault.xvsBalance = 0 /\ vault.xvs = 0
        /\ vault.pendingRewards = 0 /\ vault.vai = 0
    BY <2>2
  <2>7. \A a \in Accounts : Exact(vault, vaiUsers[a]) = 0
    BY <2>4, <2>5, <2>6 DEF Exact
  <2>8. /\ Stakes(vaiUsers) \in [Accounts -> Nat]
        /\ \A a \in Accounts : Stakes(vaiUsers)[a] = 0
        /\ Exacts(vault, vaiUsers) \in [Accounts -> Nat]
        /\ \A a \in Accounts : Exacts(vault, vaiUsers)[a] = 0
    BY <2>5, <2>7 DEF Stakes, Exacts
  <2>9. Total(Stakes(vaiUsers)) = 0 /\ Total(Exacts(vault, vaiUsers)) = 0
    BY <2>8, TotalZero
  <2>10. vault \in VaiVault!Vault /\ vaiUsers \in [Accounts -> UserRec]
    BY <2>2 DEF VaiVault!Vault, UserRec
  <2>11. Sound(vault, vaiUsers, resized)
    BY <2>2, <2>4, <2>5, <2>6, <2>7, <2>9, <2>10 DEF Sound
  <2> QED BY <2>3, <2>11 DEF VaiInv
<1> QED BY <1>1, <1>2

\* What the vaults' invariants say to a reader.
LEMMA VaultsPromise ==
  VaiInv => VaiVault!NeverStuck /\ VaiVault!RewardsCovered
<1> SUFFICES ASSUME VaiInv PROVE VaiVault!NeverStuck /\ VaiVault!RewardsCovered
  OBVIOUS
<1>1. Sound(vault, vaiUsers, resized)
  BY VaiState
<1>2. Total([a \in Accounts |-> vaiUsers[a].amount]) <= vault.vai
      /\ vault.xvsBalance <= vault.xvs
  BY <1>1 DEF Sound, Stakes
<1>3. \A a \in Accounts : vaiUsers[a].rewardDebt <= VaiVault!grown(vault, vaiUsers[a])
  BY <1>1, OwedFacts, VaiGrown
<1>4. Total([a \in Accounts |-> VaiVault!pendingXVS(vault, vaiUsers[a])])
        + vault.pendingRewards <= vault.xvsBalance + resized
  BY <1>1, SoundMeans
<1>5. VaiVault!NeverStuck
  BY <1>2, <1>3, VaiTotal DEF VaiVault!NeverStuck
<1>6. VaiVault!RewardsCovered
  BY <1>4, VaiTotal DEF VaiVault!RewardsCovered
<1> QED BY <1>5, <1>6

\* The same for what their steps do.
LEMMA VaultsEarn ==
  /\ VrtInv /\ [VrtVault!Next]_vrtVars =>
       \A a \in Accounts :
         LET start == vrtUsers[a].accrualStartBlockNumber
             forOneBlock == vrtUsers[a].totalPrincipalAmount * interestRatePerBlock
             gain == (VrtVault!earned(a)' - VrtVault!earned(a)) * expScale
         IN  IF VrtVault!NextBlock /\ start # 0 /\ vrtBlock < lastAccruingBlock
               THEN gain \in (forOneBlock - expScale) .. (forOneBlock + expScale)
               ELSE gain = 0
  /\ VaiInv /\ [VaiVault!Next]_vaiVars =>
       \/ \E amount \in Deposits : VaiVault!DonateVAI(amount)
       \/ \A a \in Accounts :
            \/ xvsReceived'[a] + VaiVault!owedNow(a)' >= xvsReceived[a] + VaiVault!owedNow(a)
            \/ VaiVault!owedNow(a) > vault.xvs
<1>1. ASSUME VrtInv, [VrtVault!Next]_vrtVars, NEW a \in Accounts
      PROVE  LET start == vrtUsers[a].accrualStartBlockNumber
                 forOneBlock == vrtUsers[a].totalPrincipalAmount * interestRatePerBlock
                 gain == (VrtVault!earned(a)' - VrtVault!earned(a)) * expScale
             IN  IF VrtVault!NextBlock /\ start # 0 /\ vrtBlock < lastAccruingBlock
                   THEN gain \in (forOneBlock - expScale) .. (forOneBlock + expScale)
                   ELSE gain = 0
  <2>1. VrtVault!earned(a) = VrtEarned(a)
    BY AccruedIs DEF VrtVault!earned, VrtEarned, vrtEnd
  <2>2. VrtVault!earned(a)' = VrtEarned(a)'
    BY DEF VrtVault!earned, VrtVault!accruedInterest, VrtVault!endOfAccrual,
           VrtEarned, vrtEnd, Interest, AccrualEnd
  <2>3. EarnsRight(a)
    BY <1>1, VrtEarns
  <2> QED BY <2>1, <2>2, <2>3, Zenon DEF EarnsRight
<1>2. ASSUME NEW a \in Accounts
      PROVE  /\ VaiVault!owedNow(a) = Owed(vault, vaiUsers, a)
             /\ VaiVault!owedNow(a)' = Owed(vault', vaiUsers', a)
  BY DEF VaiVault!owedNow, Owed
<1>3. VaiInv /\ [VaiVault!Next]_vaiVars =>
        \/ \E amount \in Deposits : VaiVault!DonateVAI(amount)
        \/ NobodyWorse
  BY VaiStep
<1>4. NobodyWorse =>
        \A a \in Accounts :
          \/ xvsReceived'[a] + VaiVault!owedNow(a)' >= xvsReceived[a] + VaiVault!owedNow(a)
          \/ VaiVault!owedNow(a) > vault.xvs
  BY <1>2, Zenon DEF NobodyWorse
<1> QED BY <1>1, <1>3, <1>4

\* A step of the three contracts is a step of each vault, or leaves it alone.
LEMMA VaultSteps ==
  [PeripheryNext]_<<vars, vaiVars, vrtVars>> =>
    [VaiVault!Next]_vaiVars /\ [VrtVault!Next]_vrtVars /\ [Next]_vars
BY DEF PeripheryNext

\* In every state the books of both vaults are in order.
LEMMA VaultsInvariance == PeripherySpec => [](VrtInv /\ VaiInv)
<1>1. (VrtInv /\ VaiInv) /\ [PeripheryNext]_<<vars, vaiVars, vrtVars>> => (VrtInv /\ VaiInv)'
  BY VaultSteps, VrtStep, VaiStep
<1> QED BY VaultsInit, <1>1, PTL DEF PeripherySpec

\* What the VAI vault owes its depositors, pending rewards included, is in it,
\* but for one unit for every amount that has been changed.
THEOREM RewardsAreCovered == PeripherySpec => []RewardsCovered
<1>1. VaiInv => RewardsCovered
  BY VaultsPromise DEF RewardsCovered
<1> QED BY VaultsInvariance, <1>1, PTL

\* Whoever deposits, withdraws, claims, releases or pauses: no depositor of
\* VAI has less than before, paid and owed together.
THEOREM NobodyLosesRewards == PeripherySpec => EarningsKept
<1>1. /\ VrtInv /\ VaiInv /\ [PeripheryNext]_<<vars, vaiVars, vrtVars>> =>
           [\/ \E amount \in Deposits : VaiVault!DonateVAI(amount)
            \/ \A a \in Accounts :
                 \/ xvsReceived'[a] + VaiVault!owedNow(a)' >= xvsReceived[a] + VaiVault!owedNow(a)
                 \/ VaiVault!owedNow(a) > vault.xvs]_vaiVars
  BY VaultSteps, VaultsEarn
<1> QED
  BY VaultsInvariance, <1>1, PTL
  DEF PeripherySpec, EarningsKept, VaiVault!EarningsKept, VaiVault!vars, vaiVars

\* Blocks alone make interest on VRT, each the same, whatever depositors and
\* governance do meanwhile.
THEOREM OnlyTimeEarns == PeripherySpec => InterestIsTime
<1>1. /\ VrtInv /\ VaiInv /\ [PeripheryNext]_<<vars, vaiVars, vrtVars>> =>
           [\A a \in Accounts :
              LET start == vrtUsers[a].accrualStartBlockNumber
                  forOneBlock == vrtUsers[a].totalPrincipalAmount * interestRatePerBlock
                  gain == (VrtVault!earned(a)' - VrtVault!earned(a)) * expScale
              IN  IF VrtVault!NextBlock /\ start # 0 /\ vrtBlock < lastAccruingBlock
                    THEN gain \in (forOneBlock - expScale) .. (forOneBlock + expScale)
                    ELSE gain = 0]_vrtVars
  BY VaultSteps, VaultsEarn
<1> QED
  BY VaultsInvariance, <1>1, PTL
  DEF PeripherySpec, InterestIsTime, VrtVault!InterestIsTime, VrtVault!vars, vrtVars
-----------------------------------------------------------------------------
(* The liquidator: what a liquidation pays. *)

\* A share of a bonus: what is kept of an amount, per unit of the incentive.
LEMMA KeptOfShare ==
  ASSUME NEW x \in Nat, NEW inc \in Nat, inc >= expScale, NEW p \in 0 .. expScale
  PROVE  LET share == mulScalarTruncate(p, bonusOf(x, inc))
         IN  /\ bonusOf(x, inc) \in Nat
             /\ share \in Nat /\ share <= x
             /\ (x - share) * inc >= x * expScale
             /\ (share * expScale) * inc <= p * (x * (inc - expScale))
<1> DEFINE E == expScale
           b == bonusOf(x, inc)
           s == mulScalarTruncate(p, b)
           y == x * (inc - E)
<1>1. E \in Nat \ {0} /\ inc \in Nat \ {0} /\ p \in Nat /\ p <= E /\ inc - E \in Nat
  BY ExpScaleAssumption
<1>2. y \in Nat
  BY <1>1
<1>3. b = y \div inc
  BY DEF bonusOf
<1> HIDE DEF y, b
<1>4. b \in Nat /\ b * inc <= y
  BY <1>1, <1>2, <1>3, DivBounds
<1>5. s \in Nat /\ s <= b /\ s * E <= p * b
  <2>1. s \in 0 .. b
    BY <1>4, MulFraction
  <2>2. s \in Nat /\ s * E <= p * b
    BY <1>1, <1>4, MulScalarBounds
  <2> QED BY <1>4, <2>1, <2>2
<1> HIDE DEF s, E
<1>6. s * inc <= y
  <2>1. s * inc <= b * inc
    BY <1>1, <1>4, <1>5, MulMonotone
  <2>2. s * inc \in Nat /\ b * inc \in Nat
    BY <1>1, <1>4, <1>5
  <2> QED BY <1>2, <1>4, <2>1, <2>2
<1>7. y = x * inc - x * E
  BY <1>1 DEF y
<1>8. (x - s) * inc = x * inc - s * inc
  BY <1>1, <1>5
<1>9. (x - s) * inc >= x * E
  <2>1. x * inc \in Int /\ x * E \in Int /\ s * inc \in Int
    BY <1>1, <1>5
  <2> QED BY <1>6, <1>7, <1>8, <2>1
<1>10. s <= x
  <2>1. x * inc \in Nat /\ x * E \in Nat
    BY <1>1
  <2>2. s * inc <= x * inc
    BY <1>6, <1>7, <2>1, <1>1, <1>5
  <2> QED BY <1>1, <1>5, <2>2, MulCancel
<1>11. (s * E) * inc <= p * y
  <2>1. (s * E) * inc <= (p * b) * inc
    <3>1. s * E \in Nat /\ p * b \in Nat
      BY <1>1, <1>4, <1>5
    <3> QED BY <1>1, <1>5, <3>1, MulMonotone
  <2>2. (p * b) * inc = p * (b * inc)
    BY <1>1, <1>4
  <2>3. p * (b * inc) <= p * y
    <3>1. (b * inc) * p <= y * p
      <4>1. b * inc \in Nat
        BY <1>1, <1>4
      <4> QED BY <1>1, <1>2, <1>4, <4>1, MulMonotone
    <3>2. (b * inc) * p = p * (b * inc) /\ y * p = p * y
      BY <1>1, <1>2, <1>4
    <3> QED BY <3>1, <3>2
  <2>4. (s * E) * inc \in Int /\ p * (b * inc) \in Int /\ p * y \in Int
    BY <1>1, <1>2, <1>4, <1>5
  <2> QED BY <2>1, <2>2, <2>3, <2>4
<1> QED BY <1>4, <1>5, <1>9, <1>10, <1>11 DEF E, b, s, y

\* Whoever keeps the repaid amount times the incentive, but for less than one
\* unit, keeps the repaid amount.
LEMMA KeepsRepaid ==
  ASSUME NEW amt \in Nat, NEW inc \in Nat, inc >= expScale, NEW left \in Nat,
         left * inc >= seizeTokens(amt, inc) * expScale
  PROVE  left >= amt
<1> DEFINE E == expScale
           t == seizeTokens(amt, inc)
<1>1. E \in Nat \ {0} /\ inc \in Nat \ {0}
  BY ExpScaleAssumption
<1>2. t \in Nat /\ inc * amt < t * E + E
  BY <1>1, MulScalarBounds DEF seizeTokens
<1> HIDE DEF t
<1>3. amt * inc < (left + 1) * inc
  <2>1. amt * inc = inc * amt /\ (left + 1) * inc = left * inc + inc
    BY <1>1
  <2>2. left * inc \in Nat /\ t * E \in Nat /\ inc * amt \in Nat
    BY <1>1, <1>2
  <2>3. left * inc >= t * E
    BY DEF t
  <2> QED BY <1>1, <1>2, <2>1, <2>2, <2>3
<1>4. amt < left + 1
  <2>1. left + 1 \in Nat
    OBVIOUS
  <2> QED BY <1>1, <1>3, <2>1, MulCancel
<1> QED BY <1>4

\* Both splits leave the liquidator what was repaid.
LEMMA SplitsLeave ==
  ASSUME treasuryPercent \in 0 .. expScale, liquidatorShare \in 0 .. expScale,
         NEW amt \in Nat, NEW inc \in Nat, inc >= expScale
  PROVE  LET taken == seizeTokens(amt, inc)
             got == taken - ourShare(taken, inc)
         IN  got >= amt /\ got - treasuryShare(got, inc) >= amt
<1> DEFINE E == expScale
           tp == treasuryPercent
           taken == seizeTokens(amt, inc)
           ours == ourShare(taken, inc)
           got == taken - ours
           over == mulScalarTruncate(inc - E, E - tp)
           eff == effectiveIncentive(inc)
           theirs == treasuryShare(got, inc)
           left == got - theirs
<1>1. /\ E \in Nat \ {0} /\ inc \in Nat \ {0} /\ tp \in Nat /\ tp <= E
      /\ inc - E \in Nat /\ E - tp \in Nat /\ E - liquidatorShare \in 0 .. E
  BY ExpScaleAssumption
<1>2. taken \in Nat
  BY <1>1, MulScalarBounds DEF seizeTokens
<1> HIDE DEF taken
<1>3. /\ ours \in Nat /\ ours <= taken
      /\ (taken - ours) * inc >= taken * E
      /\ (ours * E) * inc <= tp * (taken * (inc - E))
  BY <1>1, <1>2, KeptOfShare DEF ourShare
<1>4. eff = E + over
  BY DEF effectiveIncentive
<1>5. over \in Nat /\ over * E <= (inc - E) * (E - tp)
  BY <1>1, MulScalarBounds
<1> HIDE DEF ours, over
<1>6. got \in Nat
  BY <1>2, <1>3
<1>7. eff \in Nat /\ eff >= E
  BY <1>1, <1>4, <1>5
<1>8. theirs \in Nat /\ theirs <= got /\ (got - theirs) * eff >= got * E
  <2>1. theirs = mulScalarTruncate(E - liquidatorShare, bonusOf(got, eff))
    BY DEF treasuryShare
  <2> HIDE DEF got, eff, theirs
  <2> QED BY <1>1, <1>6, <1>7, <2>1, KeptOfShare DEF E
<1>9. got >= amt
  BY <1>1, <1>3, <1>6, KeepsRepaid DEF taken
\* The first share is at most its part of the bonus, so that the rest is worth
\* the effective incentive.
<1>10. got * inc >= taken * eff
  <2>1. (got * E) * inc = (taken * E) * inc - (ours * E) * inc
    BY <1>1, <1>2, <1>3
  <2>2. tp * (taken * (inc - E)) = taken * (tp * (inc - E))
    BY <1>1, <1>2
  <2>3. (taken * E) * inc = taken * (E * inc)
    BY <1>1, <1>2
  <2>4. E * inc - tp * (inc - E) = E * E + (inc - E) * (E - tp)
    BY <1>1
  <2>5. eff * E = E * E + over * E
    BY <1>1, <1>4, <1>5
  <2> HIDE DEF eff, got
  <2>6. taken * (E * inc) - taken * (tp * (inc - E)) = taken * (E * inc - tp * (inc - E))
    <3> DEFINE m == E * inc
               n == tp * (inc - E)
    <3>1. m \in Int /\ n \in Int
      BY <1>1
    <3> HIDE DEF m, n
    <3>2. taken * m - taken * n = taken * (m - n)
      BY <1>2, <3>1
    <3> QED BY <3>2 DEF m, n
  <2>7. (got * E) * inc >= taken * (E * E + (inc - E) * (E - tp))
    <3> DEFINE g == (got * E) * inc
               w == (taken * E) * inc
               o == (ours * E) * inc
               z == tp * (taken * (inc - E))
    <3>1. g \in Int /\ w \in Int /\ o \in Int /\ z \in Int
      BY <1>1, <1>2, <1>3, <1>6
    <3>2. g = w - o /\ o <= z
      BY <1>3, <2>1
    <3>3. w - z = taken * (E * E + (inc - E) * (E - tp))
      BY <2>2, <2>3, <2>4, <2>6
    <3> HIDE DEF g, w, o, z
    <3>4. g >= w - z
      BY <3>1, <3>2
    <3> QED BY <3>3, <3>4 DEF g
  <2>8. taken * (eff * E) <= taken * (E * E + (inc - E) * (E - tp))
    <3> DEFINE m == eff * E
               n == E * E + (inc - E) * (E - tp)
    <3>1. m \in Nat /\ n \in Nat /\ m <= n
      BY <1>1, <1>5, <1>7, <2>5
    <3> HIDE DEF m, n
    <3>2. m * taken <= n * taken
      BY <1>2, <3>1, MulMonotone
    <3>3. taken * m = m * taken /\ taken * n = n * taken
      BY <1>2, <3>1
    <3>4. taken * m <= taken * n
      BY <3>2, <3>3
    <3> QED BY <3>4 DEF m, n
  <2>9. (got * inc) * E >= (taken * eff) * E
    <3>1. (got * E) * inc = (got * inc) * E /\ taken * (eff * E) = (taken * eff) * E
      BY <1>1, <1>2, <1>6, <1>7
    <3> DEFINE n == taken * (E * E + (inc - E) * (E - tp))
    <3>2. n \in Int /\ (got * inc) * E \in Int /\ (taken * eff) * E \in Int
      BY <1>1, <1>2, <1>6, <1>7
    <3>3. (got * inc) * E >= n /\ (taken * eff) * E <= n
      BY <2>7, <2>8, <3>1
    <3> HIDE DEF n
    <3> QED BY <3>2, <3>3
  <2>10. got * inc \in Nat /\ taken * eff \in Nat
    BY <1>1, <1>2, <1>6, <1>7
  <2> HIDE DEF E
  <2>11. (taken * eff) * E <= (got * inc) * E
    BY <2>9, <2>10, <1>1
  <2>12. taken * eff <= got * inc
    BY <2>10, <2>11, <1>1, MulCancel
  <2> QED BY <2>10, <2>12
<1>11. left >= amt
  <2>1. left \in Nat
    BY <1>6, <1>8
  <2>2. left * eff >= got * E
    BY <1>8
  <2> HIDE DEF left, got, eff
  <2>3. (left * inc) * eff >= (taken * E) * eff
    <3>1. (got * E) * inc <= (left * eff) * inc
      <4>1. got * E \in Nat /\ left * eff \in Nat
        BY <1>1, <1>6, <1>7, <2>1
      <4> QED BY <1>1, <2>2, <4>1, MulMonotone
    <3>2. (taken * eff) * E <= (got * inc) * E
      <4>1. taken * eff \in Nat /\ got * inc \in Nat
        BY <1>1, <1>2, <1>6, <1>7
      <4> QED BY <1>1, <1>10, <4>1, MulMonotone
    <3>3. /\ (got * E) * inc = (got * inc) * E
          /\ (left * eff) * inc = (left * inc) * eff
          /\ (taken * eff) * E = (taken * E) * eff
      BY <1>1, <1>2, <1>6, <1>7, <2>1
    <3>4. (left * inc) * eff \in Int /\ (got * inc) * E \in Int /\ (taken * E) * eff \in Int
      BY <1>1, <1>2, <1>6, <1>7, <2>1
    <3> QED BY <3>1, <3>2, <3>3, <3>4
  <2>4. left * inc \in Nat /\ taken * E \in Nat /\ eff \in Nat \ {0}
    BY <1>1, <1>2, <1>7, <2>1
  <2>5. (taken * E) * eff <= (left * inc) * eff
    BY <2>3, <2>4
  <2>6. taken * E <= left * inc
    BY <2>4, <2>5, MulCancel
  <2>7. left * inc >= taken * E
    BY <2>4, <2>6
  <2> QED BY <1>1, <2>1, <2>7, KeepsRepaid DEF taken, E
<1> QED BY <1>9, <1>11 DEF taken, ours, got, left
-----------------------------------------------------------------------------
(* The liquidator: what it redeems. *)

QueueRec == [pendingRedeem : Seq(VTokens), held : [VTokens -> Nat], cash : [VTokens -> Nat]]

\* A queue without the entry that is taken out of it.
LEMMA RemovedFacts ==
  ASSUME NEW s \in Seq(VTokens), IsInjective(s), NEW k \in 1 .. Len(s)
  PROVE  LET t == removed(s, k)
         IN  /\ t \in Seq(VTokens) /\ Len(t) = Len(s) - 1
             /\ IsInjective(t) /\ Range(t) = Range(s) \ {s[k]}
<1> DEFINE t == removed(s, k)
           n == Len(s)
<1>1. n \in Nat /\ k \in 1 .. n /\ n - 1 \in Nat
  OBVIOUS
<1>2. \A i \in 1 .. n : s[i] \in VTokens
  OBVIOUS
<1>3. s \in [1 .. n -> VTokens]
  OBVIOUS
<1>4. \A i, j \in 1 .. n : s[i] = s[j] => i = j
  BY <1>3 DEF IsInjective
<1> HIDE DEF n
<1>5. t = [i \in 1 .. n - 1 |-> IF i = k THEN s[n] ELSE s[i]]
  BY DEF removed, n
<1> HIDE DEF t
<1>6. \A i \in 1 .. n - 1 : t[i] = (IF i = k THEN s[n] ELSE s[i]) /\ t[i] \in VTokens
  BY <1>1, <1>2, <1>5
<1>7. t \in [1 .. n - 1 -> VTokens]
  BY <1>5, <1>6
<1>8. t \in Seq(VTokens) /\ Len(t) = n - 1
  BY <1>1, <1>7
<1>9. \A i, j \in 1 .. n - 1 : t[i] = t[j] => i = j
  BY <1>1, <1>4, <1>6
<1>10. IsInjective(t)
  BY <1>7, <1>9 DEF IsInjective
<1>11. Range(s) = {s[i] : i \in 1 .. n} /\ Range(t) = {t[i] : i \in 1 .. n - 1}
  BY <1>3, <1>7 DEF Range
<1>12. ASSUME NEW v \in Range(t) PROVE v \in Range(s) \ {s[k]}
  <2>1. PICK i \in 1 .. n - 1 : v = t[i]
    BY <1>11
  <2> QED BY <1>1, <1>4, <1>6, <1>11, <2>1
<1>13. ASSUME NEW v \in Range(s) \ {s[k]} PROVE v \in Range(t)
  <2>1. PICK i \in 1 .. n : v = s[i]
    BY <1>11
  <2>2. i # k
    BY <2>1
  <2>3. CASE i = n
    <3>1. k \in 1 .. n - 1
      BY <1>1, <2>2, <2>3
    <3> QED BY <1>6, <1>11, <2>1, <2>3, <3>1
  <2>4. CASE i # n
    <3>1. i \in 1 .. n - 1
      BY <1>1, <2>4
    <3> QED BY <1>6, <1>11, <2>1, <2>2, <3>1
  <2> QED BY <2>3, <2>4
<1>14. Range(t) = Range(s) \ {s[k]}
  BY <1>12, <1>13
<1> QED BY <1>8, <1>10, <1>14 DEF t, n

\* What a redemption does.
LEMMA RedeemFacts ==
  ASSUME NEW q \in QueueRec, NEW v \in VTokens, NEW amount \in Nat,
         amount <= q.held[v], amount <= q.cash[v]
  PROVE  LET r == redeem(q, v, amount)
         IN  /\ r \in QueueRec /\ r.pendingRedeem = q.pendingRedeem
             /\ r.held = [q.held EXCEPT ![v] = q.held[v] - amount]
<1> DEFINE h == [q.held EXCEPT ![v] = q.held[v] - amount]
           c == [q.cash EXCEPT ![v] = q.cash[v] - amount]
<1>1. /\ q.held \in [VTokens -> Nat] /\ q.cash \in [VTokens -> Nat]
      /\ q.pendingRedeem \in Seq(VTokens)
      /\ q = [pendingRedeem |-> q.pendingRedeem, held |-> q.held, cash |-> q.cash]
  BY DEF QueueRec
<1>2. h \in [VTokens -> Nat] /\ c \in [VTokens -> Nat]
  BY <1>1
<1>3. redeem(q, v, amount) = [[q EXCEPT !.held = h] EXCEPT !.cash = c]
  BY <1>1, SMT DEF redeem
<1> HIDE DEF h, c
<1>4. redeem(q, v, amount) = [pendingRedeem |-> q.pendingRedeem, held |-> h, cash |-> c]
  BY <1>1, <1>3
<1> QED BY <1>1, <1>2, <1>4 DEF QueueRec, h

\* What one turn of the loop does.
LEMMA TurnFacts ==
  ASSUME NEW q \in QueueRec, IsInjective(q.pendingRedeem),
         NEW k \in 1 .. Len(q.pendingRedeem)
  PROVE  LET v == q.pendingRedeem[k]
             r == reduceEntry(q, k)
         IN  /\ r \in QueueRec
             /\ \/ r = q
                \/ /\ r.pendingRedeem = removed(q.pendingRedeem, k)
                   /\ r.held = [q.held EXCEPT ![v] = 0]
<1> DEFINE v == q.pendingRedeem[k]
           w == redeem(q, v, q.held[v])
           r == reduceEntry(q, k)
<1>1. /\ q.held \in [VTokens -> Nat] /\ q.pendingRedeem \in Seq(VTokens)
  BY DEF QueueRec
<1>2. v \in VTokens /\ q.held[v] \in Nat
  BY <1>1
<1>3. CASE ~ canRedeem(q, v, q.held[v])
  BY <1>3 DEF reduceEntry
<1>4. CASE canRedeem(q, v, q.held[v])
  <2>1. q.held[v] <= q.cash[v]
    BY <1>4 DEF canRedeem
  <2>2. /\ w \in QueueRec /\ w.pendingRedeem = q.pendingRedeem
        /\ w.held = [q.held EXCEPT ![v] = q.held[v] - q.held[v]]
    BY <1>1, <1>2, <2>1, RedeemFacts
  <2>3. w.held = [q.held EXCEPT ![v] = 0]
    BY <1>2, <2>2
  <2>4. r = [w EXCEPT !.pendingRedeem = removed(w.pendingRedeem, k)]
    BY <1>4 DEF reduceEntry
  <2>5. removed(q.pendingRedeem, k) \in Seq(VTokens)
    BY <1>1, RemovedFacts
  <2> DEFINE s == removed(q.pendingRedeem, k)
  <2>6. r = [w EXCEPT !.pendingRedeem = s]
    BY <2>2, <2>4
  <2> HIDE DEF r, w, s, v
  <2>7. r \in QueueRec /\ r.pendingRedeem = s /\ r.held = w.held
    BY <2>2, <2>5, <2>6 DEF QueueRec, s
  <2> QED BY <2>3, <2>7 DEF s, r, v
<1> QED BY <1>3, <1>4

\* The values of the recursive function of the loop, n turns after q.
Turned(q, range, f) ==
  [n \in 0 .. range |-> IF n = 0 THEN q ELSE reduceEntry(f[n - 1], range - n + 1)]

\* There is such a function.
LEMMA TurnedExists ==
  ASSUME NEW q, NEW range \in Nat
  PROVE  \E f : f = Turned(q, range, f)
<1> DEFINE Upto(f, m) ==
             f = [n \in 0 .. m |-> IF n = 0 THEN q ELSE reduceEntry(f[n - 1], range - n + 1)]
           bad == {m \in 0 .. range : ~ \E f : Upto(f, m)}
<1>1. SUFFICES ASSUME bad # {} PROVE FALSE
  <2>1. \E f : Upto(f, range)
    BY <1>1
  <2> QED BY <2>1 DEF Turned
<1>2. PICK m \in bad : \A k \in bad : m <= k
  <2>1. bad \subseteq Nat
    OBVIOUS
  <2> HIDE DEF bad
  <2> QED BY <1>1, <2>1, LeastNatural
<1>3. m \in 0 .. range /\ ~ \E f : Upto(f, m)
  OBVIOUS
<1>4. CASE m = 0
  <2> DEFINE f == [n \in 0 .. 0 |-> q]
  <2>1. f = [n \in 0 .. 0 |-> IF n = 0 THEN q ELSE reduceEntry(f[n - 1], range - n + 1)]
    OBVIOUS
  <2>2. Upto(f, 0)
    BY <2>1
  <2> QED BY <1>3, <1>4, <2>2
<1>5. CASE m # 0
  <2>1. m - 1 \in 0 .. range /\ ~ (m - 1 \in bad)
    <3>1. bad \subseteq 0 .. range
      OBVIOUS
    <3> HIDE DEF bad
    <3>2. m \in 0 .. range /\ \A k \in bad : m <= k
      BY <1>2, <3>1
    <3>3. m - 1 \in 0 .. range /\ ~ (m <= m - 1)
      BY <1>5, <3>2
    <3> QED BY <3>2, <3>3
  <2>2. PICK g : Upto(g, m - 1)
    BY <2>1
  <2> DEFINE f == [n \in 0 .. m |-> IF n < m THEN g[n] ELSE reduceEntry(g[m - 1], range - m + 1)]
  <2>3. \A n \in 0 .. m - 1 : g[n] = IF n = 0 THEN q ELSE reduceEntry(g[n - 1], range - n + 1)
    BY <2>2, Zenon
  <2>4. ASSUME NEW n \in 0 .. m
        PROVE  f[n] = IF n = 0 THEN q ELSE reduceEntry(f[n - 1], range - n + 1)
    <3>1. CASE n < m
      <4>1. n \in 0 .. m - 1 /\ f[n] = g[n] /\ (n # 0 => f[n - 1] = g[n - 1])
        BY <1>3, <3>1
      <4> HIDE DEF f
      <4> QED BY <2>3, <4>1
    <3>2. CASE n = m
      <4>1. f[n] = reduceEntry(g[m - 1], range - m + 1) /\ f[n - 1] = g[m - 1]
        BY <1>3, <1>5, <3>2
      <4> HIDE DEF f
      <4> QED BY <1>5, <3>2, <4>1
    <3> QED BY <1>3, <3>1, <3>2
  <2>5. f = [n \in 0 .. m |-> f[n]]
    OBVIOUS
  <2> HIDE DEF f
  <2>6. Upto(f, m)
    BY <2>4, <2>5, Zenon
  <2> QED BY <1>3, <2>6
<1> QED BY <1>4, <1>5

\* What holds of r after n turns of a loop that looks at the first entries of
\* q, as many as range: the entries not looked at yet are where they were.
AfterTurns(q, range, n, r) ==
  /\ r \in QueueRec /\ IsInjective(r.pendingRedeem)
  /\ Len(r.pendingRedeem) >= range - n
  /\ Range(r.pendingRedeem) \subseteq Range(q.pendingRedeem)
  /\ \A v \in VTokens :
       /\ r.held[v] <= q.held[v]
       /\ v \in Range(q.pendingRedeem) \ Range(r.pendingRedeem) => r.held[v] = 0

\* One more turn.
LEMMA TurnKeeps ==
  ASSUME NEW q \in QueueRec, NEW range \in Nat, NEW n \in Nat, n < range,
         NEW r, AfterTurns(q, range, n, r)
  PROVE  AfterTurns(q, range, n + 1, reduceEntry(r, range - n))
<1> DEFINE k == range - n
           t == reduceEntry(r, k)
           v == r.pendingRedeem[k]
<1>1. /\ r \in QueueRec /\ IsInjective(r.pendingRedeem)
      /\ Len(r.pendingRedeem) >= range - n
      /\ Range(r.pendingRedeem) \subseteq Range(q.pendingRedeem)
      /\ \A x \in VTokens :
           /\ r.held[x] <= q.held[x]
           /\ x \in Range(q.pendingRedeem) \ Range(r.pendingRedeem) => r.held[x] = 0
  BY DEF AfterTurns
<1>2. /\ r.held \in [VTokens -> Nat] /\ q.held \in [VTokens -> Nat]
      /\ r.pendingRedeem \in Seq(VTokens)
  BY <1>1 DEF QueueRec
<1>3. k \in 1 .. Len(r.pendingRedeem)
  BY <1>1, <1>2
<1>4. /\ t \in QueueRec
      /\ \/ t = r
         \/ /\ t.pendingRedeem = removed(r.pendingRedeem, k)
            /\ t.held = [r.held EXCEPT ![v] = 0]
  BY <1>1, <1>3, TurnFacts
<1>5. v \in VTokens
  BY <1>2, <1>3
<1>6. /\ removed(r.pendingRedeem, k) \in Seq(VTokens)
      /\ Len(removed(r.pendingRedeem, k)) = Len(r.pendingRedeem) - 1
      /\ IsInjective(removed(r.pendingRedeem, k))
      /\ Range(removed(r.pendingRedeem, k)) = Range(r.pendingRedeem) \ {v}
  BY <1>1, <1>2, <1>3, RemovedFacts
<1> HIDE DEF t, v
<1>7. CASE t = r
  <2>1. Len(t.pendingRedeem) >= range - (n + 1)
    BY <1>1, <1>2, <1>7
  <2> QED BY <1>1, <1>7, <2>1 DEF AfterTurns, t
<1>8. CASE /\ t.pendingRedeem = removed(r.pendingRedeem, k)
           /\ t.held = [r.held EXCEPT ![v] = 0]
  <2>1. Len(t.pendingRedeem) >= range - (n + 1)
    BY <1>1, <1>2, <1>6, <1>8
  <2>2. \A x \in VTokens : t.held[x] = IF x = v THEN 0 ELSE r.held[x]
    BY <1>2, <1>8
  <2>3. \A x \in VTokens : t.held[x] <= q.held[x]
    <3>1. \A x \in VTokens : q.held[x] \in Nat /\ r.held[x] <= q.held[x]
      BY <1>1, <1>2
    <3> QED BY <2>2, <3>1
  <2>4. Range(t.pendingRedeem) = Range(r.pendingRedeem) \ {v} /\ IsInjective(t.pendingRedeem)
    BY <1>6, <1>8
  <2>5. \A x \in VTokens :
          x \in Range(q.pendingRedeem) \ Range(t.pendingRedeem) => t.held[x] = 0
    BY <1>1, <2>2, <2>4, Zenon
  <2>6. AfterTurns(q, range, n + 1, t)
    BY <1>1, <1>4, <2>1, <2>3, <2>4, <2>5, Zenon DEF AfterTurns
  <2> QED BY <2>6 DEF t
<1> QED BY <1>4, <1>7, <1>8

\* What the loop leaves of a queue: what left it has been redeemed whole.
LEMMA ReduceFacts ==
  ASSUME NEW q \in QueueRec, IsInjective(q.pendingRedeem), pendingRedeemChunkLength \in Nat
  PROVE  \E n \in Nat : AfterTurns(q, n, n, reduceReserves(q))
<1> DEFINE range == chunkOf(q.pendingRedeem)
           h == CHOOSE f : f = Turned(q, range, f)
           bad == {n \in 0 .. range : ~ AfterTurns(q, range, n, h[n])}
<1>1. q.pendingRedeem \in Seq(VTokens) /\ Len(q.pendingRedeem) \in Nat
      /\ q.held \in [VTokens -> Nat]
  BY DEF QueueRec
<1>2. range \in Nat /\ range <= Len(q.pendingRedeem)
  BY <1>1 DEF chunkOf
<1>3. reduceReserves(q) = h[range]
  BY SMT DEF reduceReserves, Turned
<1> HIDE DEF range
<1>4. h = Turned(q, range, h)
  <2>1. \E f : f = Turned(q, range, f)
    BY <1>2, TurnedExists
  <2> QED BY <2>1
<1> HIDE DEF h
<1>5. \A n \in 0 .. range :
        h[n] = IF n = 0 THEN q ELSE reduceEntry(h[n - 1], range - n + 1)
  BY <1>4, Zenon DEF Turned
<1>6. bad = {}
  <2>1. SUFFICES ASSUME bad # {} PROVE FALSE
    OBVIOUS
  <2>2. PICK m \in bad : \A k \in bad : m <= k
    <3>1. bad \subseteq Nat
      BY <1>2
    <3> HIDE DEF bad
    <3> QED BY <2>1, <3>1, LeastNatural
  <2>3. m \in 0 .. range /\ ~ AfterTurns(q, range, m, h[m])
    OBVIOUS
  <2>4. CASE m = 0
    <3>1. h[m] = q
      BY <1>5, <2>3, <2>4
    <3>2. \A v \in VTokens : q.held[v] <= q.held[v]
      BY <1>1
    <3>3. Len(q.pendingRedeem) >= range - 0
      BY <1>1, <1>2
    <3> QED BY <2>3, <2>4, <3>1, <3>2, <3>3 DEF AfterTurns
  <2>5. CASE m # 0
    <3> DEFINE n == m - 1
    <3>1. n \in Nat /\ n < range /\ n + 1 = m /\ range - m + 1 = range - n
          /\ n \in 0 .. range /\ ~ (n \in bad)
      BY <1>2, <2>2, <2>3, <2>5
    <3>2. AfterTurns(q, range, n, h[n])
      BY <3>1
    <3>3. h[m] = reduceEntry(h[n], range - n)
      BY <1>5, <2>3, <2>5, <3>1
    <3> HIDE DEF n
    <3>4. AfterTurns(q, range, n + 1, reduceEntry(h[n], range - n))
      BY <1>2, <3>1, <3>2, TurnKeeps
    <3> QED BY <2>3, <3>1, <3>3, <3>4
  <2> QED BY <2>4, <2>5
<1>7. range \in 0 .. range /\ ~ (range \in bad)
  BY <1>2, <1>6
<1>8. AfterTurns(q, range, range, reduceReserves(q))
  BY <1>3, <1>7
<1> QED BY <1>2, <1>8

\* A market is queued once.
LEMMA QueuedFacts ==
  ASSUME NEW s \in Seq(VTokens), IsInjective(s), NEW v \in VTokens
  PROVE  /\ queued(s, v) \in Seq(VTokens) /\ IsInjective(queued(s, v))
         /\ Range(queued(s, v)) = Range(s) \cup {v}
<1>1. CASE v \in Range(s)
  BY <1>1 DEF queued
<1>2. CASE v \notin Range(s)
  <2> DEFINE t == Append(s, v)
             n == Len(s)
  <2>1. queued(s, v) = t
    BY <1>2 DEF queued
  <2>2. n \in Nat /\ s \in [1 .. n -> VTokens]
    OBVIOUS
  <2>3. /\ t \in Seq(VTokens) /\ t \in [1 .. n + 1 -> VTokens]
        /\ \A i \in 1 .. n + 1 : t[i] = IF i = n + 1 THEN v ELSE s[i]
    <3>1. t \in Seq(VTokens) /\ Len(t) = n + 1
      OBVIOUS
    <3>2. t \in [1 .. n + 1 -> VTokens]
      <4> HIDE DEF t, n
      <4>1. t \in [1 .. Len(t) -> VTokens]
        BY <3>1
      <4> QED BY <3>1, <4>1
    <3>3. t[n + 1] = v /\ \A i \in 1 .. n : t[i] = s[i]
      OBVIOUS
    <3> QED BY <2>2, <3>1, <3>2, <3>3
  <2> HIDE DEF t, n
  <2>4. Range(s) = {s[i] : i \in 1 .. n} /\ Range(t) = {t[i] : i \in 1 .. n + 1}
    BY <2>2, <2>3 DEF Range
  <2>5. \A i, j \in 1 .. n : s[i] = s[j] => i = j
    BY <2>2 DEF IsInjective
  <2>6. \A i, j \in 1 .. n + 1 : t[i] = t[j] => i = j
    <3>1. \A i \in 1 .. n : s[i] # v
      BY <1>2, <2>4
    <3> QED BY <2>2, <2>3, <2>5, <3>1
  <2>7. IsInjective(t)
    BY <2>3, <2>6 DEF IsInjective
  <2>8. Range(t) = Range(s) \cup {v}
    <3>1. ASSUME NEW x \in Range(t) PROVE x \in Range(s) \cup {v}
      BY <2>2, <2>3, <2>4
    <3>2. ASSUME NEW x \in Range(s) PROVE x \in Range(t)
      BY <2>2, <2>3, <2>4
    <3>3. v \in Range(t)
      <4>1. n + 1 \in 1 .. n + 1 /\ t[n + 1] = v
        BY <2>2, <2>3
      <4> QED BY <2>4, <4>1
    <3> QED BY <3>1, <3>2, <3>3
  <2> QED BY <2>1, <2>3, <2>7, <2>8
<1> QED BY <1>1, <1>2

\* A share is redeemed, or stays, and then the market is queued.
LEMMA WithShareFacts ==
  ASSUME NEW q \in QueueRec, IsInjective(q.pendingRedeem), NEW v \in VTokens, NEW ours \in Nat
  PROVE  LET w == withShare(q, v, ours)
         IN  /\ w \in QueueRec /\ IsInjective(w.pendingRedeem)
             /\ Range(q.pendingRedeem) \subseteq Range(w.pendingRedeem)
             /\ \A x \in VTokens : w.held[x] > q.held[x] => x \in Range(w.pendingRedeem)
<1> DEFINE h == [q.held EXCEPT ![v] = q.held[v] + ours]
           r == [q EXCEPT !.held = h]
           w == withShare(q, v, ours)
           u == queued(q.pendingRedeem, v)
<1>1. /\ q.held \in [VTokens -> Nat] /\ q.cash \in [VTokens -> Nat]
      /\ q.pendingRedeem \in Seq(VTokens)
  BY DEF QueueRec
<1>2. h \in [VTokens -> Nat] /\ h[v] = q.held[v] + ours
      /\ \A x \in VTokens : x # v => h[x] = q.held[x]
  BY <1>1
<1>3. /\ u \in Seq(VTokens) /\ IsInjective(u)
      /\ Range(u) = Range(q.pendingRedeem) \cup {v}
  BY <1>1, QueuedFacts
<1>4. w = IF canRedeem(r, v, ours) THEN redeem(r, v, ours)
          ELSE [r EXCEPT !.pendingRedeem = queued(r.pendingRedeem, v)]
  BY DEF withShare
<1> HIDE DEF h
<1>5. r \in QueueRec /\ r.pendingRedeem = q.pendingRedeem /\ r.held = h
  BY <1>2 DEF QueueRec
<1> HIDE DEF r, w, u
<1>6. CASE canRedeem(r, v, ours)
  <2>1. ours <= r.cash[v] /\ ours <= r.held[v]
    BY <1>1, <1>2, <1>5, <1>6 DEF canRedeem
  <2>2. redeem(r, v, ours) \in QueueRec
        /\ redeem(r, v, ours).pendingRedeem = r.pendingRedeem
        /\ redeem(r, v, ours).held = [r.held EXCEPT ![v] = r.held[v] - ours]
    BY <1>5, <2>1, RedeemFacts
  <2>3. w \in QueueRec /\ w.pendingRedeem = q.pendingRedeem
        /\ w.held = [h EXCEPT ![v] = h[v] - ours]
    BY <1>4, <1>5, <1>6, <2>2
  <2>4. \A x \in VTokens : w.held[x] = q.held[x]
    BY <1>1, <1>2, <2>3
  <2>5. \A x \in VTokens : ~ (w.held[x] > q.held[x])
    BY <1>1, <2>4
  <2> QED BY <2>3, <2>5 DEF w
<1>7. CASE ~ canRedeem(r, v, ours)
  <2>1. w = [r EXCEPT !.pendingRedeem = u]
    BY <1>4, <1>5, <1>7 DEF u
  <2>2. w \in QueueRec /\ w.pendingRedeem = u /\ w.held = h
    BY <1>3, <1>5, <2>1 DEF QueueRec
  <2>3. ASSUME NEW x \in VTokens, w.held[x] > q.held[x] PROVE x = v
    BY <1>1, <1>2, <2>2, <2>3
  <2> QED BY <1>3, <2>2, <2>3 DEF w
<1> QED BY <1>6, <1>7

\* The queue lists every market once.
LiqInv == TypeOK /\ IsInjective(pendingRedeem)

\* What no step may do with what is queued.
Remembered ==
  /\ IsInjective(pendingRedeem')
  /\ \A v \in VTokens :
       /\ held'[v] > held[v] => v \in Range(pendingRedeem') \/ Donate(v)
       /\ v \in Range(pendingRedeem) \ Range(pendingRedeem') => held'[v] = 0

\* After the loop, for a queue w to which a share has been added, or none.
LEMMA ReducedFacts ==
  ASSUME LiqInv, NEW w \in QueueRec, IsInjective(w.pendingRedeem),
         Range(pendingRedeem) \subseteq Range(w.pendingRedeem),
         \A x \in VTokens : w.held[x] > held[x] => x \in Range(w.pendingRedeem),
         BecomesQueue(reduceReserves(w)), UNCHANGED settings
  PROVE  LiqInv' /\ Remembered
<1> DEFINE r == reduceReserves(w)
<1>1. pendingRedeemChunkLength \in Nat /\ held \in [VTokens -> Nat]
  BY DEF LiqInv, TypeOK
<1>2. PICK n \in Nat : AfterTurns(w, n, n, r)
  BY <1>1, ReduceFacts
<1> HIDE DEF r
<1>3. /\ r \in QueueRec /\ IsInjective(r.pendingRedeem)
      /\ \A v \in VTokens :
           /\ r.held[v] <= w.held[v]
           /\ v \in Range(w.pendingRedeem) \ Range(r.pendingRedeem) => r.held[v] = 0
  BY <1>2 DEF AfterTurns
<1>4. pendingRedeem' = r.pendingRedeem /\ held' = r.held /\ cash' = r.cash
  BY DEF BecomesQueue, r
<1>5. /\ r.pendingRedeem \in Seq(VTokens) /\ r.held \in [VTokens -> Nat]
      /\ r.cash \in [VTokens -> Nat] /\ w.held \in [VTokens -> Nat]
  BY <1>3 DEF QueueRec
<1>6. LiqInv'
  BY <1>3, <1>4, <1>5 DEF LiqInv, TypeOK, settings
<1>7. ASSUME NEW v \in VTokens, held'[v] > held[v] PROVE v \in Range(pendingRedeem')
  <2>1. w.held[v] > held[v] /\ r.held[v] # 0
    BY <1>1, <1>3, <1>4, <1>5, <1>7
  <2> QED BY <1>3, <1>4, <2>1
<1>8. ASSUME NEW v \in VTokens, v \in Range(pendingRedeem) \ Range(pendingRedeem')
      PROVE  held'[v] = 0
  BY <1>3, <1>4, <1>8
<1> QED BY <1>3, <1>4, <1>6, <1>7, <1>8 DEF Remembered

\* Every step of the liquidator keeps its invariant and forgets nothing.
LEMMA LiquidatorStep == LiqInv /\ [Next]_vars => LiqInv' /\ Remembered
<1> SUFFICES ASSUME LiqInv, [Next]_vars PROVE LiqInv' /\ Remembered
  OBVIOUS
<1>1. /\ treasuryPercent \in 0 .. expScale /\ pendingRedeemChunkLength \in Nat
      /\ liquidatorShare \in 0 .. expScale
      /\ pendingRedeem \in Seq(VTokens) /\ IsInjective(pendingRedeem)
      /\ held \in [VTokens -> Nat] /\ cash \in [VTokens -> Nat]
  BY DEF LiqInv, TypeOK
<1>2. /\ theQueue \in QueueRec /\ theQueue.pendingRedeem = pendingRedeem
      /\ theQueue.held = held
  BY <1>1 DEF theQueue, QueueRec
<1>3. ASSUME NEW v \in VTokens, NEW amount \in Amounts, NEW incentive \in Incentives,
             LiquidateBorrow(v, amount, incentive)
      PROVE  LiqInv' /\ Remembered
  <2> DEFINE ours == ourShare(seizeTokens(amount, incentive), incentive)
             w == withShare(theQueue, v, ours)
  <2>1. amount \in Nat /\ incentive \in Nat /\ incentive >= expScale
    BY LiquidatorAssumption
  <2>2. seizeTokens(amount, incentive) \in Nat
    BY <2>1, MulScalarBounds DEF seizeTokens
  <2>3. ours \in Nat
    BY <1>1, <2>1, <2>2, KeptOfShare DEF ourShare
  <2>4. BecomesQueue(reduceReserves(w)) /\ UNCHANGED settings
    BY <1>3 DEF LiquidateBorrow
  <2> HIDE DEF ours
  <2>5. /\ w \in QueueRec /\ IsInjective(w.pendingRedeem)
        /\ Range(pendingRedeem) \subseteq Range(w.pendingRedeem)
        /\ \A x \in VTokens : w.held[x] > held[x] => x \in Range(w.pendingRedeem)
    BY <1>1, <1>2, <2>3, WithShareFacts
  <2> HIDE DEF w
  <2> QED BY <2>4, <2>5, ReducedFacts
<1>4. CASE ReduceReserves
  <2>1. BecomesQueue(reduceReserves(theQueue)) /\ UNCHANGED settings
    BY <1>4 DEF ReduceReserves
  <2>2. \A x \in VTokens : ~ (theQueue.held[x] > held[x])
    BY <1>1, <1>2
  <2> QED BY <1>1, <1>2, <2>1, <2>2, ReducedFacts
<1>5. ASSUME \/ \E percent \in TreasuryPercents : SetTreasuryPercent(percent)
             \/ \E length \in ChunkLengths : SetPendingRedeemChunkLength(length)
             \/ \E share \in LiquidatorShares : SetLiquidatorShare(share)
             \/ UNCHANGED vars
      PROVE  LiqInv' /\ Remembered
  <2>1. UNCHANGED queue
    BY <1>5 DEF SetTreasuryPercent, SetPendingRedeemChunkLength, SetLiquidatorShare, vars
  <2>2. /\ treasuryPercent' \in 0 .. expScale /\ pendingRedeemChunkLength' \in Nat
        /\ liquidatorShare' \in 0 .. expScale
    BY <1>1, <1>5, LiquidatorAssumption
    DEF SetTreasuryPercent, SetPendingRedeemChunkLength, SetLiquidatorShare, vars, settings
  <2>3. \A v \in VTokens : ~ (held'[v] > held[v])
    BY <1>1, <2>1 DEF queue
  <2> QED BY <1>1, <2>1, <2>2, <2>3 DEF queue, LiqInv, TypeOK, Remembered
<1>6. ASSUME NEW v \in VTokens, NEW amount \in 0 .. MaxCash, SetCash(v, amount)
      PROVE  LiqInv' /\ Remembered
  <2>1. amount \in Nat
    BY LiquidatorAssumption
  <2>2. \A x \in VTokens : ~ (held'[x] > held[x])
    BY <1>1, <1>6 DEF SetCash
  <2> QED BY <1>1, <1>6, <2>1, <2>2 DEF SetCash, LiqInv, TypeOK, Remembered, settings
<1>7. ASSUME NEW v \in VTokens, Donate(v) PROVE LiqInv' /\ Remembered
  <2>1. \A x \in VTokens : held'[x] > held[x] => x = v
    BY <1>1, <1>7 DEF Donate
  <2> QED BY <1>1, <1>7, <2>1 DEF Donate, LiqInv, TypeOK, Remembered, settings
<1> QED BY <1>3, <1>4, <1>5, <1>6, <1>7 DEF Next

\* The queue of the liquidator is in order in every state.
LEMMA LiquidatorInvariance == PeripherySpec => []LiqInv
<1>1. PeripheryInit => LiqInv
  <2> SUFFICES ASSUME PeripheryInit PROVE LiqInv
    OBVIOUS
  <2>1. Init
    BY DEF PeripheryInit
  <2>2. /\ treasuryPercent \in 0 .. expScale /\ liquidatorShare \in 0 .. expScale
        /\ pendingRedeemChunkLength \in Nat
        /\ pendingRedeem \in Seq(VTokens) /\ IsInjective(pendingRedeem)
    BY <2>1, LiquidatorAssumption DEF Init, IsInjective
  <2>3. held \in [VTokens -> Nat] /\ cash \in [VTokens -> Nat]
    BY <2>1, LiquidatorAssumption DEF Init
  <2> QED BY <2>2, <2>3 DEF LiqInv, TypeOK
<1>2. LiqInv /\ [PeripheryNext]_<<vars, vaiVars, vrtVars>> => LiqInv'
  BY VaultSteps, LiquidatorStep
<1> QED BY <1>1, <1>2, PTL DEF PeripherySpec

\* What stays in the liquidator after a liquidation is queued, once, and
\* leaves the queue only by being redeemed whole.
THEOREM NothingIsForgotten == PeripherySpec => NothingForgotten
<1>1. LiqInv /\ [PeripheryNext]_<<vars, vaiVars, vrtVars>> => [Remembered]_vars
  BY VaultSteps, LiquidatorStep
<1> QED
  BY LiquidatorInvariance, <1>1, PTL DEF PeripherySpec, NothingForgotten, Remembered

\* For every incentive that is at least 1, whatever governance takes of it: a
\* liquidator, and one that comes through BUSDLiquidator, gets back at least
\* what was repaid.
THEOREM LiquidatorsAreWhole == PeripherySpec => []LiquidatorsNeverLose
<1>1. LiqInv => LiquidatorsNeverLose
  <2> SUFFICES ASSUME LiqInv, NEW amount \in 0 .. MaxRepay, NEW incentive \in Incentives
               PROVE  LET taken == seizeTokens(amount, incentive)
                          got == taken - ourShare(taken, incentive)
                      IN  got >= amount /\ got - treasuryShare(got, incentive) >= amount
    BY DEF LiquidatorsNeverLose
  <2>1. /\ amount \in Nat /\ incentive \in Nat /\ incentive >= expScale
        /\ treasuryPercent \in 0 .. expScale /\ liquidatorShare \in 0 .. expScale
    BY LiquidatorAssumption DEF LiqInv, TypeOK
  <2> QED BY <2>1, SplitsLeave
<1> QED BY LiquidatorInvariance, <1>1, PTL

\* No subtraction of the three contracts goes below 0, and what each of them
\* holds is what its books say.
THEOREM LedgersAlwaysAgree == PeripherySpec => []LedgersAgree
<1>1. LiqInv /\ VrtInv /\ VaiInv => LedgersAgree
  BY VaultsPromise DEF LedgersAgree, LiqInv, VrtInv, VaiInv
<1> QED BY LiquidatorInvariance, VaultsInvariance, <1>1, PTL
-----------------------------------------------------------------------------
(* A market whose chain halves its block time. *)

CONSTANTS Rows, SomeBooks, Forks, MaxTime      \* with At, those of RateCheckpoint

VARIABLES row, interestRateModel, books, accrualBlockNumber, blockNumber

Checkpoint == INSTANCE RateCheckpoint

checkpointVars == <<row, interestRateModel, books, accrualBlockNumber,
                    now, blockNumber, fork, charged, due, switched>>

\* The yearly rate of the market.
yearlyRate == Checkpoint!yearlyRate(row.interestRateModel)

\* When a block is mined.
timeOf(n) == IF 2 * n <= fork THEN 2 * n ELSE n + fork \div 2

\* Where the model in use comes from.
ModelInUse ==
  \/ /\ switched = MaxTime + 1
     /\ interestRateModel = Checkpoint!rateModel(row.interestRateModel, Checkpoint!fromBlocksPerYear)
  \/ /\ switched <= MaxTime
     /\ interestRateModel =
          Checkpoint!checkpointView(
            Checkpoint!rateModel(row.interestRateModel, Checkpoint!fromBlocksPerYear),
            Checkpoint!rateModel(row.interestRateModel, Checkpoint!toBlocksPerYear), At)

\* The condition under which nobody is overcharged.
InTime == now <= fork \/ (switched < At /\ fork >= At)

\* Time and blocks go together, and what is not charged yet is due.
CheckpointInv ==
  /\ Checkpoint!RateCheckpointAssumption
  /\ Checkpoint!TypeOK /\ blockNumber \in Nat
  /\ ModelInUse
  /\ now = timeOf(blockNumber)
  /\ InTime => charged + yearlyRate * (now - timeOf(accrualBlockNumber)) <= due

\* A rate is a natural number.
LEMMA RateType ==
  ASSUME NEW p \in Checkpoint!Curves, NEW b \in Checkpoint!Books, Checkpoint!rateDefined(b)
  PROVE  Checkpoint!getBorrowRate(p, b) \in Nat
<1>a. Checkpoint!Mantissa \in Nat \ {0}
  BY DEF Checkpoint!Mantissa
<1> DEFINE util == Checkpoint!utilizationRate(p, b)
<1>0. util \in Nat
  <2> DEFINE equity == b.cash + b.borrows - b.reserves
             rate == (b.borrows * Checkpoint!Mantissa) \div equity
  <2>1. b.cash \in Nat /\ b.borrows \in Nat /\ b.reserves \in Nat
    BY DEF Checkpoint!Books
  <2>2. CASE b.borrows = 0
    BY <2>2 DEF Checkpoint!utilizationRate
  <2>3. CASE b.borrows # 0
    <3>1. equity \in Nat \ {0}
      BY <2>1, <2>3 DEF Checkpoint!rateDefined
    <3>2. b.borrows * Checkpoint!Mantissa \in Nat
      BY <1>a, <2>1
    <3>3. rate \in Nat
      <4> HIDE DEF equity
      <4> QED BY <3>1, <3>2, DivBounds
    <3> HIDE DEF rate
    <3>4. Checkpoint!Min({rate, Checkpoint!Mantissa}) \in Nat
      <4>1. \E x \in {rate, Checkpoint!Mantissa} : \A y \in {rate, Checkpoint!Mantissa} : x <= y
        BY <1>a, <3>3
      <4>2. Checkpoint!Min({rate, Checkpoint!Mantissa}) \in {rate, Checkpoint!Mantissa}
        BY <4>1 DEF Checkpoint!Min
      <4> QED BY <1>a, <3>3, <4>2
    <3> QED BY <2>3, <3>3, <3>4 DEF Checkpoint!utilizationRate, rate
  <2> QED BY <2>2, <2>3
<1> HIDE DEF util
<1>1. \A x, y \in Nat : Checkpoint!mul(x, y) \in Nat
  <2> SUFFICES ASSUME NEW x \in Nat, NEW y \in Nat PROVE Checkpoint!mul(x, y) \in Nat
    BY Zenon
  <2> DEFINE m == Checkpoint!Mantissa
  <2>1. x \div m \in Nat /\ x % m \in Nat
    BY <1>a
  <2>2. (x \div m) * y \in Nat /\ (x % m) * y \in Nat
    <3> HIDE DEF m
    <3> QED BY <2>1
  <2>3. ((x % m) * y) \div m \in Nat
    BY <1>a, <2>2, DivBounds
  <2> HIDE DEF m
  <2> QED BY <2>2, <2>3 DEF Checkpoint!mul, m
<1>2. \A x, y \in Int : Checkpoint!mul(x, y) \in Int
  <2> SUFFICES ASSUME NEW x \in Int, NEW y \in Int PROVE Checkpoint!mul(x, y) \in Int
    OBVIOUS
  <2> DEFINE m == Checkpoint!Mantissa
  <2>1. x \div m \in Int /\ x % m \in Int
    BY <1>a
  <2>2. (x \div m) * y \in Int /\ (x % m) * y \in Int
    <3> HIDE DEF m
    <3> QED BY <2>1
  <2>3. ((x % m) * y) \div m \in Int
    BY <1>a, <2>2
  <2> HIDE DEF m
  <2> QED BY <2>2, <2>3 DEF Checkpoint!mul, m
<1>3. CASE p \in [model : {"whitepaper"}, baseRatePerYear : Nat, multiplierPerYear : Nat]
  <2>1. p.model = "whitepaper" /\ p.baseRatePerYear \in Nat /\ p.multiplierPerYear \in Nat
    BY <1>3
  <2>2. Checkpoint!whitePaperRate(p, util) \in Nat
    <3>1. Checkpoint!mul(util, p.multiplierPerYear) \in Nat
      BY <1>0, <1>1, <2>1, Zenon
    <3> QED BY <2>1, <3>1 DEF Checkpoint!whitePaperRate
  <2> QED BY <2>1, <2>2 DEF Checkpoint!getBorrowRate, util
<1>4. CASE p \in [model : {"jump"}, baseRatePerYear : Nat, multiplierPerYear : Nat,
                  jumpMultiplierPerYear : Nat, kink : Nat]
  <2>1. p.model = "jump" /\ p.baseRatePerYear \in Nat /\ p.multiplierPerYear \in Nat
        /\ p.jumpMultiplierPerYear \in Nat /\ p.kink \in Nat
    BY <1>4
  <2>2. Checkpoint!jumpRate(p, util) \in Nat
    <3>1. Checkpoint!mul(util, p.multiplierPerYear) \in Nat
          /\ Checkpoint!mul(p.kink, p.multiplierPerYear) \in Nat
      BY <1>0, <1>1, <2>1, Zenon
    <3>2. CASE util <= p.kink
      BY <2>1, <3>1, <3>2 DEF Checkpoint!jumpRate
    <3>3. CASE ~ (util <= p.kink)
      <4>1. util - p.kink \in Nat
        BY <1>0, <2>1, <3>3
      <4>2. Checkpoint!mul(util - p.kink, p.jumpMultiplierPerYear) \in Nat
        BY <1>1, <2>1, <4>1
      <4> QED BY <2>1, <3>1, <3>3, <4>2 DEF Checkpoint!jumpRate
    <3> QED BY <3>2, <3>3
  <2> QED BY <2>1, <2>2 DEF Checkpoint!getBorrowRate, util
<1>5. CASE p \in [model : {"two-kinks"}, baseRatePerYear : Int, multiplierPerYear : Int,
                  kink : Int, multiplierPerYear2 : Int, baseRatePerYear2 : Int,
                  kink2 : Int, jumpMultiplierPerYear : Int]
  <2>1. /\ p.model = "two-kinks" /\ p.baseRatePerYear \in Int /\ p.multiplierPerYear \in Int
        /\ p.kink \in Int /\ p.multiplierPerYear2 \in Int /\ p.baseRatePerYear2 \in Int
        /\ p.kink2 \in Int /\ p.jumpMultiplierPerYear \in Int
    BY <1>5
  <2> DEFINE m1 == Checkpoint!mul(util, p.multiplierPerYear)
             m2 == Checkpoint!mul(util - p.kink, p.multiplierPerYear2)
             m3 == Checkpoint!mul(util - p.kink2, p.jumpMultiplierPerYear)
             r1 == Checkpoint!mul(p.kink, p.multiplierPerYear) + p.baseRatePerYear
             r2 == Checkpoint!mul(p.kink2 - p.kink, p.multiplierPerYear2) + p.baseRatePerYear2
             rate == CASE util < p.kink -> m1 + p.baseRatePerYear
                       [] p.kink <= util /\ util < p.kink2 -> r1 + m2 + p.baseRatePerYear2
                       [] p.kink2 <= util -> r1 + r2 + m3
  <2>3. Checkpoint!twoKinksRate(p, util) = Checkpoint!Max({0, rate})
    BY DEF Checkpoint!twoKinksRate
  <2>4. m1 \in Int /\ m2 \in Int /\ m3 \in Int /\ r1 \in Int /\ r2 \in Int
    <3>1. util \in Int /\ util - p.kink \in Int /\ util - p.kink2 \in Int /\ p.kink2 - p.kink \in Int
      BY <1>0, <2>1
    <3>2. /\ Checkpoint!mul(p.kink, p.multiplierPerYear) \in Int
          /\ Checkpoint!mul(p.kink2 - p.kink, p.multiplierPerYear2) \in Int
      BY <1>2, <2>1, <3>1
    <3>3. m1 \in Int /\ m2 \in Int /\ m3 \in Int
      BY <1>2, <2>1, <3>1, Zenon
    <3> QED BY <2>1, <3>2, <3>3
  <2> HIDE DEF m1, m2, m3, r1, r2
  <2>5. rate \in Int
    BY <1>0, <2>1, <2>4
  <2> HIDE DEF rate
  <2>6. Checkpoint!Max({0, rate}) \in Nat
    <3>1. \E x \in {0, rate} : \A y \in {0, rate} : x >= y
      BY <2>5
    <3>2. Checkpoint!Max({0, rate}) \in {0, rate}
          /\ \A y \in {0, rate} : Checkpoint!Max({0, rate}) >= y
      BY <3>1 DEF Checkpoint!Max
    <3> QED BY <2>5, <3>2
  <2> QED BY <2>1, <2>3, <2>6 DEF Checkpoint!getBorrowRate, util
<1> QED BY <1>3, <1>4, <1>5 DEF Checkpoint!Curves

\* What a constant of the checkpoint is.
LEMMA CheckpointFacts ==
  ASSUME Checkpoint!RateCheckpointAssumption
  PROVE
  /\ At \in Nat /\ MaxTime \in Nat
  /\ \A f \in Forks : f \in Nat /\ f = 2 * (f \div 2) /\ f \div 2 \in Nat
  /\ \A r \in Rows, b \in SomeBooks \cup {Checkpoint!noBooks} :
       Checkpoint!rateDefined(b) => Checkpoint!getBorrowRate(r.interestRateModel, b) \in Nat
<1>1. /\ At \in Nat /\ MaxTime \in Nat /\ Forks \subseteq {t \in Nat : t % 2 = 0}
      /\ \A r \in Rows : r.interestRateModel \in Checkpoint!Curves
      /\ SomeBooks \subseteq Checkpoint!Books
  BY DEF Checkpoint!RateCheckpointAssumption
<1>2. ASSUME NEW f \in Forks PROVE f \in Nat /\ f = 2 * (f \div 2) /\ f \div 2 \in Nat
  <2>1. f \in Nat /\ f % 2 = 0
    BY <1>1
  <2> QED BY <2>1
<1>3. Checkpoint!noBooks \in Checkpoint!Books
  BY DEF Checkpoint!noBooks, Checkpoint!Books
<1>4. ASSUME NEW r \in Rows, NEW b \in SomeBooks \cup {Checkpoint!noBooks},
             Checkpoint!rateDefined(b)
      PROVE  Checkpoint!getBorrowRate(r.interestRateModel, b) \in Nat
  BY <1>1, <1>3, <1>4, RateType
<1> QED BY <1>1, <1>2, <1>4

\* The types of the state.
LEMMA CheckpointState ==
  ASSUME CheckpointInv
  PROVE  /\ row \in Rows /\ fork \in Forks /\ books \in SomeBooks \cup {Checkpoint!noBooks}
         /\ now \in Nat /\ now <= MaxTime /\ switched \in Nat
         /\ blockNumber \in Nat /\ accrualBlockNumber \in Nat
         /\ accrualBlockNumber <= blockNumber
         /\ charged \in Nat /\ due \in Nat /\ yearlyRate \in Nat
         /\ fork \in Nat /\ fork \div 2 \in Nat /\ fork = 2 * (fork \div 2)
         /\ At \in Nat /\ MaxTime \in Nat
<1>1. /\ row \in Rows /\ fork \in Forks /\ books \in SomeBooks \cup {Checkpoint!noBooks}
      /\ now \in 0 .. MaxTime /\ switched \in 0 .. MaxTime + 1
      /\ blockNumber \in Nat /\ accrualBlockNumber \in 0 .. blockNumber
      /\ charged \in Nat /\ due \in Nat
      /\ Checkpoint!RateCheckpointAssumption
  BY DEF CheckpointInv, Checkpoint!TypeOK
<1>2. yearlyRate \in Nat
  BY <1>1, CheckpointFacts DEF yearlyRate, Checkpoint!yearlyRate
<1> QED BY <1>1, <1>2, CheckpointFacts

\* The model in use has the rates of the configuration, and takes blocks to
\* last what they last, if it has been chosen in time.
LEMMA ModelRight ==
  ASSUME CheckpointInv
  PROVE  /\ Checkpoint!borrowRate = yearlyRate
         /\ Checkpoint!assumedBlockTime(Checkpoint!answer) \in {1, 2}
         /\ switched < At /\ now >= At => Checkpoint!assumedBlockTime(Checkpoint!answer) = 1
<1> DEFINE old == Checkpoint!rateModel(row.interestRateModel, Checkpoint!fromBlocksPerYear)
           new == Checkpoint!rateModel(row.interestRateModel, Checkpoint!toBlocksPerYear)
           view == Checkpoint!checkpointView(old, new, At)
<1>1. /\ old.params = row.interestRateModel /\ new.params = row.interestRateModel
      /\ Checkpoint!assumedBlockTime(old) = 2 /\ Checkpoint!assumedBlockTime(new) = 1
  BY DEF Checkpoint!rateModel, Checkpoint!assumedBlockTime,
         Checkpoint!fromBlocksPerYear, Checkpoint!toBlocksPerYear
<1>2. ~ Checkpoint!isCheckpointView(old)
  BY DEF Checkpoint!isCheckpointView, Checkpoint!rateModel
<1>3. /\ Checkpoint!isCheckpointView(view)
      /\ view.DATA_SOURCE_1 = old /\ view.DATA_SOURCE_2 = new
      /\ view.CHECKPOINT_TIMESTAMP = At
  BY DEF Checkpoint!isCheckpointView, Checkpoint!checkpointView
<1> HIDE DEF old, new, view
<1>4. now \in Nat /\ At \in Nat /\ now <= MaxTime /\ MaxTime \in Nat
  BY CheckpointState
<1>5. CASE switched = MaxTime + 1 /\ interestRateModel = old
  <2>1. Checkpoint!answer = old
    BY <1>2, <1>5 DEF Checkpoint!answer, Checkpoint!answering
  <2>2. ~ (switched < At /\ now >= At)
    BY <1>4, <1>5
  <2> QED BY <1>1, <2>1, <2>2 DEF Checkpoint!borrowRate, yearlyRate
<1>6. CASE interestRateModel = view
  <2>1. Checkpoint!answer = IF now < At THEN old ELSE new
    BY <1>3, <1>6
    DEF Checkpoint!answer, Checkpoint!answering, Checkpoint!currentDataSource
  <2>2. now >= At => Checkpoint!answer = new
    BY <1>4, <2>1
  <2>3. Checkpoint!answer \in {old, new}
    BY <2>1
  <2> QED BY <1>1, <2>2, <2>3 DEF Checkpoint!borrowRate, yearlyRate
<1>7. \/ switched = MaxTime + 1 /\ interestRateModel = old
      \/ interestRateModel = view
  BY DEF CheckpointInv, ModelInUse, old, new, view
<1> QED BY <1>5, <1>6, <1>7

\* What is charged for the blocks since the last accrual is due, if the model
\* has been chosen in time.
LEMMA ChargedInTime ==
  ASSUME CheckpointInv, InTime
  PROVE  charged + Checkpoint!simpleInterest <= due /\ Checkpoint!simpleInterest \in Nat
<1> DEFINE a == Checkpoint!assumedBlockTime(Checkpoint!answer)
           n == blockNumber - accrualBlockNumber
           passed == now - timeOf(accrualBlockNumber)
           h == fork \div 2
<1>1. /\ blockNumber \in Nat /\ accrualBlockNumber \in Nat
      /\ accrualBlockNumber <= blockNumber /\ yearlyRate \in Nat
      /\ charged \in Nat /\ due \in Nat /\ now \in Nat /\ At \in Nat /\ switched \in Nat
      /\ fork \in Nat /\ h \in Nat /\ fork = 2 * h
  BY CheckpointState
<1>2. now = timeOf(blockNumber) /\ charged + yearlyRate * passed <= due
  BY DEF CheckpointInv
<1>3. /\ a \in {1, 2}
      /\ switched < At /\ now >= At => a = 1
      /\ Checkpoint!simpleInterest = yearlyRate * a * n
  BY ModelRight DEF Checkpoint!simpleInterest
<1> HIDE DEF a
<1>4. n \in Nat
  BY <1>1
<1>5. a * n <= passed /\ passed \in Nat
  <2> HIDE DEF h
  <2>1. \A m \in Nat : timeOf(m) = IF m <= h THEN 2 * m ELSE m + h
    BY <1>1 DEF timeOf, h
  <2>2. CASE now <= fork
    <3>1. blockNumber <= h
      BY <1>1, <1>2, <2>1, <2>2
    <3>2. passed = 2 * n
      BY <1>1, <1>2, <2>1, <3>1
    <3> QED BY <1>3, <1>4, <3>2
  <2>3. CASE ~ (now <= fork)
    <3>1. a = 1
      BY <1>1, <1>3, <2>3 DEF InTime
    <3>2. passed >= n /\ passed \in Nat
      BY <1>1, <1>2, <2>1
    <3> QED BY <1>4, <3>1, <3>2
  <2> QED BY <2>2, <2>3
<1>6. yearlyRate * a * n = (a * n) * yearlyRate /\ a * n \in Nat
  BY <1>1, <1>3, <1>4
<1> HIDE DEF n, passed
<1>7. (a * n) * yearlyRate <= passed * yearlyRate
  BY <1>1, <1>5, <1>6, MulMonotone
<1>8. passed * yearlyRate = yearlyRate * passed /\ yearlyRate * passed \in Nat
      /\ (a * n) * yearlyRate \in Nat
  BY <1>1, <1>5, <1>6
<1> QED BY <1>1, <1>2, <1>3, <1>6, <1>7, <1>8

\* What is charged is a natural number.
LEMMA ChargedType == CheckpointInv => Checkpoint!simpleInterest \in Nat
<1> SUFFICES ASSUME CheckpointInv PROVE Checkpoint!simpleInterest \in Nat
  OBVIOUS
<1> DEFINE a == Checkpoint!assumedBlockTime(Checkpoint!answer)
           n == blockNumber - accrualBlockNumber
<1>1. /\ a \in {1, 2} /\ n \in Nat /\ yearlyRate \in Nat
      /\ Checkpoint!simpleInterest = yearlyRate * a * n
  BY ModelRight, CheckpointState DEF Checkpoint!simpleInterest
<1> HIDE DEF a, n
<1>2. yearlyRate * a \in Nat
  BY <1>1
<1> QED BY <1>1, <1>2

\* After an accrual nothing is charged that is not due.
LEMMA AccrueKeeps ==
  ASSUME CheckpointInv, Checkpoint!Accrue, UNCHANGED <<row, now, blockNumber, fork, due>>,
         InTime' => InTime, Checkpoint!TypeOK', ModelInUse'
  PROVE  CheckpointInv'
<1>1. charged' = charged + Checkpoint!simpleInterest /\ accrualBlockNumber' = blockNumber
  BY DEF Checkpoint!Accrue
<1>2. now = timeOf(blockNumber) /\ blockNumber \in Nat
  BY DEF CheckpointInv
<1>3. now' = timeOf(blockNumber)' /\ now' = timeOf(accrualBlockNumber)' /\ now' \in Nat
  BY <1>1, <1>2, CheckpointState DEF timeOf
<1>4. yearlyRate' \in Nat
  BY CheckpointFacts DEF yearlyRate, Checkpoint!yearlyRate, Checkpoint!TypeOK, CheckpointInv
<1>5. ASSUME InTime'
      PROVE  (charged + yearlyRate * (now - timeOf(accrualBlockNumber)) <= due)'
  <2>1. charged' <= due' /\ charged' \in Nat
    BY <1>1, <1>5, ChargedInTime, CheckpointState
  <2>2. yearlyRate' * (now' - timeOf(accrualBlockNumber)') = 0
    BY <1>3, <1>4
  <2> HIDE <1>1
  <2> QED BY <2>1, <2>2
<1> QED BY <1>1, <1>2, <1>3, <1>5 DEF CheckpointInv

\* Every step keeps it: the view is only in time if it comes before the
\* checkpoint, and a block before the change takes two units.
LEMMA CheckpointStep == CheckpointInv /\ [Checkpoint!Next]_checkpointVars => CheckpointInv'
<1> SUFFICES ASSUME CheckpointInv, [Checkpoint!Next]_checkpointVars PROVE CheckpointInv'
  OBVIOUS
<1>0. /\ row \in Rows /\ fork \in Forks /\ books \in SomeBooks \cup {Checkpoint!noBooks}
      /\ now \in Nat /\ now <= MaxTime /\ switched \in Nat
      /\ blockNumber \in Nat /\ accrualBlockNumber \in Nat
      /\ accrualBlockNumber <= blockNumber
      /\ charged \in Nat /\ due \in Nat /\ yearlyRate \in Nat
      /\ fork \in Nat /\ At \in Nat /\ MaxTime \in Nat
      /\ Checkpoint!simpleInterest \in Nat
      /\ switched \in 0 .. MaxTime + 1
      /\ ModelInUse /\ now = timeOf(blockNumber)
      /\ InTime => charged + yearlyRate * (now - timeOf(accrualBlockNumber)) <= due
  BY CheckpointState, ChargedType DEF CheckpointInv, Checkpoint!TypeOK
<1>1. ASSUME NEW newBooks \in SomeBooks, Checkpoint!Use(newBooks) PROVE CheckpointInv'
  <2>1. /\ Checkpoint!Accrue /\ books' = newBooks
        /\ UNCHANGED <<row, interestRateModel, now, blockNumber, fork, due, switched>>
        /\ charged' = charged + Checkpoint!simpleInterest
        /\ accrualBlockNumber' = blockNumber
    BY <1>1 DEF Checkpoint!Use, Checkpoint!Accrue
  <2>2. Checkpoint!TypeOK'
    BY <1>0, <2>1 DEF Checkpoint!TypeOK
  <2>3. ModelInUse' /\ (InTime' => InTime)
    BY <1>0, <2>1 DEF ModelInUse, InTime
  <2> QED BY <2>1, <2>2, <2>3, AccrueKeeps
<1>2. CASE Checkpoint!SetCheckpoint
  <2>1. /\ switched > MaxTime /\ switched' = now /\ Checkpoint!Accrue
        /\ interestRateModel' =
             Checkpoint!checkpointView(
               Checkpoint!rateModel(row.interestRateModel, Checkpoint!fromBlocksPerYear),
               Checkpoint!rateModel(row.interestRateModel, Checkpoint!toBlocksPerYear), At)
        /\ UNCHANGED <<row, books, now, blockNumber, fork, due>>
        /\ charged' = charged + Checkpoint!simpleInterest
        /\ accrualBlockNumber' = blockNumber
    BY <1>2 DEF Checkpoint!SetCheckpoint, Checkpoint!Accrue
  <2>2. Checkpoint!TypeOK'
    BY <1>0, <2>1 DEF Checkpoint!TypeOK
  <2>3. ModelInUse'
    BY <1>0, <2>1 DEF ModelInUse
  <2>4. InTime' => InTime
    BY <1>0, <2>1 DEF InTime
  <2> QED BY <2>1, <2>2, <2>3, <2>4, AccrueKeeps
<1>3. CASE Checkpoint!MineBlock
  <2> DEFINE k == IF now < fork THEN 2 ELSE 1
  <2>1. /\ now + k <= MaxTime /\ now' = now + k /\ blockNumber' = blockNumber + 1
        /\ due' = due + k * yearlyRate
        /\ UNCHANGED <<row, interestRateModel, books, accrualBlockNumber, fork,
                       charged, switched>>
    BY <1>3 DEF Checkpoint!MineBlock, yearlyRate
  <2>2. k \in {1, 2} /\ k * yearlyRate \in Nat
    BY <1>0
  <2>3. Checkpoint!TypeOK' /\ blockNumber' \in Nat
    <3> HIDE DEF k
    <3> QED BY <1>0, <2>1, <2>2 DEF Checkpoint!TypeOK
  <2>4. ModelInUse' /\ yearlyRate' = yearlyRate
    BY <1>0, <2>1 DEF ModelInUse, yearlyRate, Checkpoint!yearlyRate
  <2>5. now' = timeOf(blockNumber)' /\ timeOf(accrualBlockNumber)' = timeOf(accrualBlockNumber)
        /\ timeOf(accrualBlockNumber) \in Nat
    <3>1. fork \div 2 \in Nat /\ fork = 2 * (fork \div 2)
      BY CheckpointState
    <3> DEFINE h == fork \div 2
    <3>2. \A m \in Nat : timeOf(m) = (IF m <= h THEN 2 * m ELSE m + h) /\ timeOf(m) \in Nat
      BY <1>0, <3>1 DEF timeOf
    <3>3. timeOf(blockNumber)' = timeOf(blockNumber + 1)
          /\ timeOf(accrualBlockNumber)' = timeOf(accrualBlockNumber)
      BY <2>1 DEF timeOf
    <3>4. now' = timeOf(blockNumber + 1)
      <4> HIDE DEF h
      <4>1. fork = 2 * h /\ h \in Nat
        BY <3>1 DEF h
      <4> QED BY <1>0, <2>1, <3>2, <4>1
    <3> QED BY <1>0, <3>2, <3>3, <3>4
  <2>6. InTime' => InTime
    BY <1>0, <2>1, <2>2 DEF InTime
  <2>7. ASSUME InTime'
        PROVE  (charged + yearlyRate * (now - timeOf(accrualBlockNumber)) <= due)'
    <3> DEFINE t == timeOf(accrualBlockNumber)
    <3>1. charged + yearlyRate * (now - t) <= due
      BY <1>0, <2>6, <2>7
    <3>2. t \in Nat
      BY <2>5
    <3> HIDE DEF k, t
    <3>3. yearlyRate * ((now + k) - t) = yearlyRate * (now - t) + k * yearlyRate
      BY <1>0, <2>2, <3>2
    <3>4. yearlyRate * (now - t) \in Int /\ yearlyRate * ((now + k) - t) \in Int
      BY <1>0, <2>2, <3>2
    <3>5. charged + yearlyRate * ((now + k) - t) <= due + k * yearlyRate
      BY <1>0, <2>2, <3>1, <3>3, <3>4
    <3> QED BY <2>1, <2>4, <2>5, <3>5 DEF t
  <2> QED BY <2>3, <2>4, <2>5, <2>7 DEF CheckpointInv
<1>4. CASE UNCHANGED checkpointVars
  BY <1>0, <1>4 DEF checkpointVars, CheckpointInv, Checkpoint!TypeOK, ModelInUse, timeOf,
                    InTime, yearlyRate, Checkpoint!yearlyRate
<1> QED BY <1>1, <1>2, <1>3, <1>4 DEF Checkpoint!Next

\* In every state.
LEMMA CheckpointInvariance ==
  Checkpoint!RateCheckpointAssumption /\ Checkpoint!Spec => []CheckpointInv
<1>1. Checkpoint!RateCheckpointAssumption /\ Checkpoint!Init => CheckpointInv
  <2> SUFFICES ASSUME Checkpoint!RateCheckpointAssumption, Checkpoint!Init PROVE CheckpointInv
    OBVIOUS
  <2>1. /\ row \in Rows /\ fork \in Forks /\ books = Checkpoint!noBooks
        /\ interestRateModel = Checkpoint!rateModel(row.interestRateModel,
                                                    Checkpoint!fromBlocksPerYear)
        /\ now = 0 /\ blockNumber = 0 /\ accrualBlockNumber = 0
        /\ charged = 0 /\ due = 0 /\ switched = MaxTime + 1
    BY DEF Checkpoint!Init
  <2>2. MaxTime \in Nat /\ fork \in Nat
    BY <2>1, CheckpointFacts
  <2>3. Checkpoint!TypeOK
    BY <2>1, <2>2 DEF Checkpoint!TypeOK
  <2>4. timeOf(0) = 0
    BY <2>2 DEF timeOf
  <2>5. yearlyRate \in Nat
    BY <2>1, CheckpointFacts DEF yearlyRate, Checkpoint!yearlyRate
  <2>6. charged + yearlyRate * (now - timeOf(accrualBlockNumber)) <= due
    BY <2>1, <2>4, <2>5
  <2> QED BY <2>1, <2>3, <2>4, <2>6 DEF CheckpointInv, ModelInUse
<1> QED BY <1>1, CheckpointStep, PTL DEF Checkpoint!Spec, Checkpoint!vars, checkpointVars

\* Whatever the curve, the books and the accruals: borrowers are not charged
\* more than the yearly rate for the time that has passed, until the block time
\* changes, and after that if governance had given the market its view before
\* the checkpoint and the change did not come before the checkpoint.
THEOREM NobodyIsOvercharged ==
  Checkpoint!RateCheckpointAssumption /\ Checkpoint!Spec => []NeverOvercharged
<1>1. CheckpointInv => NeverOvercharged
  <2> SUFFICES ASSUME CheckpointInv, InTime PROVE charged <= due
    BY DEF NeverOvercharged, InTime
  <2>1. charged \in Nat /\ due \in Nat /\ Checkpoint!simpleInterest \in Nat
        /\ charged + Checkpoint!simpleInterest <= due
    BY ChargedInTime, CheckpointState
  <2> QED BY <2>1
<1> QED BY <1>1, CheckpointInvariance, PTL
=============================================================================
