---------------------------- MODULE XVSVaultProofs ----------------------------
(***************************************************************************)
(* The theorems of XVSVault, for every set of users and tokens, all pools, *)
(* rates and lock periods: the books of stakes, withdrawals and rewards    *)
(* agree; votes are the stakes of those who delegate; the binary search    *)
(* finds what the history says; past votes never change; nobody's call     *)
(* changes what has been earned; and time gives no more than the rate.     *)
(***************************************************************************)
EXTENDS XVSVault, ArithmeticProofs, SequenceTheorems

(* Sums along lists. *)

\* The total of two functions side by side is the sum of their totals.
LEMMA TotalParts ==
  ASSUME NEW C, NEW D, NEW E, C = D \cup E, IsFiniteSet(C), NEW h \in [C -> Nat],
         NEW f \in [D -> Nat], NEW g \in [E -> Nat],
         \A x \in D : x \notin E /\ h[x] = f[x], \A x \in E : h[x] = g[x]
  PROVE  Total(h) = Total(f) + Total(g)
<1> DEFINE a == [x \in C |-> IF x \in D THEN h[x] ELSE 0]
           b == [x \in C |-> IF x \in D THEN 0 ELSE h[x]]
<1>1. a \in [C -> Nat] /\ b \in [C -> Nat] /\ IsFiniteSet(C)
  OBVIOUS
<1>2. Total([x \in C |-> a[x] + b[x]]) = Total(a) + Total(b)
  <2> HIDE DEF a, b
  <2> QED BY <1>1, TotalSum
<1>3. h = [x \in C |-> a[x] + b[x]]
  OBVIOUS
<1>4. Total(a) = Total(f)
  <2>1. D \subseteq C /\ (\A x \in D : a[x] = f[x]) /\ \A x \in C \ D : a[x] = 0
    OBVIOUS
  <2> HIDE DEF a
  <2> QED BY <1>1, <2>1, TotalExtend
<1>5. Total(b) = Total(g)
  <2>1. E \subseteq C /\ (\A x \in E : b[x] = g[x]) /\ \A x \in C \ E : b[x] = 0
    OBVIOUS
  <2> HIDE DEF b
  <2> QED BY <1>1, <2>1, TotalExtend
<1> QED BY <1>2, <1>3, <1>4, <1>5

Places(n) == 1 .. n

Behind(f, g, m, n) == [i \in Places(m + n) |-> IF i <= m THEN f[i] ELSE g[i - m]]

\* The total of two lists behind each other is the sum of their totals.
LEMMA TotalConcat ==
  ASSUME NEW m \in Nat, NEW n \in Nat,
         NEW f \in [Places(m) -> Nat], NEW g \in [Places(n) -> Nat]
  PROVE  Total(Behind(f, g, m, n)) = Total(f) + Total(g)
<1> DEFINE C == Places(m + n)
           L == Places(m)
           R == Places(n)
           E == m + 1 .. m + n
           h == Behind(f, g, m, n)
           c == [i \in E |-> g[i - m]]
           s == [i \in R |-> m + i]
<1>1. /\ IsFiniteSet(C) /\ IsFiniteSet(R) /\ C = L \cup E
      /\ h \in [C -> Nat] /\ c \in [E -> Nat]
      /\ \A i \in L : i \notin E /\ h[i] = f[i]
      /\ \A i \in E : h[i] = c[i]
  <2>1. m + n \in Int /\ n \in Int
    OBVIOUS
  <2>2. IsFiniteSet(C) /\ IsFiniteSet(R)
    BY <2>1, FS_Interval DEF Places
  <2>3. C = L \cup E /\ h \in [C -> Nat]
    BY DEF Behind, Places
  <2> QED BY <2>2, <2>3 DEF Behind, Places
<1>2. Total(h) = Total(f) + Total(c)
  <2> HIDE DEF h, c, E, C
  <2> QED BY <1>1, TotalParts, SMTT(30)
<1>3. Total(g) = Total(c)
  <2>1. s \in Bijection(R, E)
    <3>1. s \in [R -> E] /\ \A i, j \in R : s[i] = s[j] => i = j
      BY DEF Places
    <3>2. ASSUME NEW j \in E PROVE \E i \in R : s[i] = j
      <4>1. j - m \in R /\ s[j - m] = j
        BY DEF Places
      <4> QED BY <4>1
    <3> QED BY <3>1, <3>2 DEF Bijection, Injection, Surjection, IsInjective
  <2>2. \A i \in R : g[i] = c[s[i]]
    BY DEF Places
  <2> HIDE DEF s, c, E
  <2> QED BY <1>1, <2>1, <2>2, TotalReindex
<1> QED BY <1>2, <1>3

\* A list of requests as a function on its places.
LEMMA CountedType ==
  ASSUME NEW r \in Seq(WithdrawalRequest), NEW k
  PROVE  /\ counted(r, k) \in [Places(Len(r)) -> Nat]
         /\ requestedAmount(r, k) \in Nat
<1>1. DOMAIN r = Places(Len(r)) /\ \A i \in Places(Len(r)) : r[i] \in WithdrawalRequest
  BY DEF Places
<1>2. counted(r, k) \in [Places(Len(r)) -> Nat]
  BY <1>1 DEF counted, WithdrawalRequest
<1>3. IsFiniteSet(Places(Len(r)))
  <2>1. Len(r) \in Int
    OBVIOUS
  <2> QED BY <2>1, FS_Interval DEF Places
<1>4. requestedAmount(r, k) \in Nat
  BY <1>2, <1>3, TotalBounds DEF requestedAmount
<1> QED BY <1>2, <1>4

\* What two lists of requests ask for together.
LEMMA RequestsConcat ==
  ASSUME NEW r \in Seq(WithdrawalRequest), NEW s \in Seq(WithdrawalRequest), NEW k
  PROVE  /\ r \o s \in Seq(WithdrawalRequest)
         /\ requestedAmount(r \o s, k) = requestedAmount(r, k) + requestedAmount(s, k)
<1>1. /\ r \o s \in Seq(WithdrawalRequest) /\ Len(r) \in Nat /\ Len(s) \in Nat
      /\ DOMAIN (r \o s) = Places(Len(r) + Len(s))
      /\ \A i \in Places(Len(r) + Len(s)) :
           (r \o s)[i] = IF i <= Len(r) THEN r[i] ELSE s[i - Len(r)]
  BY ConcatProperties DEF Places
<1>2. counted(r \o s, k) = Behind(counted(r, k), counted(s, k), Len(r), Len(s))
  <2>1. ASSUME NEW i \in Places(Len(r) + Len(s))
        PROVE  i <= Len(r) => i \in DOMAIN r
    BY <1>1 DEF Places
  <2>2. ASSUME NEW i \in Places(Len(r) + Len(s))
        PROVE  ~(i <= Len(r)) => i - Len(r) \in DOMAIN s
    BY <1>1 DEF Places
  <2> QED BY <1>1, <2>1, <2>2 DEF counted, Behind
<1>3. requestedAmount(r \o s, k) = requestedAmount(r, k) + requestedAmount(s, k)
  BY <1>1, <1>2, CountedType, TotalConcat DEF requestedAmount
<1> QED BY <1>1, <1>3

\* An empty list asks for nothing, a list of one for that one.
LEMMA RequestsOfOne ==
  ASSUME NEW q \in WithdrawalRequest, NEW k
  PROVE  /\ requestedAmount(<<>>, k) = 0
         /\ requestedAmount(<<q>>, k) = IF q.afterUpgrade = k THEN q.amount ELSE 0
<1>1. requestedAmount(<<>>, k) = 0
  <2>1. counted(<<>>, k) \in [{} -> Nat] /\ \A i \in {} : counted(<<>>, k)[i] = 0
    BY DEF counted
  <2> QED BY <2>1, TotalZero DEF requestedAmount
<1>2. requestedAmount(<<q>>, k) = IF q.afterUpgrade = k THEN q.amount ELSE 0
  <2> DEFINE f == counted(<<q>>, k)
             D == {1}
             g == [f EXCEPT ![1] = 0]
  <2>1. DOMAIN <<q>> = D /\ <<q>>[1] = q /\ q.amount \in Nat
    BY DEF WithdrawalRequest
  <2>2. f \in [D -> Nat] /\ f[1] = IF q.afterUpgrade = k THEN q.amount ELSE 0
    BY <2>1 DEF counted
  <2>3. IsFiniteSet(D) /\ 1 \in D
    BY FS_Singleton
  <2>4. g \in [D -> Nat] /\ \A i \in D : g[i] = 0
    BY <2>2
  <2>5. Total(g) = 0
    <3> HIDE DEF g, D
    <3> QED BY <2>4, TotalZero
  <2> HIDE DEF f, D
  <2>6. Total(g) = Total(f) - f[1] /\ Total(f) \in Nat
    BY <2>2, <2>3, TotalZeroed, TotalBounds
  <2>7. Total(f) = f[1]
    BY <2>1, <2>2, <2>5, <2>6
  <2> QED BY <2>2, <2>7 DEF requestedAmount, f
<1> QED BY <1>1, <1>2

\* The largest of some numbers up to n.
LEMMA MaxOf ==
  ASSUME NEW n \in Nat, NEW S, S \subseteq 0 .. n, S # {}
  PROVE  Max(S) \in S /\ \A k \in S : k <= Max(S)
<1> DEFINE R == {n - k : k \in S}
<1>1. R \subseteq Nat /\ R # {}
  <2>1. \A k \in S : n - k \in Nat
    OBVIOUS
  <2> QED BY <2>1
<1>2. PICK j \in R : \A i \in R : j <= i
  BY <1>1, LeastNatural
<1>3. PICK x \in S : j = n - x
  OBVIOUS
<1>4. \A y \in S : x >= y
  <2> TAKE y \in S
  <2>1. n - y \in R
    OBVIOUS
  <2>2. j <= n - y /\ x \in 0 .. n /\ y \in 0 .. n
    BY <1>2, <2>1
  <2> QED BY <1>3, <2>2
<1>5. Max(S) \in S /\ \A y \in S : Max(S) >= y
  BY <1>3, <1>4 DEF Max
<1> QED BY <1>5

-----------------------------------------------------------------------------
(* Withdrawal requests. *)

\* Two lists are put behind each other.
LEMMA JoinLists ==
  ASSUME NEW T, NEW r \in Seq(T), NEW s \in Seq(T)
  PROVE  r \o s \in Seq(T) /\ Len(r \o s) = Len(r) + Len(s)
  OBVIOUS

\* A list is cut into two.
LEMMA CutList ==
  ASSUME NEW T, NEW r \in Seq(T), NEW m \in 0 .. Len(r)
  PROVE  /\ SubSeq(r, 1, m) \in Seq(T) /\ Len(SubSeq(r, 1, m)) = m
         /\ SubSeq(r, m + 1, Len(r)) \in Seq(T)
         /\ Len(SubSeq(r, m + 1, Len(r))) = Len(r) - m
         /\ r = SubSeq(r, 1, m) \o SubSeq(r, m + 1, Len(r))
<1>1. Len(r) \in Nat /\ m \in Nat
  OBVIOUS
<1>2. SubSeq(r, 1, m) \o SubSeq(r, m + 1, Len(r)) = SubSeq(r, 1, Len(r))
  <2>1. 1 \in 1 .. Len(r) + 1 /\ m \in 1 - 1 .. Len(r) /\ Len(r) \in m .. Len(r)
    BY <1>1
  <2> QED BY <2>1, ConcatAdjacentSubSeq
<1>3. SubSeq(r, 1, Len(r)) = r
  BY SubSeqFull
<1>4. SubSeq(r, 1, m) \in Seq(T) /\ Len(SubSeq(r, 1, m)) = m
  BY <1>1
<1>5. /\ SubSeq(r, m + 1, Len(r)) \in Seq(T)
      /\ Len(SubSeq(r, m + 1, Len(r))) = Len(r) - m
  BY <1>1
<1> QED BY <1>2, <1>3, <1>4, <1>5, Zenon

\* Popping splits a list into what stays and what leaves.
LEMMA PoppedRequests ==
  ASSUME NEW r \in Seq(WithdrawalRequest)
  PROVE  /\ stillLocked(r) \in Seq(WithdrawalRequest)
         /\ unlocked(r) \in Seq(WithdrawalRequest)
         /\ \A k : requestedAmount(r, k) = requestedAmount(stillLocked(r), k)
                                            + requestedAmount(unlocked(r), k)
         /\ unlocksInOrder(r) => unlocksInOrder(stillLocked(r))
<1> DEFINE S == {0} \cup {i \in DOMAIN r : ~isUnlocked(r[i])}
           n == Len(r)
           m == Max(S)
<1>1. n \in Nat /\ S \subseteq 0 .. n /\ S # {}
  OBVIOUS
<1>2. m \in 0 .. n
  <2> HIDE DEF S
  <2> QED BY <1>1, MaxOf
<1>3. stillLocked(r) = SubSeq(r, 1, m)
  BY DEF stillLocked
<1> HIDE DEF m
<1>4. /\ stillLocked(r) \in Seq(WithdrawalRequest) /\ Len(stillLocked(r)) = m
      /\ \A i \in 1 .. m : stillLocked(r)[i] = r[i]
  BY <1>2, <1>3
<1>5. unlocked(r) = SubSeq(r, m + 1, n)
  BY <1>4 DEF unlocked
<1>6. /\ unlocked(r) \in Seq(WithdrawalRequest) /\ Len(unlocked(r)) = n - m
      /\ \A i \in 1 .. n - m : unlocked(r)[i] = r[m + i]
  BY <1>2, <1>5
<1>7. r = stillLocked(r) \o unlocked(r)
  <2> HIDE DEF S
  <2> QED BY <1>2, <1>3, <1>5, CutList
<1>8. \A k : requestedAmount(r, k) = requestedAmount(stillLocked(r), k)
                                       + requestedAmount(unlocked(r), k)
  <2> TAKE k
  <2> DEFINE s == stillLocked(r)
             u == unlocked(r)
  <2>1. requestedAmount(s \o u, k) = requestedAmount(s, k) + requestedAmount(u, k)
    BY <1>4, <1>6, RequestsConcat
  <2> QED BY <2>1, <1>7
<1>9. unlocksInOrder(r) => unlocksInOrder(stillLocked(r))
  BY <1>2, <1>4 DEF unlocksInOrder
<1> QED BY <1>4, <1>6, <1>8, <1>9

\* A new request goes where it keeps the order.
LEMMA AddedRequest ==
  ASSUME NEW r \in Seq(WithdrawalRequest), NEW q \in WithdrawalRequest
  PROVE  /\ withRequest(r, q) \in Seq(WithdrawalRequest)
         /\ \A k : requestedAmount(withRequest(r, q), k) =
                     requestedAmount(r, k) + IF q.afterUpgrade = k THEN q.amount ELSE 0
         /\ unlocksInOrder(r) => unlocksInOrder(withRequest(r, q))
<1> DEFINE later == {i \in DOMAIN r : r[i].lockedUntil > q.lockedUntil}
           S == {0} \cup later
           n == Len(r)
           m == Max(S)
           before == SubSeq(r, 1, m)
           after == SubSeq(r, m + 1, n)
<1>1. n \in Nat /\ S \subseteq 0 .. n /\ S # {}
  OBVIOUS
<1>2. m \in S /\ m \in 0 .. n /\ \A k \in S : k <= m
  <2> HIDE DEF S
  <2> QED BY <1>1, MaxOf
<1>3. withRequest(r, q) = before \o <<q>> \o after
  BY DEF withRequest
<1> HIDE DEF m
<1>4. /\ before \in Seq(WithdrawalRequest) /\ Len(before) = m
      /\ \A i \in 1 .. m : before[i] = r[i]
      /\ after \in Seq(WithdrawalRequest) /\ Len(after) = n - m
      /\ \A i \in 1 .. n - m : after[i] = r[m + i]
  BY <1>2
<1>5. r = before \o after
  <2> HIDE DEF S
  <2> QED BY <1>2, CutList
<1> HIDE DEF before, after
<1> DEFINE one == <<q>>
           front == before \o one
           w == front \o after
<1>6. /\ one \in Seq(WithdrawalRequest) /\ Len(one) = 1 /\ one[1] = q
      /\ front \in Seq(WithdrawalRequest) /\ Len(front) = m + 1
      /\ w \in Seq(WithdrawalRequest) /\ Len(w) = n + 1
  <2>1. one \in Seq(WithdrawalRequest) /\ Len(one) = 1 /\ one[1] = q
    OBVIOUS
  <2>0. /\ before \in Seq(WithdrawalRequest) /\ Len(before) = m
        /\ after \in Seq(WithdrawalRequest) /\ Len(after) = n - m
    BY <1>4
  <2> HIDE DEF one, n, S
  <2>2. front \in Seq(WithdrawalRequest) /\ Len(front) = m + 1
    BY <2>0, <2>1, JoinLists
  <2> HIDE DEF front
  <2>3. w \in Seq(WithdrawalRequest) /\ Len(w) = (m + 1) + (n - m)
    BY <2>0, <2>2, JoinLists
  <2> QED BY <2>1, <2>2, <2>3, <1>1, <1>2
<1>7. \A k : requestedAmount(w, k) =
               requestedAmount(r, k) + IF q.afterUpgrade = k THEN q.amount ELSE 0
  <2> TAKE k
  <2>0. requestedAmount(one, k) = IF q.afterUpgrade = k THEN q.amount ELSE 0
    BY RequestsOfOne
  <2> HIDE DEF one
  <2>2. requestedAmount(front, k) = requestedAmount(before, k) + requestedAmount(one, k)
    BY <1>4, <1>6, RequestsConcat
  <2> HIDE DEF front
  <2>1. requestedAmount(w, k) = requestedAmount(front, k) + requestedAmount(after, k)
    BY <1>4, <1>6, RequestsConcat
  <2>3. requestedAmount(r, k) = requestedAmount(before, k) + requestedAmount(after, k)
    BY <1>4, <1>5, RequestsConcat
  <2>5. /\ requestedAmount(before, k) \in Nat /\ requestedAmount(after, k) \in Nat
        /\ requestedAmount(one, k) \in Nat
    BY <1>4, <1>6, CountedType
  <2> QED BY <2>0, <2>1, <2>2, <2>3, <2>5
<1>8. \A i \in 1 .. n + 1 :
        /\ i <= m => w[i] = r[i] /\ i \in 1 .. n
        /\ i = m + 1 => w[i] = q
        /\ i > m + 1 => w[i] = r[i - 1] /\ i - 1 \in 1 .. n
  <2> TAKE i \in 1 .. n + 1
  <2>1. ASSUME i <= m PROVE w[i] = r[i] /\ i \in 1 .. n
    BY <2>1, <1>2, <1>4, <1>6
  <2>2. ASSUME i = m + 1 PROVE w[i] = q
    BY <2>2, <1>2, <1>4, <1>6
  <2>3. ASSUME i > m + 1 PROVE w[i] = r[i - 1] /\ i - 1 \in 1 .. n
    <3>1. i - (m + 1) \in 1 .. n - m /\ m + (i - (m + 1)) = i - 1
      <4>1. n \in Nat /\ m \in 0 .. n /\ i \in 1 .. n + 1 /\ i > m + 1
        BY <2>3, <1>1, <1>2
      <4> HIDE DEF w, front, one, n, S, later
      <4> QED BY <4>1
    <3>2. w[i] = after[i - (m + 1)]
      BY <2>3, <3>1, <1>2, <1>4, <1>6
    <3>3. after[i - (m + 1)] = r[m + (i - (m + 1))]
      BY <3>1, <1>4
    <3>4. w[i] = r[i - 1]
      BY <3>1, <3>2, <3>3
    <3>5. i - 1 \in 1 .. n
      BY <2>3, <1>1, <1>2
    <3> QED BY <3>4, <3>5
  <2> QED BY <2>1, <2>2, <2>3
<1>9. ASSUME unlocksInOrder(r) PROVE unlocksInOrder(w)
  <2>1. \A i \in 1 .. n : r[i].lockedUntil \in Nat
    <3>1. \A i \in 1 .. n : r[i] \in WithdrawalRequest
      OBVIOUS
    <3> QED BY <3>1 DEF WithdrawalRequest
  <2>2. q.lockedUntil \in Nat /\ DOMAIN r = 1 .. n /\ DOMAIN w = 1 .. n + 1
    BY <1>6 DEF WithdrawalRequest
  <2>5. \A i, j \in 1 .. n : i < j => r[i].lockedUntil >= r[j].lockedUntil
    BY <1>9, <2>2 DEF unlocksInOrder
  <2>3. \A i \in 1 .. n : i <= m => r[i].lockedUntil > q.lockedUntil
    <3> TAKE i \in 1 .. n
    <3> HAVE i <= m
    <3>1. m \in 1 .. n /\ r[m].lockedUntil > q.lockedUntil
      BY <1>2
    <3>2. r[i].lockedUntil >= r[m].lockedUntil
      <4>1. CASE i = m
        BY <4>1, <2>1
      <4>2. CASE i < m
        BY <4>2, <3>1, <2>5
      <4> QED BY <4>1, <4>2, <3>1
    <3> QED BY <2>1, <2>2, <3>1, <3>2
  <2>4. \A i \in 1 .. n : i > m => r[i].lockedUntil <= q.lockedUntil
    <3> TAKE i \in 1 .. n
    <3> HAVE i > m
    <3>1. i \notin S
      BY <1>2
    <3> QED BY <2>1, <2>2, <3>1
  <2>6. ASSUME NEW i \in 1 .. n + 1, NEW j \in 1 .. n + 1, i < j
        PROVE  w[i].lockedUntil >= w[j].lockedUntil
    <3> HIDE DEF S, w
    <3>1. CASE i <= m /\ j <= m
      BY <3>1, <2>6, <1>8, <2>5
    <3>2. CASE i <= m /\ j = m + 1
      BY <3>2, <1>8, <2>1, <2>2, <2>3
    <3>3. CASE i <= m /\ j > m + 1
      BY <3>3, <1>2, <1>8, <2>5
    <3>4. CASE i = m + 1 /\ j > m + 1
      <4>1. j - 1 \in 1 .. n /\ j - 1 > m /\ w[j] = r[j - 1] /\ w[i] = q
        BY <3>4, <1>2, <1>8
      <4> QED BY <4>1, <2>1, <2>2, <2>4
    <3>5. CASE i > m + 1 /\ j > m + 1
      <4>1. i - 1 \in 1 .. n /\ j - 1 \in 1 .. n /\ i - 1 < j - 1
            /\ w[i] = r[i - 1] /\ w[j] = r[j - 1]
        BY <3>5, <2>6, <1>2, <1>8
      <4> QED BY <4>1, <2>5
    <3> QED BY <3>1, <3>2, <3>3, <3>4, <3>5, <2>6, <1>2
  <2> QED BY <2>2, <2>6 DEF unlocksInOrder
<1> QED BY <1>3, <1>6, <1>7, <1>9

-----------------------------------------------------------------------------
(* The inductive invariant. *)

\* What holds of a user and its requests in one pool between two calls: who
\* still waits for an old withdrawal has not asked for a new one.
UserOK(user, requests) ==
  /\ user \in UserInfo /\ requests \in Seq(WithdrawalRequest)
  /\ unlocksInOrder(requests)
  /\ user.pendingWithdrawals = requestedAmount(requests, TRUE) + requestedAmount(requests, FALSE)
  /\ user.pendingWithdrawals <= user.amount
  /\ requestedAmount(requests, TRUE) = 0 \/ requestedAmount(requests, FALSE) = 0

\* The debt is covered by the rewards per share that are recorded, and all the
\* more by those that have come since.
Covered(user, requests, pool) ==
  user.rewardDebt <=
    ((user.amount - requestedAmount(requests, TRUE)) * pool.accRewardPerShare) \div accScale

stakes(pid) == [u \in Users |-> userInfos[pid][u].amount]
asked(pid) == [u \in Users |-> requestedAmount(withdrawalRequests[pid][u], TRUE)]

PoolsInv ==
  /\ poolInfos \in Seq(PoolInfo) /\ Len(poolInfos) <= MaxPools
  /\ \A i, j \in DOMAIN poolInfos : poolInfos[i].token = poolInfos[j].token => i = j
  /\ totalAllocPoints \in Nat /\ (poolInfos # <<>> => totalAllocPoints > 0)

StakesInv ==
  /\ userInfos \in [Pids -> [Users -> UserInfo]]
  /\ withdrawalRequests \in [Pids -> [Users -> Seq(WithdrawalRequest)]]
  /\ totalPendingWithdrawals \in [Pids -> Nat]
  /\ vaultBalance \in [Tokens -> Nat]
  /\ \A pid \in Pids, u \in Users : UserOK(userInfos[pid][u], withdrawalRequests[pid][u])
  /\ \A pid \in Pids : totalPendingWithdrawals[pid] = Total(asked(pid))

\* The pools and the stakes in them.
BackedInv ==
  /\ \A pid \in DOMAIN poolInfos : Total(stakes(pid)) <= vaultBalance[poolInfos[pid].token]
  /\ \A pid \in DOMAIN poolInfos, u \in Users :
       Covered(userInfos[pid][u], withdrawalRequests[pid][u], poolInfos[pid])
  /\ \A pid \in Pids \ DOMAIN poolInfos, u \in Users :
       /\ userInfos[pid][u].amount = 0 /\ userInfos[pid][u].rewardDebt = 0
       /\ withdrawalRequests[pid][u] = <<>>

RewardsInv ==
  /\ pendingRewardTransfers \in [Users -> Nat] /\ rewardBalance \in [Users -> Nat]
  /\ storeBalance \in Nat

\* The checkpoints of a user are of different moments, in their order.
Ordered(list) == \A i, j \in DOMAIN list : i < j => list[i].from < list[j].from

VotesInv ==
  /\ delegates \in [Users -> Users \cup {ZeroAddress}]
  /\ checkpoints \in [Users -> Seq(Checkpoint)]
  /\ \A d \in Users :
       /\ Ordered(checkpoints[d])
       /\ \A i \in DOMAIN checkpoints[d] : checkpoints[d][i].from <= now

Inv ==
  /\ PoolsInv /\ StakesInv /\ BackedInv /\ RewardsInv /\ VotesInv
  /\ rewardRate \in Nat /\ vaultPaused \in BOOLEAN /\ now \in Nat

-----------------------------------------------------------------------------
(* Pools. *)

\* The pools are numbered from 1.
LEMMA PoolFacts ==
  ASSUME PoolsInv
  PROVE  /\ DOMAIN poolInfos = 1 .. Len(poolInfos) /\ Len(poolInfos) \in Nat
         /\ DOMAIN poolInfos \subseteq Pids
         /\ \A pid \in DOMAIN poolInfos : poolInfos[pid] \in PoolInfo
<1>1. DOMAIN poolInfos = 1 .. Len(poolInfos) /\ Len(poolInfos) \in Nat
  BY DEF PoolsInv
<1>2. DOMAIN poolInfos \subseteq Pids
  BY <1>1, XVSVaultAssumption DEF PoolsInv, Pids
<1>3. \A pid \in DOMAIN poolInfos : poolInfos[pid] \in PoolInfo
  BY DEF PoolsInv
<1> QED BY <1>1, <1>2, <1>3

\* What users have asked for and staked, as functions that have totals.
LEMMA UserFunctions ==
  ASSUME StakesInv, NEW pid \in Pids
  PROVE  /\ IsFiniteSet(Users)
         /\ stakes(pid) \in [Users -> Nat] /\ asked(pid) \in [Users -> Nat]
         /\ \A u \in Users : asked(pid)[u] <= stakes(pid)[u]
         /\ Total(asked(pid)) <= Total(stakes(pid))
         /\ Total(stakes(pid)) \in Nat
<1>1. \A u \in Users : /\ UserOK(userInfos[pid][u], withdrawalRequests[pid][u])
                       /\ requestedAmount(withdrawalRequests[pid][u], TRUE) \in Nat
                       /\ requestedAmount(withdrawalRequests[pid][u], FALSE) \in Nat
  BY CountedType DEF StakesInv, UserOK
<1>2. IsFiniteSet(Users)
  BY XVSVaultAssumption
<1>3. /\ stakes(pid) \in [Users -> Nat] /\ asked(pid) \in [Users -> Nat]
      /\ \A u \in Users : asked(pid)[u] <= stakes(pid)[u]
  <2>1. ASSUME NEW u \in Users
        PROVE  /\ userInfos[pid][u].amount \in Nat
               /\ requestedAmount(withdrawalRequests[pid][u], TRUE) \in Nat
               /\ requestedAmount(withdrawalRequests[pid][u], TRUE)
                    <= userInfos[pid][u].amount
    <3> DEFINE user == userInfos[pid][u]
               new == requestedAmount(withdrawalRequests[pid][u], TRUE)
               old == requestedAmount(withdrawalRequests[pid][u], FALSE)
    <3>1. /\ user \in UserInfo /\ new \in Nat /\ old \in Nat
          /\ user.pendingWithdrawals = new + old /\ user.pendingWithdrawals <= user.amount
      BY <1>1, Zenon DEF UserOK
    <3> HIDE DEF user, new, old
    <3>2. user.amount \in Nat /\ new \in Nat /\ new <= user.amount
      BY <3>1 DEF UserInfo
    <3> QED BY <3>2 DEF user, new
  <2> QED BY <2>1 DEF stakes, asked
<1>4. Total(asked(pid)) <= Total(stakes(pid)) /\ Total(stakes(pid)) \in Nat
  BY <1>2, <1>3, TotalMonotone, TotalBounds
<1> QED BY <1>2, <1>3, <1>4

\* The supply of a pool is not negative.
LEMMA SupplyNatural ==
  ASSUME PoolsInv, StakesInv, BackedInv, NEW pid \in DOMAIN poolInfos
  PROVE  /\ vaultBalance[poolInfos[pid].token] \in Nat
         /\ vaultBalance[poolInfos[pid].token] - totalPendingWithdrawals[pid] \in Nat
<1>1. pid \in Pids /\ poolInfos[pid].token \in Tokens
  BY PoolFacts DEF PoolInfo
<1>2. /\ vaultBalance[poolInfos[pid].token] \in Nat /\ totalPendingWithdrawals[pid] \in Nat
      /\ totalPendingWithdrawals[pid] = Total(asked(pid))
      /\ Total(stakes(pid)) <= vaultBalance[poolInfos[pid].token]
  BY <1>1 DEF StakesInv, BackedInv
<1>3. Total(asked(pid)) <= Total(stakes(pid)) /\ Total(stakes(pid)) \in Nat
  BY <1>1, UserFunctions
<1> QED BY <1>2, <1>3

\* What an update does to one pool and leaves of the others.
LEMMA UpdatedPool ==
  ASSUME Inv, NEW pid \in DOMAIN poolInfos
  PROVE  LET infos == updatePool(poolInfos, pid)
         IN  /\ DOMAIN infos = DOMAIN poolInfos
             /\ infos[pid] \in PoolInfo
             /\ infos[pid].token = poolInfos[pid].token
             /\ infos[pid].allocPoint = poolInfos[pid].allocPoint
             /\ infos[pid].lockPeriod = poolInfos[pid].lockPeriod
             /\ poolInfos[pid].accRewardPerShare <= infos[pid].accRewardPerShare
             /\ \A i \in DOMAIN poolInfos \ {pid} : infos[i] = poolInfos[i]
<1> DEFINE pool == poolInfos[pid]
           supply == vaultBalance[pool.token] - totalPendingWithdrawals[pid]
           reward == ((now - pool.lastReward) * rewardRate * pool.allocPoint)
                       \div totalAllocPoints
           more == (reward * accScale) \div supply
<1>1. pool \in PoolInfo /\ DOMAIN poolInfos = 1 .. Len(poolInfos)
  BY PoolFacts DEF Inv
<1>2. supply \in Nat
  BY SupplyNatural DEF Inv
<1>3. totalAllocPoints \in Nat \ {0} /\ rewardRate \in Nat /\ now \in Nat /\ accScale \in Nat \ {0}
  BY XVSVaultAssumption DEF Inv, PoolsInv
<1>4. CASE now <= pool.lastReward
  BY <1>1, <1>4 DEF updatePool, PoolInfo
<1>5. CASE ~(now <= pool.lastReward) /\ supply = 0
  <2>1. updatePool(poolInfos, pid) = [poolInfos EXCEPT ![pid].lastReward = now]
    BY <1>5 DEF updatePool
  <2> QED BY <1>1, <1>3, <2>1 DEF PoolInfo
<1>6. CASE ~(now <= pool.lastReward) /\ supply # 0
  <2>1. updatePool(poolInfos, pid) =
          [poolInfos EXCEPT ![pid].lastReward = now, ![pid].accRewardPerShare = @ + more]
    BY <1>6 DEF updatePool
  <2>2. now - pool.lastReward \in Nat /\ pool.allocPoint \in Nat
    BY <1>1, <1>3, <1>6 DEF PoolInfo
  <2>3. (now - pool.lastReward) * rewardRate * pool.allocPoint \in Nat
    BY <2>2, <1>3
  <2>4. reward \in Nat
    BY <2>3, <1>3, DivBounds
  <2>5. more \in Nat
    <3> HIDE DEF reward, supply
    <3>1. reward * accScale \in Nat /\ supply \in Nat \ {0}
      BY <2>4, <1>2, <1>3, <1>6
    <3> QED BY <3>1, DivBounds
  <2> HIDE DEF more
  <2>6. pool.accRewardPerShare \in Nat /\ pool.accRewardPerShare + more \in Nat
    BY <1>1, <2>5 DEF PoolInfo
  <2>7. poolInfos \in Seq(PoolInfo)
    BY DEF Inv, PoolsInv
  <2> DEFINE updated == [pool EXCEPT !.lastReward = now, !.accRewardPerShare = @ + more]
  <2>8. /\ updatePool(poolInfos, pid)[pid] = updated
        /\ DOMAIN updatePool(poolInfos, pid) = DOMAIN poolInfos
        /\ \A i \in DOMAIN poolInfos \ {pid} : updatePool(poolInfos, pid)[i] = poolInfos[i]
    <3> HIDE DEF updatePool
    <3> QED BY <2>1, <2>7, Zenon
  <2>9. /\ updated \in PoolInfo /\ updated.token = pool.token
        /\ updated.allocPoint = pool.allocPoint /\ updated.lockPeriod = pool.lockPeriod
        /\ updated.accRewardPerShare = pool.accRewardPerShare + more
    BY <1>1, <1>3, <2>6 DEF PoolInfo
  <2> QED BY <2>5, <2>6, <2>8, <2>9
<1> QED BY <1>4, <1>5, <1>6

\* What an update of the pools may do: it only adds rewards.
PoolsKept ==
  /\ PoolsInv' /\ DOMAIN poolInfos' = DOMAIN poolInfos
  /\ \A i \in DOMAIN poolInfos :
       /\ poolInfos'[i].token = poolInfos[i].token
       /\ poolInfos[i].accRewardPerShare <= poolInfos'[i].accRewardPerShare

\* Pools that differ only in their points, periods and rewards are kept.
LEMMA KeptPools ==
  ASSUME Inv, NEW infos, poolInfos' = infos,
         infos \in Seq(PoolInfo), DOMAIN infos = DOMAIN poolInfos,
         \A i \in DOMAIN poolInfos :
           /\ infos[i].token = poolInfos[i].token
           /\ poolInfos[i].accRewardPerShare <= infos[i].accRewardPerShare,
         totalAllocPoints' \in Nat, poolInfos # <<>> => totalAllocPoints' > 0
  PROVE  PoolsKept
<1>1. poolInfos \in Seq(PoolInfo) /\ Len(poolInfos) <= MaxPools
  BY DEF Inv, PoolsInv
<1>2. Len(infos) = Len(poolInfos) /\ (infos # <<>> => poolInfos # <<>>)
  BY <1>1
<1>3. \A i, j \in DOMAIN poolInfos : poolInfos[i].token = poolInfos[j].token => i = j
  BY DEF Inv, PoolsInv
<1>4. PoolsInv'
  BY <1>1, <1>2, <1>3 DEF PoolsInv
<1> QED BY <1>4 DEF PoolsKept

\* One pool is updated.
LEMMA UpdateKeepsPools ==
  ASSUME Inv, NEW pid \in DOMAIN poolInfos,
         poolInfos' = updatePool(poolInfos, pid), UNCHANGED totalAllocPoints
  PROVE  PoolsKept
<1> DEFINE infos == updatePool(poolInfos, pid)
<1>1. /\ DOMAIN infos = DOMAIN poolInfos /\ infos[pid] \in PoolInfo
      /\ infos[pid].token = poolInfos[pid].token
      /\ poolInfos[pid].accRewardPerShare <= infos[pid].accRewardPerShare
      /\ \A i \in DOMAIN poolInfos \ {pid} : infos[i] = poolInfos[i]
  BY UpdatedPool
<1>2. /\ DOMAIN poolInfos = 1 .. Len(poolInfos) /\ Len(poolInfos) \in Nat
      /\ \A i \in DOMAIN poolInfos : poolInfos[i] \in PoolInfo
  BY PoolFacts DEF Inv
<1>3. \A i \in DOMAIN poolInfos :
        /\ infos[i] \in PoolInfo /\ infos[i].token = poolInfos[i].token
        /\ poolInfos[i].accRewardPerShare <= infos[i].accRewardPerShare
  <2> TAKE i \in DOMAIN poolInfos
  <2>1. CASE i = pid
    <3> HIDE DEF infos
    <3> QED BY <1>1, <2>1
  <2>2. CASE i # pid
    <3> HIDE DEF infos
    <3>1. infos[i] = poolInfos[i] /\ poolInfos[i] \in PoolInfo
      BY <1>1, <1>2, <2>2
    <3>2. poolInfos[i].accRewardPerShare \in Nat
      BY <3>1 DEF PoolInfo
    <3> QED BY <3>1, <3>2
  <2> QED BY <2>1, <2>2
<1>4. infos = [i \in 1 .. Len(poolInfos) |-> infos[i]]
  <2>1. poolInfos \in Seq(PoolInfo)
    BY DEF Inv, PoolsInv
  <2>2. infos = [i \in DOMAIN infos |-> infos[i]]
    <3>1. poolInfos = [i \in DOMAIN poolInfos |-> poolInfos[i]]
      BY <2>1
    <3> QED BY <3>1, Zenon DEF updatePool
  <2> QED BY <2>2, <1>1, <1>2
<1> HIDE DEF infos
<1>5. infos \in Seq(PoolInfo)
  BY <1>2, <1>3, <1>4
<1>6. totalAllocPoints' \in Nat /\ (poolInfos # <<>> => totalAllocPoints' > 0)
  BY DEF Inv, PoolsInv
<1> QED BY <1>1, <1>3, <1>5, <1>6, KeptPools DEF infos

\* All pools are updated.
LEMMA MassUpdated ==
  ASSUME Inv
  PROVE  /\ massUpdatePools \in Seq(PoolInfo) /\ DOMAIN massUpdatePools = DOMAIN poolInfos
         /\ \A i \in DOMAIN poolInfos :
              /\ massUpdatePools[i].token = poolInfos[i].token
              /\ massUpdatePools[i].allocPoint = poolInfos[i].allocPoint
              /\ massUpdatePools[i].lockPeriod = poolInfos[i].lockPeriod
              /\ poolInfos[i].accRewardPerShare <= massUpdatePools[i].accRewardPerShare
<1>1. DOMAIN poolInfos = 1 .. Len(poolInfos) /\ Len(poolInfos) \in Nat
  BY PoolFacts DEF Inv
<1>2. \A i \in DOMAIN poolInfos :
        LET info == updatePool(poolInfos, i)[i]
        IN  /\ info \in PoolInfo /\ info.token = poolInfos[i].token
            /\ info.allocPoint = poolInfos[i].allocPoint
            /\ info.lockPeriod = poolInfos[i].lockPeriod
            /\ poolInfos[i].accRewardPerShare <= info.accRewardPerShare
  BY UpdatedPool
<1>3. massUpdatePools = [i \in 1 .. Len(poolInfos) |-> updatePool(poolInfos, i)[i]]
  BY <1>1 DEF massUpdatePools
<1>4. massUpdatePools \in Seq(PoolInfo)
  BY <1>1, <1>2, <1>3
<1>5. /\ DOMAIN massUpdatePools = DOMAIN poolInfos
      /\ \A i \in DOMAIN poolInfos : massUpdatePools[i] = updatePool(poolInfos, i)[i]
  BY DEF massUpdatePools
<1> QED BY <1>2, <1>4, <1>5

-----------------------------------------------------------------------------
(* Stakes. *)

\* A larger quotient of a larger number.
LEMMA DivMonotone ==
  ASSUME NEW a \in Nat, NEW b \in Nat, a <= b, NEW c \in Nat \ {0}
  PROVE  a \div c <= b \div c
<1>1. a \div c \in Nat /\ (a \div c) * c <= a
  BY DivBounds
<1> QED BY <1>1, DivGreatest

\* What a user has asked for and what it has staked are numbers.
LEMMA UserFacts ==
  ASSUME NEW user, NEW requests, UserOK(user, requests)
  PROVE  /\ requestedAmount(requests, TRUE) \in Nat
         /\ requestedAmount(requests, FALSE) \in Nat
         /\ user.amount \in Nat /\ user.rewardDebt \in Nat /\ user.pendingWithdrawals \in Nat
         /\ requestedAmount(requests, TRUE) <= user.pendingWithdrawals
         /\ requestedAmount(requests, TRUE) <= user.amount
         /\ user.amount - requestedAmount(requests, TRUE) \in Nat
<1> DEFINE new == requestedAmount(requests, TRUE)
           old == requestedAmount(requests, FALSE)
<1>1. /\ user \in UserInfo /\ new \in Nat /\ old \in Nat
      /\ user.pendingWithdrawals = new + old /\ user.pendingWithdrawals <= user.amount
  BY CountedType, Zenon DEF UserOK
<1> HIDE DEF new, old
<1>2. /\ new \in Nat /\ old \in Nat
      /\ user.amount \in Nat /\ user.rewardDebt \in Nat /\ user.pendingWithdrawals \in Nat
      /\ new <= user.pendingWithdrawals /\ new <= user.amount /\ user.amount - new \in Nat
  BY <1>1 DEF UserInfo
<1> QED BY <1>2 DEF new, old

\* More rewards per share cover what fewer did.
LEMMA CoveredGrows ==
  ASSUME NEW user, NEW requests, UserOK(user, requests),
         NEW p \in PoolInfo, NEW q \in PoolInfo,
         p.accRewardPerShare <= q.accRewardPerShare, Covered(user, requests, p)
  PROVE  Covered(user, requests, q)
<1> DEFINE n == user.amount - requestedAmount(requests, TRUE)
           a == n * p.accRewardPerShare
           b == n * q.accRewardPerShare
<1>1. n \in Nat /\ user.rewardDebt \in Nat /\ accScale \in Nat \ {0}
  BY UserFacts, XVSVaultAssumption
<1>2. user.rewardDebt <= a \div accScale
  BY DEF Covered
<1> HIDE DEF n
<1>3. a \in Nat /\ b \in Nat /\ a <= b
  <2>1. p.accRewardPerShare \in Nat /\ q.accRewardPerShare \in Nat
    BY DEF PoolInfo
  <2> QED BY <1>1, <2>1, MulMonotone
<1>4. a \div accScale \in Nat /\ b \div accScale \in Nat /\ a \div accScale <= b \div accScale
  <2> HIDE DEF a, b
  <2> QED BY <1>1, <1>3, DivBounds, DivMonotone
<1>5. user.rewardDebt <= b \div accScale
  BY <1>1, <1>2, <1>4
<1> QED BY <1>5 DEF Covered, n

\* The pools are updated and the vault may receive tokens.
LEMMA StakesUntouched ==
  ASSUME Inv, PoolsKept, UNCHANGED <<userInfos, withdrawalRequests, totalPendingWithdrawals>>,
         vaultBalance' \in [Tokens -> Nat], \A t \in Tokens : vaultBalance[t] <= vaultBalance'[t]
  PROVE  StakesInv' /\ BackedInv'
<1>1. StakesInv'
  BY DEF Inv, StakesInv, asked
<1>2. \A pid \in DOMAIN poolInfos' :
        Total(stakes(pid))' <= vaultBalance'[poolInfos'[pid].token]
  <2> TAKE pid \in DOMAIN poolInfos'
  <2>1. pid \in DOMAIN poolInfos /\ poolInfos'[pid].token = poolInfos[pid].token
    BY DEF PoolsKept
  <2>2. /\ Total(stakes(pid)) <= vaultBalance[poolInfos[pid].token] /\ pid \in Pids
        /\ poolInfos[pid].token \in Tokens
    BY <2>1, PoolFacts DEF Inv, BackedInv, PoolInfo
  <2>3. stakes(pid)' = stakes(pid)
    BY DEF stakes
  <2>4. Total(stakes(pid)) \in Nat
    BY <2>2, UserFunctions DEF Inv
  <2>5. /\ vaultBalance[poolInfos[pid].token] \in Nat /\ vaultBalance'[poolInfos[pid].token] \in Nat
        /\ vaultBalance[poolInfos[pid].token] <= vaultBalance'[poolInfos[pid].token]
    BY <2>2 DEF Inv, StakesInv
  <2> QED BY <2>1, <2>2, <2>3, <2>4, <2>5
<1>3. ASSUME NEW pid \in DOMAIN poolInfos', NEW u \in Users
      PROVE  Covered(userInfos'[pid][u], withdrawalRequests'[pid][u], poolInfos'[pid])
  <2>1. /\ pid \in DOMAIN poolInfos
        /\ poolInfos[pid].accRewardPerShare <= poolInfos'[pid].accRewardPerShare
    BY DEF PoolsKept
  <2>2. pid \in Pids /\ poolInfos[pid] \in PoolInfo /\ poolInfos'[pid] \in PoolInfo
    <3>1. PoolsInv'
      BY DEF PoolsKept
    <3> QED BY <2>1, <3>1, PoolFacts DEF Inv, PoolsInv
  <2>3. /\ UserOK(userInfos[pid][u], withdrawalRequests[pid][u])
        /\ Covered(userInfos[pid][u], withdrawalRequests[pid][u], poolInfos[pid])
    BY <2>1, <2>2 DEF Inv, StakesInv, BackedInv
  <2> QED BY <2>1, <2>2, <2>3, CoveredGrows
<1>4. \A pid \in Pids \ DOMAIN poolInfos', u \in Users :
        /\ userInfos'[pid][u].amount = 0 /\ userInfos'[pid][u].rewardDebt = 0
        /\ withdrawalRequests'[pid][u] = <<>>
  BY DEF Inv, BackedInv, PoolsKept
<1> QED BY <1>1, <1>2, <1>3, <1>4 DEF BackedInv

\* Nothing but the stake and the requests of one user in one pool changes.
OnlyStake(pid, u) ==
  /\ userInfos' \in [Pids -> [Users -> UserInfo]]
  /\ withdrawalRequests' \in [Pids -> [Users -> Seq(WithdrawalRequest)]]
  /\ \A p \in Pids, v \in Users :
       p # pid \/ v # u => /\ userInfos'[p][v] = userInfos[p][v]
                           /\ withdrawalRequests'[p][v] = withdrawalRequests[p][v]

\* A user changes its stake in a pool by d and what it has asked for by e.
LEMMA StakeStep ==
  ASSUME Inv, PoolsKept, NEW pid \in DOMAIN poolInfos, NEW u \in Users, OnlyStake(pid, u),
         UserOK(userInfos'[pid][u], withdrawalRequests'[pid][u]),
         Covered(userInfos'[pid][u], withdrawalRequests'[pid][u], poolInfos'[pid]),
         NEW d \in Int, userInfos'[pid][u].amount = userInfos[pid][u].amount + d,
         NEW e \in Int,
         requestedAmount(withdrawalRequests'[pid][u], TRUE) =
           requestedAmount(withdrawalRequests[pid][u], TRUE) + e,
         totalPendingWithdrawals' =
           [totalPendingWithdrawals EXCEPT ![pid] = totalPendingWithdrawals[pid] + e],
         vaultBalance' =
           [vaultBalance EXCEPT ![poolInfos[pid].token] = vaultBalance[poolInfos[pid].token] + d]
  PROVE  StakesInv' /\ BackedInv'
<1> DEFINE token == poolInfos[pid].token
<1>1. pid \in Pids /\ poolInfos[pid] \in PoolInfo /\ token \in Tokens /\ IsFiniteSet(Users)
  BY PoolFacts, XVSVaultAssumption DEF Inv, PoolInfo
<1>2. PoolsInv' /\ DOMAIN poolInfos' = DOMAIN poolInfos
  BY DEF PoolsKept
<1>3. \A p \in Pids, v \in Users : UserOK(userInfos'[p][v], withdrawalRequests'[p][v])
  BY <1>1 DEF OnlyStake, Inv, StakesInv
<1>4. \A p \in Pids \ {pid} : stakes(p)' = stakes(p) /\ asked(p)' = asked(p)
  BY DEF OnlyStake, stakes, asked
<1>5. /\ stakes(pid) \in [Users -> Nat] /\ asked(pid) \in [Users -> Nat]
      /\ Total(stakes(pid)) \in Nat /\ Total(asked(pid)) \in Nat
      /\ stakes(pid)[u] <= Total(stakes(pid))
  <2>1. stakes(pid) \in [Users -> Nat] /\ asked(pid) \in [Users -> Nat]
    BY <1>1, UserFunctions DEF Inv
  <2> QED BY <2>1, <1>1, TotalBounds
<1>6. /\ userInfos'[pid][u].amount \in Nat
      /\ requestedAmount(withdrawalRequests'[pid][u], TRUE) \in Nat
  BY UserFacts
<1>7. Total(stakes(pid)') = Total(stakes(pid)) + d
  <2>1. stakes(pid)' = [stakes(pid) EXCEPT ![u] = userInfos'[pid][u].amount]
    BY <1>1 DEF OnlyStake, stakes
  <2>2. stakes(pid)[u] = userInfos[pid][u].amount
    BY DEF stakes
  <2>3. Total(stakes(pid)') = Total(stakes(pid)) - stakes(pid)[u] + userInfos'[pid][u].amount
    <3> DEFINE before == stakes(pid)
               n == userInfos'[pid][u].amount
    <3>1. n \in Nat /\ before \in [Users -> Nat] /\ IsFiniteSet(Users) /\ u \in Users
      BY <1>1, <1>5, <1>6
    <3> HIDE DEF before, n
    <3>2. Total([before EXCEPT ![u] = n]) = Total(before) - before[u] + n
      BY <3>1, TotalExcept
    <3> QED BY <2>1, <3>2 DEF before, n
  <2>4. stakes(pid)[u] \in Nat
    BY <1>5
  <2> QED BY <2>2, <2>3, <2>4, <1>5
<1>8. Total(asked(pid)') = Total(asked(pid)) + e
  <2> DEFINE n == requestedAmount(withdrawalRequests'[pid][u], TRUE)
             m == requestedAmount(withdrawalRequests[pid][u], TRUE)
  <2>1. asked(pid)' = [asked(pid) EXCEPT ![u] = n]
    BY <1>1 DEF OnlyStake, asked
  <2>2. asked(pid)[u] = m
    BY DEF asked
  <2>5. n \in Nat /\ n = m + e
    BY <1>6
  <2>4. m \in Nat
    BY <2>2, <1>5
  <2>3. Total(asked(pid)') = Total(asked(pid)) - asked(pid)[u] + n
    <3> DEFINE before == asked(pid)
    <3>1. n \in Nat /\ before \in [Users -> Nat] /\ IsFiniteSet(Users) /\ u \in Users
      BY <1>1, <1>5, <2>5
    <3> HIDE DEF before, n, m
    <3>2. Total([before EXCEPT ![u] = n]) = Total(before) - before[u] + n
      BY <3>1, TotalExcept
    <3> QED BY <2>1, <3>2 DEF before
  <2> HIDE DEF n, m, token
  <2> QED BY <2>2, <2>3, <2>4, <2>5, <1>5
<1>9. /\ \A p \in Pids : totalPendingWithdrawals[p] = Total(asked(p))
      /\ totalPendingWithdrawals \in [Pids -> Nat]
      /\ vaultBalance \in [Tokens -> Nat]
      /\ Total(stakes(pid)) <= vaultBalance[token]
  BY DEF Inv, StakesInv, BackedInv
<1>10. Total(stakes(pid)') \in Nat /\ Total(asked(pid)') \in Nat
  <2>1. stakes(pid)' \in [Users -> Nat] /\ asked(pid)' \in [Users -> Nat]
    <3>1. \A v \in Users : /\ userInfos'[pid][v].amount \in Nat
                           /\ requestedAmount(withdrawalRequests'[pid][v], TRUE) \in Nat
      BY <1>1, <1>3, UserFacts
    <3> QED BY <3>1 DEF stakes, asked
  <2> QED BY <2>1, <1>1, TotalBounds
<1>11. \A p \in Pids : totalPendingWithdrawals'[p] = Total(asked(p)')
  <2> HIDE DEF token
  <2> TAKE p \in Pids
  <2>1. CASE p = pid
    BY <2>1, <1>1, <1>8, <1>9
  <2>2. CASE p # pid
    BY <2>2, <1>4, <1>9
  <2> QED BY <2>1, <2>2
<1>12. /\ totalPendingWithdrawals' \in [Pids -> Nat]
       /\ vaultBalance' \in [Tokens -> Nat]
       /\ vaultBalance'[token] = vaultBalance[token] + d
       /\ \A t \in Tokens \ {token} : vaultBalance'[t] = vaultBalance[t]
  <2>1. totalPendingWithdrawals[pid] + e \in Nat
    BY <1>1, <1>8, <1>9, <1>10
  <2>2. vaultBalance[token] + d \in Nat
    <3>1. vaultBalance[token] \in Nat
      BY <1>1, <1>9
    <3> HIDE DEF token
    <3> QED BY <3>1, <1>5, <1>7, <1>9, <1>10
  <2> QED BY <2>1, <2>2, <1>1, <1>9
<1>13. StakesInv'
  BY <1>3, <1>11, <1>12 DEF OnlyStake, StakesInv
<1>14. ASSUME NEW p \in DOMAIN poolInfos'
       PROVE  Total(stakes(p)') <= vaultBalance'[poolInfos'[p].token]
  <2>1. p \in DOMAIN poolInfos /\ p \in Pids /\ poolInfos[p].token \in Tokens
        /\ poolInfos'[p].token = poolInfos[p].token
    BY <1>2, PoolFacts DEF Inv, PoolInfo, PoolsKept
  <2>2. CASE p = pid
    <3>1. Total(stakes(pid)) + d <= vaultBalance[token] + d
      <4>1. vaultBalance[token] \in Nat
        BY <1>1, <1>9
      <4> HIDE DEF token
      <4> QED BY <4>1, <1>5, <1>9
    <3> QED BY <3>1, <2>1, <2>2, <1>7, <1>12
  <2>3. CASE p # pid
    <3>1. poolInfos[p].token # token
      BY <2>1, <2>3 DEF Inv, PoolsInv
    <3>2. Total(stakes(p)) <= vaultBalance[poolInfos[p].token]
      BY <2>1 DEF Inv, BackedInv
    <3> QED BY <3>1, <3>2, <2>1, <2>3, <1>4, <1>12
  <2> QED BY <2>2, <2>3
<1>15. ASSUME NEW p \in DOMAIN poolInfos', NEW v \in Users
       PROVE  Covered(userInfos'[p][v], withdrawalRequests'[p][v], poolInfos'[p])
  <2>1. /\ p \in DOMAIN poolInfos /\ p \in Pids
        /\ poolInfos[p] \in PoolInfo /\ poolInfos'[p] \in PoolInfo
        /\ poolInfos[p].accRewardPerShare <= poolInfos'[p].accRewardPerShare
    BY <1>2, PoolFacts DEF Inv, PoolsKept, PoolsInv
  <2>2. CASE p = pid /\ v = u
    BY <2>2
  <2>3. CASE p # pid \/ v # u
    <3>1. /\ UserOK(userInfos[p][v], withdrawalRequests[p][v])
          /\ Covered(userInfos[p][v], withdrawalRequests[p][v], poolInfos[p])
      BY <2>1 DEF Inv, StakesInv, BackedInv
    <3>2. Covered(userInfos[p][v], withdrawalRequests[p][v], poolInfos'[p])
      BY <2>1, <3>1, CoveredGrows
    <3> QED BY <2>1, <2>3, <3>2 DEF OnlyStake
  <2> QED BY <2>2, <2>3
<1>16. \A p \in Pids \ DOMAIN poolInfos', v \in Users :
         /\ userInfos'[p][v].amount = 0 /\ userInfos'[p][v].rewardDebt = 0
         /\ withdrawalRequests'[p][v] = <<>>
  <2> TAKE p \in Pids \ DOMAIN poolInfos', v \in Users
  <2>1. p \in Pids \ DOMAIN poolInfos /\ p # pid
    BY <1>2
  <2>2. /\ userInfos[p][v].amount = 0 /\ userInfos[p][v].rewardDebt = 0
        /\ withdrawalRequests[p][v] = <<>>
    BY <2>1 DEF Inv, BackedInv
  <2>3. /\ userInfos'[p][v] = userInfos[p][v]
        /\ withdrawalRequests'[p][v] = withdrawalRequests[p][v]
    BY <2>1 DEF OnlyStake
  <2> QED BY <2>2, <2>3
<1> QED BY <1>13, <1>14, <1>15, <1>16 DEF BackedInv

-----------------------------------------------------------------------------
(* Rewards and votes. *)

\* A payment leaves no negative balance, whether or not what is missing is
\* recorded.
LEMMA RewardPaid ==
  ASSUME RewardsInv, NEW u \in Users, NEW n \in Nat,
         transferReward(u, n) \/ safeRewardTransfer(u, n)
  PROVE  RewardsInv'
<1>1. /\ pendingRewardTransfers[u] \in Nat /\ rewardBalance[u] \in Nat /\ storeBalance \in Nat
      /\ pendingRewardTransfers \in [Users -> Nat] /\ rewardBalance \in [Users -> Nat]
  BY DEF RewardsInv
<1>2. CASE transferReward(u, n)
  <2> DEFINE full == n + pendingRewardTransfers[u]
             payment == IF full <= storeBalance THEN full ELSE storeBalance
  <2>1. /\ full - payment \in Nat /\ storeBalance - payment \in Nat
        /\ rewardBalance[u] + payment \in Nat
    BY <1>1
  <2>2. /\ pendingRewardTransfers' = [pendingRewardTransfers EXCEPT ![u] = full - payment]
        /\ storeBalance' = storeBalance - payment
        /\ rewardBalance' = [rewardBalance EXCEPT ![u] = rewardBalance[u] + payment]
    BY <1>2 DEF transferReward
  <2> HIDE DEF full, payment
  <2> QED BY <1>1, <2>1, <2>2 DEF RewardsInv
<1>3. CASE safeRewardTransfer(u, n)
  <2> DEFINE payment == IF n <= storeBalance THEN n ELSE storeBalance
  <2>1. storeBalance - payment \in Nat /\ rewardBalance[u] + payment \in Nat
    BY <1>1
  <2>2. /\ pendingRewardTransfers' = pendingRewardTransfers
        /\ storeBalance' = storeBalance - payment
        /\ rewardBalance' = [rewardBalance EXCEPT ![u] = rewardBalance[u] + payment]
    BY <1>3 DEF safeRewardTransfer
  <2> HIDE DEF payment
  <2> QED BY <1>1, <2>1, <2>2 DEF RewardsInv
<1> QED BY <1>2, <1>3

\* Writing a checkpoint keeps the list in order.
LEMMA CheckpointWritten ==
  ASSUME now \in Nat, NEW list \in Seq(Checkpoint), Ordered(list),
         \A i \in DOMAIN list : list[i].from <= now, NEW n \in Nat
  PROVE  LET w == writeCheckpoint(list, n)
         IN  /\ w \in Seq(Checkpoint) /\ Ordered(w) /\ \A i \in DOMAIN w : w[i].from <= now
             /\ getCurrentVotes(w) = n
             /\ \A i \in DOMAIN list : list[i].from < now => i \in DOMAIN w /\ w[i] = list[i]
             /\ \A i \in DOMAIN w :
                  w[i].from < now => i \in DOMAIN list /\ w[i] = list[i]
<1> DEFINE w == writeCheckpoint(list, n)
           m == Len(list)
<1>1. /\ m \in Nat /\ DOMAIN list = 1 .. m
      /\ \A i \in 1 .. m : list[i] \in Checkpoint /\ list[i].from \in Nat
  <2>1. m \in Nat /\ DOMAIN list = 1 .. m /\ \A i \in 1 .. m : list[i] \in Checkpoint
    OBVIOUS
  <2> QED BY <2>1 DEF Checkpoint
<1>2. CASE list # <<>> /\ list[m].from = now
  <2>1. w = [list EXCEPT ![m].votes = n] /\ m \in 1 .. m
    BY <1>1, <1>2 DEF writeCheckpoint
  <2>2. [list[m] EXCEPT !.votes = n] \in Checkpoint /\ list[m] \in Checkpoint
    BY <1>1, <2>1 DEF Checkpoint
  <2>3. /\ w \in Seq(Checkpoint) /\ Len(w) = m /\ w[m] = [list[m] EXCEPT !.votes = n]
        /\ \A i \in 1 .. m : i # m => w[i] = list[i]
    BY <2>1, <2>2
  <2>4. w[m].votes = n /\ w[m].from = now
    BY <1>2, <2>2, <2>3 DEF Checkpoint
  <2>5. DOMAIN w = 1 .. m /\ \A i \in 1 .. m : w[i].from = list[i].from
    <3>1. DOMAIN w = 1 .. m
      BY <2>3
    <3> HIDE DEF w
    <3>2. \A i \in 1 .. m : w[i].from = list[i].from
      <4> TAKE i \in 1 .. m
      <4>1. CASE i = m
        BY <4>1, <2>4, <1>2
      <4>2. CASE i # m
        BY <4>2, <2>3
      <4> QED BY <4>1, <4>2
    <3> QED BY <3>1, <3>2
  <2> HIDE DEF w
  <2>6. Ordered(w)
    BY <2>5, <1>1 DEF Ordered
  <2>7. getCurrentVotes(w) = n
    BY <2>1, <2>3, <2>4 DEF getCurrentVotes
  <2>8. \A i \in 1 .. m : list[i].from < now => w[i] = list[i]
    BY <2>3, <1>2
  <2>9. \A i \in 1 .. m : w[i].from < now => w[i] = list[i]
    BY <2>5, <2>8
  <2> QED BY <2>3, <2>5, <2>6, <2>7, <2>8, <2>9, <1>1 DEF w
<1>3. CASE ~(list # <<>> /\ list[m].from = now)
  <2> DEFINE c == [from |-> now, votes |-> n]
  <2>1. w = Append(list, c)
    BY <1>3 DEF writeCheckpoint
  <2>2. c \in Checkpoint /\ c.from = now /\ c.votes = n
    BY DEF Checkpoint
  <2> HIDE DEF c
  <2>3. /\ w \in Seq(Checkpoint) /\ Len(w) = m + 1 /\ w[m + 1] = c
        /\ \A i \in 1 .. m : w[i] = list[i]
    BY <2>1, <2>2
  <2> HIDE DEF w
  <2>4. \A i \in 1 .. m : list[i].from < now
    <3> TAKE i \in 1 .. m
    <3>1. m \in 1 .. m /\ list[m].from <= now /\ list[m].from # now
      BY <1>1, <1>3
    <3>2. list[i].from <= list[m].from
      <4>1. CASE i = m
        BY <4>1, <1>1
      <4>2. CASE i < m
        BY <4>2, <3>1, <1>1 DEF Ordered
      <4>3. i <= m /\ i \in Nat /\ m \in Nat
        BY <1>1
      <4> QED BY <4>1, <4>2, <4>3
    <3>3. list[i].from \in Nat /\ list[m].from \in Nat
      BY <3>1, <1>1
    <3> QED BY <3>1, <3>2, <3>3
  <2>5. DOMAIN w = 1 .. m + 1
    BY <2>3
  <2>6. Ordered(w)
    <3> SUFFICES ASSUME NEW i \in 1 .. m + 1, NEW j \in 1 .. m + 1, i < j
                 PROVE  w[i].from < w[j].from
      BY <2>5 DEF Ordered
    <3>1. i \in 1 .. m /\ w[i] = list[i]
      BY <2>3, <1>1
    <3>2. CASE j = m + 1
      BY <3>1, <3>2, <2>2, <2>3, <2>4
    <3>3. CASE j # m + 1
      <4>0. j \in 1 .. m
        <5>1. m \in Nat
          BY <1>1
        <5> HIDE DEF m
        <5> QED BY <5>1, <3>3
      <4>1. j \in 1 .. m /\ w[j] = list[j]
        BY <4>0, <2>3
      <4> QED BY <4>1, <3>1, <1>1 DEF Ordered
    <3> QED BY <3>2, <3>3
  <2>7. \A i \in 1 .. m + 1 : w[i].from <= now
    <3> TAKE i \in 1 .. m + 1
    <3>1. CASE i = m + 1
      BY <3>1, <2>2, <2>3
    <3>2. CASE i # m + 1
      <4>1. i \in 1 .. m
        BY <3>2, <1>1
      <4>2. w[i] = list[i] /\ list[i].from <= now
        BY <4>1, <2>3, <1>1
      <4> QED BY <4>2
    <3> QED BY <3>1, <3>2
  <2>8. getCurrentVotes(w) = n
    BY <2>2, <2>3, <1>1 DEF getCurrentVotes
  <2>9. \A i \in 1 .. m + 1 : w[i].from < now => i \in 1 .. m
    BY <2>2, <2>3, <1>1
  <2> QED BY <2>3, <2>5, <2>6, <2>7, <2>8, <2>9, <1>1 DEF w
<1> QED BY <1>2, <1>3

\* The current votes are a number.
LEMMA VotesNatural ==
  ASSUME NEW list \in Seq(Checkpoint)
  PROVE  getCurrentVotes(list) \in Nat
<1>1. ASSUME list # <<>> PROVE list[Len(list)].votes \in Nat
  <2>1. list[Len(list)] \in Checkpoint
    BY <1>1
  <2> QED BY <2>1 DEF Checkpoint
<1> QED BY <1>1 DEF getCurrentVotes

\* Moving votes keeps the checkpoints in order, whoever delegates to whom then.
LEMMA VotesMoved ==
  ASSUME VotesInv, now \in Nat, UNCHANGED now,
         NEW src \in Users \cup {ZeroAddress}, NEW dst \in Users \cup {ZeroAddress},
         NEW n \in Nat, canMoveDelegates(src, dst, n),
         checkpoints' = moveDelegates(src, dst, n),
         delegates' \in [Users -> Users \cup {ZeroAddress}]
  PROVE  VotesInv'
<1>1. \A d \in Users : checkpoints[d] \in Seq(Checkpoint) /\ Ordered(checkpoints[d])
                       /\ \A i \in DOMAIN checkpoints[d] : checkpoints[d][i].from <= now
  BY DEF VotesInv
<1>2. \A d \in Users : checkpoints'[d] = moveDelegates(src, dst, n)[d]
  OBVIOUS
<1>3. ASSUME NEW d \in Users
      PROVE  checkpoints'[d] \in Seq(Checkpoint) /\ Ordered(checkpoints'[d])
             /\ \A i \in DOMAIN checkpoints'[d] : checkpoints'[d][i].from <= now
  <2> DEFINE votes == getCurrentVotes(checkpoints[d])
  <2>1. CASE src = dst \/ n = 0 \/ d \notin {src, dst}
    <3>1. checkpoints'[d] = checkpoints[d]
      BY <2>1 DEF moveDelegates
    <3> QED BY <3>1, <1>1
  <2>2. CASE ~(src = dst \/ n = 0 \/ d \notin {src, dst})
    <3>0. votes \in Nat
      BY <1>1, VotesNatural
    <3>1. CASE d = src
      <4>1. checkpoints'[d] = writeCheckpoint(checkpoints[d], votes - n)
        BY <2>2, <3>1 DEF moveDelegates
      <4>2. n <= votes
        BY <2>2, <3>1, XVSVaultAssumption DEF canMoveDelegates
      <4>3. votes - n \in Nat
        BY <3>0, <4>2
      <4> HIDE DEF votes
      <4> QED BY <1>1, <4>1, <4>3, CheckpointWritten
    <3>2. CASE d # src
      <4>1. checkpoints'[d] = writeCheckpoint(checkpoints[d], votes + n)
        BY <2>2, <3>2 DEF moveDelegates
      <4>3. votes + n \in Nat
        BY <3>0
      <4> HIDE DEF votes
      <4> QED BY <1>1, <4>1, <4>3, CheckpointWritten
    <3> QED BY <3>1, <3>2
  <2> QED BY <2>1, <2>2
<1>4. checkpoints' \in [Users -> Seq(Checkpoint)]
  <2>1. checkpoints' = [d \in Users |-> checkpoints'[d]]
    BY DEF moveDelegates
  <2> QED BY <2>1, <1>3
<1> QED BY <1>3, <1>4 DEF VotesInv

\* What a deposit or a request does to the votes.
LEMMA StakeMovesVotes ==
  ASSUME Inv, UNCHANGED <<now, delegates>>, NEW pid,
         NEW src \in Users \cup {ZeroAddress}, NEW dst \in Users \cup {ZeroAddress},
         NEW n \in Nat, movesVotes(pid, src, dst, n)
  PROVE  VotesInv'
<1>1. VotesInv /\ now \in Nat /\ delegates' \in [Users -> Users \cup {ZeroAddress}]
  BY DEF Inv, VotesInv
<1>2. CASE UNCHANGED checkpoints
  BY <1>1, <1>2 DEF VotesInv
<1>3. CASE canMoveDelegates(src, dst, n) /\ checkpoints' = moveDelegates(src, dst, n)
  BY <1>1, <1>3, VotesMoved
<1> QED BY <1>2, <1>3 DEF movesVotes

\* The stake that votes is a number: no smaller than what is asked for.
LEMMA VotingStake ==
  ASSUME Inv, NEW u \in Users
  PROVE  getStakeAmount(u) \in Nat
<1> DEFINE staking == {pid \in DOMAIN poolInfos : poolInfos[pid].token = xvs}
<1>1. CASE staking = {}
  BY <1>1 DEF getStakeAmount
<1>2. CASE staking # {}
  <2>1. DOMAIN poolInfos \subseteq Pids /\ staking \subseteq Nat
    BY PoolFacts DEF Inv, Pids
  <2>2. PICK m \in staking : \A i \in staking : m <= i
    <3> HIDE DEF staking
    <3> QED BY <1>2, <2>1, LeastNatural
  <2>3. Min(staking) \in staking
    BY <2>2 DEF Min
  <2>4. Min(staking) \in Pids
    BY <2>1, <2>3
  <2> DEFINE user == userInfos[Min(staking)][u]
             requests == withdrawalRequests[Min(staking)][u]
  <2>5. UserOK(user, requests)
    BY <2>4 DEF Inv, StakesInv
  <2>6. getStakeAmount(u) = user.amount - user.pendingWithdrawals
    BY <1>2 DEF getStakeAmount
  <2>7. user \in UserInfo /\ user.pendingWithdrawals <= user.amount
    BY <2>5, Zenon DEF UserOK
  <2> HIDE DEF user
  <2> QED BY <2>6, <2>7 DEF UserInfo
<1> QED BY <1>1, <1>2

-----------------------------------------------------------------------------
(* The steps of the stakers. *)

\* One entry of a table is replaced.
LEMMA OneReplaced ==
  ASSUME NEW A, NEW B, NEW C, NEW f \in [A -> [B -> C]], NEW a \in A, NEW b \in B, NEW c \in C
  PROVE  LET g == [f EXCEPT ![a][b] = c]
         IN  /\ g \in [A -> [B -> C]] /\ g[a][b] = c
             /\ \A x \in A, y \in B : x # a \/ y # b => g[x][y] = f[x][y]
  OBVIOUS

\* A user whose debt is set to its rewards: nothing of it is left to be paid.
LEMMA Settled ==
  ASSUME NEW user, NEW requests, UserOK(user, requests),
         requestedAmount(requests, FALSE) = 0, NEW pool \in PoolInfo
  PROVE  LET settled == [user EXCEPT !.rewardDebt = cumulativeReward(user, pool)]
         IN  /\ cumulativeReward(user, pool) \in Nat
             /\ UserOK(settled, requests) /\ Covered(settled, requests, pool)
             /\ settled.amount = user.amount
<1> DEFINE settled == [user EXCEPT !.rewardDebt = cumulativeReward(user, pool)]
           new == requestedAmount(requests, TRUE)
           n == user.amount - new
           acc == pool.accRewardPerShare
<1>1. /\ user \in UserInfo /\ user.pendingWithdrawals = new /\ n \in Nat
  <2>1. /\ user \in UserInfo
        /\ user.pendingWithdrawals = new + requestedAmount(requests, FALSE)
    BY Zenon DEF UserOK
  <2>2. new \in Nat /\ n \in Nat
    BY UserFacts
  <2>3. user.pendingWithdrawals = new + 0
    BY <2>1, Zenon
  <2> HIDE DEF new, n
  <2>4. new + 0 = new
    BY <2>2
  <2> QED BY <2>1, <2>2, <2>3, <2>4, Zenon
<1>2. acc \in Nat /\ accScale \in Nat \ {0}
  BY XVSVaultAssumption DEF PoolInfo
<1>3. cumulativeReward(user, pool) = (n * acc) \div accScale
  BY <1>1 DEF cumulativeReward
<1>4. (n * acc) \div accScale \in Nat
  <2> HIDE DEF n, acc
  <2>1. n * acc \in Nat
    BY <1>1, <1>2
  <2> DEFINE m == n * acc
  <2>2. m \in Nat
    BY <2>1
  <2> HIDE DEF m
  <2>3. m \div accScale \in Nat
    BY <2>2, <1>2, DivBounds
  <2> QED BY <2>3 DEF m
<1>5. /\ settled \in UserInfo /\ settled.amount = user.amount
      /\ settled.pendingWithdrawals = user.pendingWithdrawals
      /\ settled.rewardDebt = (n * acc) \div accScale
  <2> HIDE DEF n, acc
  <2> QED BY <1>1, <1>3, <1>4 DEF UserInfo
<1>6. UserOK(settled, requests)
  <2> HIDE DEF settled
  <2> QED BY <1>5, Zenon DEF UserOK
<1>7. Covered(settled, requests, pool)
  <2> DEFINE c == (n * acc) \div accScale
  <2>2. settled.rewardDebt = c /\ c \in Nat
    BY <1>4, <1>5
  <2>3. settled.rewardDebt <= c
    <3> HIDE DEF settled, c
    <3> QED BY <2>2
  <2> HIDE DEF settled
  <2> QED BY <1>5, <2>3, Zenon DEF Covered
<1> QED BY <1>3, <1>4, <1>5, <1>6, <1>7

\* What the guards of the stakers' steps give.
LEMMA StakerFacts ==
  ASSUME Inv, NEW u \in Users, NEW pid \in Pids, validPool(pid)
  PROVE  /\ pid \in DOMAIN poolInfos
         /\ UserOK(userInfos[pid][u], withdrawalRequests[pid][u])
         /\ userInfos[pid][u] \in UserInfo
         /\ withdrawalRequests[pid][u] \in Seq(WithdrawalRequest)
         /\ updatePool(poolInfos, pid)[pid] \in PoolInfo
         /\ updatePool(poolInfos, pid)[pid].token = poolInfos[pid].token
         /\ poolInfos[pid] \in PoolInfo /\ poolInfos[pid].token \in Tokens
         /\ vaultBalance \in [Tokens -> Nat]
         /\ delegates[u] \in Users \cup {ZeroAddress}
<1>1. pid \in DOMAIN poolInfos
  BY DEF validPool
<1>2. poolInfos[pid] \in PoolInfo /\ poolInfos[pid].token \in Tokens
  BY <1>1, PoolFacts DEF Inv, PoolInfo
<1>3. /\ UserOK(userInfos[pid][u], withdrawalRequests[pid][u])
      /\ userInfos[pid][u] \in UserInfo /\ withdrawalRequests[pid][u] \in Seq(WithdrawalRequest)
      /\ vaultBalance \in [Tokens -> Nat]
  BY DEF Inv, StakesInv
<1>4. delegates[u] \in Users \cup {ZeroAddress}
  BY DEF Inv, VotesInv
<1> QED BY <1>1, <1>2, <1>3, <1>4, UpdatedPool

\* A deposit keeps the invariant.
LEMMA DepositKeeps ==
  ASSUME Inv, NEW u \in Users, NEW pid \in Pids, NEW n \in Nat, Deposit(u, pid, n)
  PROVE  Inv'
<1> DEFINE user == userInfos[pid][u]
           requests == withdrawalRequests[pid][u]
           infos == updatePool(poolInfos, pid)
           pending == computeReward(user, infos[pid])
           grown == [user EXCEPT !.amount = @ + n]
<1>1. /\ validPool(pid) /\ requestedAmount(requests, FALSE) = 0
      /\ poolInfos' = infos
      /\ userInfos' = [userInfos EXCEPT ![pid][u] = deposited(user, infos[pid], n)]
      /\ vaultBalance' = [vaultBalance EXCEPT ![infos[pid].token] = @ + n]
      /\ UNCHANGED <<totalAllocPoints, rewardRate, withdrawalRequests,
                     totalPendingWithdrawals, delegates, vaultPaused, now>>
      /\ movesVotes(pid, ZeroAddress, delegates[u], n)
      /\ (user.amount > 0 /\ pending > 0 /\ transferReward(u, pending)) \/ UNCHANGED rewardVars
  BY DEF Deposit, legacyPending
<1>2. /\ pid \in DOMAIN poolInfos /\ UserOK(user, requests) /\ user \in UserInfo
      /\ infos[pid] \in PoolInfo /\ infos[pid].token = poolInfos[pid].token
      /\ poolInfos[pid].token \in Tokens
      /\ vaultBalance \in [Tokens -> Nat] /\ delegates[u] \in Users \cup {ZeroAddress}
  BY <1>1, StakerFacts
<1>3. PoolsKept
  BY <1>1, <1>2, UpdateKeepsPools
<1>4. UserOK(grown, requests) /\ grown.amount = user.amount + n
  <2>1. /\ user.amount \in Nat /\ user.pendingWithdrawals \in Nat
        /\ user.pendingWithdrawals <= user.amount /\ user.rewardDebt \in Nat
    BY <1>2, Zenon DEF UserOK, UserInfo
  <2>2. /\ grown \in UserInfo /\ grown.amount = user.amount + n
        /\ grown.pendingWithdrawals = user.pendingWithdrawals
        /\ grown.pendingWithdrawals <= grown.amount
    <3> HIDE DEF user
    <3> QED BY <1>2, <2>1 DEF UserInfo
  <2> HIDE DEF grown
  <2> QED BY <1>2, <2>2, Zenon DEF UserOK
<1> DEFINE settled == [grown EXCEPT !.rewardDebt = cumulativeReward(grown, infos[pid])]
<1>5. /\ deposited(user, infos[pid], n) = settled
      /\ UserOK(settled, requests) /\ Covered(settled, requests, infos[pid])
      /\ settled.amount = user.amount + n
  <2>1. deposited(user, infos[pid], n) = settled
    BY DEF deposited
  <2> HIDE DEF grown
  <2> QED BY <2>1, <1>1, <1>2, <1>4, Settled
<1> HIDE DEF settled, grown
<1>6. /\ userInfos' \in [Pids -> [Users -> UserInfo]] /\ userInfos'[pid][u] = settled
      /\ withdrawalRequests' = withdrawalRequests
      /\ \A p \in Pids, v \in Users : p # pid \/ v # u => userInfos'[p][v] = userInfos[p][v]
  <2>1. settled \in UserInfo /\ userInfos \in [Pids -> [Users -> UserInfo]]
    BY <1>5 DEF UserOK, Inv, StakesInv
  <2> QED BY <2>1, <1>1, <1>5, OneReplaced
<1>7. OnlyStake(pid, u)
  BY <1>6 DEF OnlyStake, Inv, StakesInv
<1>8. StakesInv' /\ BackedInv'
  <2>1. /\ vaultBalance' =
             [vaultBalance EXCEPT ![poolInfos[pid].token] = vaultBalance[poolInfos[pid].token] + n]
        /\ totalPendingWithdrawals' =
             [totalPendingWithdrawals EXCEPT ![pid] = totalPendingWithdrawals[pid] + 0]
    <3>1. totalPendingWithdrawals \in [Pids -> Nat]
      BY DEF Inv, StakesInv
    <3>2. totalPendingWithdrawals[pid] + 0 = totalPendingWithdrawals[pid]
      BY <3>1
    <3> QED BY <3>1, <3>2, <1>1, <1>2
  <2>2. requestedAmount(withdrawalRequests'[pid][u], TRUE) =
          requestedAmount(withdrawalRequests[pid][u], TRUE) + 0
    <3> DEFINE r == requestedAmount(requests, TRUE)
    <3>1. r \in Nat
      BY <1>2, UserFacts
    <3>2. requestedAmount(withdrawalRequests'[pid][u], TRUE) = r
      BY <1>6
    <3>3. r = r + 0
      <4> HIDE DEF r
      <4> QED BY <3>1
    <3> QED BY <3>2, <3>3, Zenon
  <2>3. UserOK(userInfos'[pid][u], withdrawalRequests'[pid][u])
        /\ Covered(userInfos'[pid][u], withdrawalRequests'[pid][u], poolInfos'[pid])
    BY <1>1, <1>5, <1>6
  <2>4. userInfos'[pid][u].amount = userInfos[pid][u].amount + n
    BY <1>5, <1>6
  <2>5. n \in Int /\ 0 \in Int
    OBVIOUS
  <2> QED BY <1>2, <1>3, <1>7, <2>1, <2>2, <2>3, <2>4, <2>5, StakeStep
<1>9. RewardsInv'
  <2>1. RewardsInv
    BY DEF Inv
  <2>2. CASE UNCHANGED rewardVars
    BY <2>1, <2>2 DEF rewardVars, RewardsInv
  <2>3. CASE user.amount > 0 /\ pending > 0 /\ transferReward(u, pending)
    <3>1. cumulativeReward(user, infos[pid]) \in Nat /\ user.rewardDebt \in Nat
      BY <1>1, <1>2, Settled, UserFacts
    <3>2. pending \in Nat
      BY <3>1, <2>3 DEF computeReward
    <3> HIDE DEF pending
    <3> QED BY <2>1, <2>3, <3>2, RewardPaid
  <2> QED BY <1>1, <2>2, <2>3
<1>10. VotesInv'
  BY <1>1, <1>2, StakeMovesVotes
<1> QED BY <1>1, <1>3, <1>8, <1>9, <1>10 DEF Inv, PoolsKept

\* Nothing is added to an entry.
LEMMA SameEntry ==
  ASSUME NEW A, NEW f \in [A -> Nat], NEW a \in A
  PROVE  f = [f EXCEPT ![a] = f[a] + 0]
<1>1. f[a] + 0 = f[a]
  OBVIOUS
<1> QED BY <1>1

\* A claim keeps the invariant.
LEMMA ClaimKeeps ==
  ASSUME Inv, NEW u \in Users, NEW pid \in Pids, Claim(u, pid)
  PROVE  Inv'
<1> DEFINE user == userInfos[pid][u]
           requests == withdrawalRequests[pid][u]
           infos == updatePool(poolInfos, pid)
           pending == computeReward(user, infos[pid])
           settled == [user EXCEPT !.rewardDebt = cumulativeReward(user, infos[pid])]
           paid == /\ user.amount > 0 /\ pending > 0 /\ transferReward(u, pending)
                   /\ userInfos' = [userInfos EXCEPT ![pid][u] = settled]
<1>1. /\ validPool(pid) /\ requestedAmount(requests, FALSE) = 0
      /\ poolInfos' = infos
      /\ UNCHANGED <<totalAllocPoints, rewardRate, withdrawalRequests, vaultBalance,
                     totalPendingWithdrawals, voteVars, vaultPaused, now>>
      /\ paid \/ UNCHANGED <<rewardVars, userInfos>>
  BY DEF Claim, legacyPending
<1>2. /\ pid \in DOMAIN poolInfos /\ UserOK(user, requests) /\ infos[pid] \in PoolInfo
      /\ poolInfos[pid].token \in Tokens
  BY <1>1, StakerFacts
<1>3. PoolsKept
  BY <1>1, <1>2, UpdateKeepsPools
<1>4. VotesInv'
  BY <1>1 DEF voteVars, VotesInv, Inv
<1>5. /\ vaultBalance' = vaultBalance /\ vaultBalance \in [Tokens -> Nat]
      /\ totalPendingWithdrawals' = totalPendingWithdrawals
      /\ totalPendingWithdrawals \in [Pids -> Nat]
  BY <1>1 DEF Inv, StakesInv
<1>6. CASE UNCHANGED <<rewardVars, userInfos>>
  <2>1. RewardsInv'
    BY <1>6 DEF rewardVars, RewardsInv, Inv
  <2>2. \A t \in Tokens : vaultBalance[t] <= vaultBalance'[t]
    <3>1. \A t \in Tokens : vaultBalance[t] \in Nat /\ vaultBalance'[t] = vaultBalance[t]
      BY <1>5
    <3> QED BY <3>1
  <2>3. StakesInv' /\ BackedInv'
    BY <1>1, <1>3, <1>5, <1>6, <2>2, StakesUntouched
  <2> QED BY <1>1, <1>3, <1>4, <2>1, <2>3 DEF Inv, PoolsKept
<1>7. CASE paid
  <2>1. /\ UserOK(settled, requests) /\ Covered(settled, requests, infos[pid])
        /\ settled.amount = user.amount
        /\ cumulativeReward(user, infos[pid]) \in Nat
        /\ user.rewardDebt \in Nat /\ user.amount \in Nat
        /\ requestedAmount(requests, TRUE) \in Nat
    BY <1>1, <1>2, Settled, UserFacts
  <2>2. RewardsInv'
    <3>1. pending \in Nat
      BY <2>1, <1>7 DEF computeReward
    <3> HIDE DEF pending
    <3> QED BY <3>1, <1>7, RewardPaid DEF Inv
  <2> HIDE DEF settled
  <2>3. /\ userInfos' \in [Pids -> [Users -> UserInfo]] /\ userInfos'[pid][u] = settled
        /\ withdrawalRequests' = withdrawalRequests
        /\ \A p \in Pids, v \in Users : p # pid \/ v # u => userInfos'[p][v] = userInfos[p][v]
    <3>1. settled \in UserInfo /\ userInfos \in [Pids -> [Users -> UserInfo]]
      BY <2>1 DEF UserOK, Inv, StakesInv
    <3> QED BY <3>1, <1>1, <1>7, OneReplaced
  <2>4. OnlyStake(pid, u)
    BY <2>3 DEF OnlyStake, Inv, StakesInv
  <2>5. StakesInv' /\ BackedInv'
    <3>1. /\ vaultBalance' = [vaultBalance EXCEPT ![poolInfos[pid].token] =
                                vaultBalance[poolInfos[pid].token] + 0]
          /\ totalPendingWithdrawals' =
               [totalPendingWithdrawals EXCEPT ![pid] = totalPendingWithdrawals[pid] + 0]
      BY <1>2, <1>5, SameEntry
    <3>2. /\ requestedAmount(withdrawalRequests'[pid][u], TRUE) =
               requestedAmount(withdrawalRequests[pid][u], TRUE) + 0
          /\ userInfos'[pid][u].amount = userInfos[pid][u].amount + 0
      <4> DEFINE r == requestedAmount(requests, TRUE)
                 a == user.amount
      <4>1. /\ requestedAmount(withdrawalRequests'[pid][u], TRUE) = r /\ r \in Nat
            /\ userInfos'[pid][u].amount = a /\ a \in Nat
        BY <2>1, <2>3
      <4>2. r = r + 0 /\ a = a + 0
        <5> HIDE DEF r, a
        <5> QED BY <4>1
      <4> QED BY <4>1, <4>2, Zenon
    <3>3. /\ UserOK(userInfos'[pid][u], withdrawalRequests'[pid][u])
          /\ Covered(userInfos'[pid][u], withdrawalRequests'[pid][u], poolInfos'[pid])
      BY <1>1, <2>1, <2>3
    <3>4. 0 \in Int
      OBVIOUS
    <3> QED BY <1>2, <1>3, <2>4, <3>1, <3>2, <3>3, <3>4, StakeStep
  <2> QED BY <1>1, <1>3, <1>4, <2>2, <2>5 DEF Inv, PoolsKept
<1> HIDE DEF paid
<1> QED BY <1>1, <1>6, <1>7

\* A request keeps the invariant.
LEMMA RequestKeeps ==
  ASSUME Inv, NEW u \in Users, NEW pid \in Pids, NEW n \in Nat, RequestWithdrawal(u, pid, n)
  PROVE  Inv'
<1> DEFINE user == userInfos[pid][u]
           requests == withdrawalRequests[pid][u]
           infos == updatePool(poolInfos, pid)
           pending == computeReward(user, infos[pid])
           request == [amount |-> n, lockedUntil |-> now + infos[pid].lockPeriod,
                       afterUpgrade |-> TRUE]
           longer == withRequest(requests, request)
           more == [user EXCEPT !.pendingWithdrawals = @ + n]
           settled == [more EXCEPT !.rewardDebt = cumulativeReward(more, infos[pid])]
<1>1. /\ validPool(pid) /\ requestedAmount(requests, FALSE) = 0
      /\ user.amount >= user.pendingWithdrawals + n /\ pending >= 0
      /\ transferReward(u, pending)
      /\ poolInfos' = infos
      /\ withdrawalRequests' = [withdrawalRequests EXCEPT ![pid][u] = longer]
      /\ userInfos' = [userInfos EXCEPT ![pid][u] = settled]
      /\ totalPendingWithdrawals' =
           [totalPendingWithdrawals EXCEPT ![pid] = totalPendingWithdrawals[pid] + n]
      /\ movesVotes(pid, delegates[u], ZeroAddress, n)
      /\ UNCHANGED <<totalAllocPoints, rewardRate, vaultBalance, delegates,
                     vaultPaused, now>>
  BY DEF RequestWithdrawal, legacyPending, requested
<1>2. /\ pid \in DOMAIN poolInfos /\ UserOK(user, requests) /\ infos[pid] \in PoolInfo
      /\ poolInfos[pid].token \in Tokens /\ requests \in Seq(WithdrawalRequest)
      /\ vaultBalance \in [Tokens -> Nat] /\ delegates[u] \in Users \cup {ZeroAddress}
  BY <1>1, StakerFacts
<1>3. PoolsKept
  BY <1>1, <1>2, UpdateKeepsPools
<1>4. VotesInv'
  BY <1>1, <1>2, StakeMovesVotes
<1>5. RewardsInv'
  <2>1. cumulativeReward(user, infos[pid]) \in Nat /\ user.rewardDebt \in Nat
    BY <1>1, <1>2, Settled, UserFacts
  <2>2. pending \in Nat
    BY <2>1, <1>1 DEF computeReward
  <2> HIDE DEF pending
  <2> QED BY <2>2, <1>1, RewardPaid DEF Inv
<1>6. /\ longer \in Seq(WithdrawalRequest) /\ unlocksInOrder(longer)
      /\ requestedAmount(longer, TRUE) = requestedAmount(requests, TRUE) + n
      /\ requestedAmount(longer, FALSE) = 0
  <2>1. request \in WithdrawalRequest /\ request.afterUpgrade = TRUE /\ request.amount = n
    <3>1. now \in Nat /\ infos[pid].lockPeriod \in Nat
      BY <1>2 DEF Inv, PoolInfo
    <3>2. now + infos[pid].lockPeriod \in Nat
      BY <3>1
    <3> QED BY <3>2 DEF WithdrawalRequest
  <2> HIDE DEF request
  <2>2. /\ longer \in Seq(WithdrawalRequest)
        /\ unlocksInOrder(requests) => unlocksInOrder(longer)
        /\ \A k : requestedAmount(longer, k) =
                    requestedAmount(requests, k) + IF request.afterUpgrade = k
                                                     THEN request.amount ELSE 0
    BY <1>2, <2>1, AddedRequest
  <2>3. /\ requestedAmount(longer, TRUE) = requestedAmount(requests, TRUE) + n
        /\ requestedAmount(longer, FALSE) = requestedAmount(requests, FALSE) + 0
    <3> HIDE DEF longer
    <3> QED BY <2>1, <2>2, Zenon
  <2>4. requestedAmount(longer, FALSE) = 0
    <3>1. requestedAmount(longer, FALSE) = 0 + 0
      BY <1>1, <2>3, Zenon
    <3>2. 0 + 0 = 0
      OBVIOUS
    <3> QED BY <3>1, <3>2, Zenon
  <2> QED BY <1>2, <2>2, <2>3, <2>4 DEF UserOK
<1> HIDE DEF longer
<1>7. UserOK(more, longer) /\ more.amount = user.amount
  <2> DEFINE new == requestedAmount(requests, TRUE)
  <2>1. /\ user \in UserInfo /\ user.pendingWithdrawals = new + 0
        /\ new \in Nat
    BY <1>1, <1>2, UserFacts, Zenon DEF UserOK
  <2> DEFINE newer == requestedAmount(longer, TRUE)
  <2>2. newer = new + n
    BY <1>6
  <2> HIDE DEF new, newer
  <2>3. /\ more \in UserInfo /\ more.amount = user.amount
        /\ more.pendingWithdrawals = newer + 0 /\ more.pendingWithdrawals <= more.amount
    <3> HIDE DEF user
    <3>1. /\ user.pendingWithdrawals \in Nat /\ user.amount \in Nat
          /\ user.pendingWithdrawals + n \in Nat
      BY <2>1 DEF UserInfo
    <3>2. /\ more \in UserInfo /\ more.amount = user.amount
          /\ more.pendingWithdrawals = user.pendingWithdrawals + n
      BY <2>1, <3>1 DEF UserInfo
    <3> HIDE DEF more
    <3> QED BY <1>1, <2>1, <2>2, <3>1, <3>2 DEF user
  <2> HIDE DEF more
  <2> QED BY <1>6, <2>3, Zenon DEF UserOK, newer
<1>8. /\ UserOK(settled, longer) /\ Covered(settled, longer, infos[pid])
      /\ settled.amount = user.amount /\ user.amount \in Nat
  <2> HIDE DEF more
  <2> QED BY <1>2, <1>6, <1>7, Settled, UserFacts
<1> HIDE DEF settled
<1>9. /\ userInfos' \in [Pids -> [Users -> UserInfo]] /\ userInfos'[pid][u] = settled
      /\ withdrawalRequests' \in [Pids -> [Users -> Seq(WithdrawalRequest)]]
      /\ withdrawalRequests'[pid][u] = longer
      /\ OnlyStake(pid, u)
  <2>1. settled \in UserInfo
    BY <1>8 DEF UserOK
  <2>2. /\ userInfos \in [Pids -> [Users -> UserInfo]]
        /\ withdrawalRequests \in [Pids -> [Users -> Seq(WithdrawalRequest)]]
    BY DEF Inv, StakesInv
  <2>3. /\ userInfos' \in [Pids -> [Users -> UserInfo]] /\ userInfos'[pid][u] = settled
        /\ \A p \in Pids, v \in Users : p # pid \/ v # u => userInfos'[p][v] = userInfos[p][v]
    BY <2>1, <2>2, <1>1, OneReplaced
  <2>4. /\ withdrawalRequests' \in [Pids -> [Users -> Seq(WithdrawalRequest)]]
        /\ withdrawalRequests'[pid][u] = longer
        /\ \A p \in Pids, v \in Users :
             p # pid \/ v # u => withdrawalRequests'[p][v] = withdrawalRequests[p][v]
    BY <2>2, <1>1, <1>6, OneReplaced
  <2> QED BY <2>3, <2>4 DEF OnlyStake
<1>10. StakesInv' /\ BackedInv'
  <2>1. vaultBalance' = [vaultBalance EXCEPT ![poolInfos[pid].token] =
                           vaultBalance[poolInfos[pid].token] + 0]
    BY <1>1, <1>2, SameEntry
  <2>2. userInfos'[pid][u].amount = userInfos[pid][u].amount + 0
    <3> DEFINE a == user.amount
    <3>1. userInfos'[pid][u].amount = a /\ a \in Nat
      BY <1>8, <1>9
    <3>2. a = a + 0
      <4> HIDE DEF a
      <4> QED BY <3>1
    <3> QED BY <3>1, <3>2, Zenon
  <2>3. requestedAmount(withdrawalRequests'[pid][u], TRUE) =
          requestedAmount(withdrawalRequests[pid][u], TRUE) + n
    BY <1>6, <1>9, Zenon
  <2>4. /\ UserOK(userInfos'[pid][u], withdrawalRequests'[pid][u])
        /\ Covered(userInfos'[pid][u], withdrawalRequests'[pid][u], poolInfos'[pid])
    BY <1>1, <1>8, <1>9
  <2>5. 0 \in Int /\ n \in Int
    OBVIOUS
  <2> QED BY <1>1, <1>2, <1>3, <1>9, <2>1, <2>2, <2>3, <2>4, <2>5, StakeStep
<1> QED BY <1>1, <1>3, <1>4, <1>5, <1>10 DEF Inv, PoolsKept

\* What leaves the vault: requests of one kind only, those made since the
\* upgrade or those made before it.
LEMMA Withdrawn ==
  ASSUME NEW user, NEW requests, UserOK(user, requests),
         NEW amount, amount > 0,
         \/ amount = requestedAmount(unlocked(requests), TRUE)
         \/ amount = requestedAmount(unlocked(requests), FALSE)
  PROVE  /\ amount \in Nat /\ amount <= user.amount
         /\ UserOK(withdrawn(user, amount), stillLocked(requests))
         /\ withdrawn(user, amount).amount = user.amount - amount
         /\ withdrawn(user, amount).rewardDebt = user.rewardDebt
         /\ amount = requestedAmount(unlocked(requests), TRUE) =>
              requestedAmount(stillLocked(requests), TRUE) =
                requestedAmount(requests, TRUE) - amount
         /\ amount = requestedAmount(unlocked(requests), FALSE) =>
              /\ requestedAmount(requests, TRUE) = 0
              /\ requestedAmount(stillLocked(requests), TRUE) = 0
<1> DEFINE stay == stillLocked(requests)
           go == unlocked(requests)
           nT == requestedAmount(requests, TRUE)
           nF == requestedAmount(requests, FALSE)
           sT == requestedAmount(stay, TRUE)
           sF == requestedAmount(stay, FALSE)
           gT == requestedAmount(go, TRUE)
           gF == requestedAmount(go, FALSE)
<1>1. /\ user \in UserInfo /\ requests \in Seq(WithdrawalRequest)
      /\ unlocksInOrder(requests)
      /\ user.pendingWithdrawals = nT + nF /\ user.pendingWithdrawals <= user.amount
      /\ nT = 0 \/ nF = 0
  BY Zenon DEF UserOK
<1>2. /\ stay \in Seq(WithdrawalRequest) /\ go \in Seq(WithdrawalRequest)
      /\ nT = sT + gT /\ nF = sF + gF /\ unlocksInOrder(stay)
  <2>1. /\ stay \in Seq(WithdrawalRequest) /\ go \in Seq(WithdrawalRequest)
        /\ \A j : requestedAmount(requests, j) = requestedAmount(stay, j)
                                                   + requestedAmount(go, j)
        /\ unlocksInOrder(requests) => unlocksInOrder(stay)
    BY <1>1, PoppedRequests
  <2> HIDE DEF stay, go
  <2> QED BY <1>1, <2>1, Zenon
<1>3. nT \in Nat /\ nF \in Nat /\ sT \in Nat /\ sF \in Nat /\ gT \in Nat /\ gF \in Nat
  BY <1>1, <1>2, CountedType
<1>4. amount = gT \/ amount = gF
  OBVIOUS
<1>5. /\ user.amount \in Nat /\ user.rewardDebt \in Nat /\ user.pendingWithdrawals \in Nat
  BY <1>1 DEF UserInfo
<1> DEFINE less == withdrawn(user, amount)
<1>6. /\ amount \in Nat /\ amount <= user.pendingWithdrawals /\ amount <= user.amount
      /\ user.pendingWithdrawals - amount = sT + sF
      /\ sT = 0 \/ sF = 0
      /\ amount = gT => sT = nT - amount
      /\ amount = gF => nT = 0 /\ sT = 0
  <2> HIDE DEF nT, nF, sT, sF, gT, gF
  <2>1. CASE amount = gT
    <3>1. gT > 0 /\ nF = 0 /\ amount # gF
      BY <2>1, <1>1, <1>2, <1>3
    <3> QED BY <2>1, <3>1, <1>1, <1>2, <1>3, <1>5
  <2>2. CASE amount = gF
    <3>1. gF > 0 /\ nT = 0 /\ amount # gT
      BY <2>2, <1>1, <1>2, <1>3
    <3> QED BY <2>2, <3>1, <1>1, <1>2, <1>3, <1>5
  <2> QED BY <1>4, <2>1, <2>2
<1> HIDE DEF nT, nF, sT, sF, gT, gF
<1>7. /\ less \in UserInfo /\ less.amount = user.amount - amount
      /\ less.pendingWithdrawals = user.pendingWithdrawals - amount
      /\ less.rewardDebt = user.rewardDebt
  <2>1. user.amount - amount \in Nat /\ user.pendingWithdrawals - amount \in Nat
    BY <1>5, <1>6
  <2> QED BY <2>1, <1>1 DEF UserInfo, withdrawn
<1>8. less.pendingWithdrawals = sT + sF /\ less.pendingWithdrawals <= less.amount
  <2> HIDE DEF less
  <2> QED BY <1>1, <1>5, <1>6, <1>7
<1>9. UserOK(less, stay)
  <2> HIDE DEF less, stay
  <2> QED BY <1>2, <1>6, <1>7, <1>8, Zenon DEF UserOK, sT, sF
<1> QED BY <1>6, <1>7, <1>9, Zenon DEF nT, sT, gT, gF

\* A withdrawal of new requests keeps the invariant.
LEMMA ExecuteKeeps ==
  ASSUME Inv, NEW u \in Users, NEW pid \in Pids, ExecuteWithdrawal(u, pid)
  PROVE  Inv'
<1> DEFINE user == userInfos[pid][u]
           requests == withdrawalRequests[pid][u]
           amount == requestedAmount(unlocked(requests), TRUE)
           stay == stillLocked(requests)
           less == withdrawn(user, amount)
           pool == poolInfos[pid]
           nT == requestedAmount(requests, TRUE)
           sT == requestedAmount(stay, TRUE)
<1>1. /\ validPool(pid) /\ amount > 0
      /\ withdrawalRequests' = [withdrawalRequests EXCEPT ![pid][u] = stay]
      /\ userInfos' = [userInfos EXCEPT ![pid][u] = less]
      /\ totalPendingWithdrawals' =
           [totalPendingWithdrawals EXCEPT ![pid] = totalPendingWithdrawals[pid] - amount]
      /\ vaultBalance' = [vaultBalance EXCEPT ![pool.token] = vaultBalance[pool.token] - amount]
      /\ UNCHANGED <<poolVars, voteVars, rewardVars, vaultPaused, now>>
  BY DEF ExecuteWithdrawal, lessPending
<1>2. /\ pid \in DOMAIN poolInfos /\ UserOK(user, requests) /\ pool \in PoolInfo
      /\ pool.token \in Tokens /\ requests \in Seq(WithdrawalRequest)
      /\ vaultBalance \in [Tokens -> Nat]
  BY <1>1, StakerFacts
<1>3. PoolsKept
  <2>1. poolInfos' = poolInfos /\ totalAllocPoints' = totalAllocPoints
    BY <1>1 DEF poolVars
  <2>2. \A i \in DOMAIN poolInfos :
          poolInfos[i].accRewardPerShare <= poolInfos[i].accRewardPerShare
    <3>1. \A i \in DOMAIN poolInfos : poolInfos[i].accRewardPerShare \in Nat
      BY PoolFacts DEF Inv, PoolInfo
    <3> QED BY <3>1
  <2> QED BY <2>1, <2>2, KeptPools DEF Inv, PoolsInv
<1>4. VotesInv' /\ RewardsInv'
  BY <1>1 DEF voteVars, rewardVars, VotesInv, RewardsInv, Inv
<1>5. /\ amount \in Nat /\ UserOK(less, stay) /\ less.amount = user.amount - amount
      /\ less.rewardDebt = user.rewardDebt /\ sT = nT - amount
      /\ user.amount \in Nat /\ nT \in Nat
  <2>1. nT \in Nat /\ user.amount \in Nat
    BY <1>2, UserFacts
  <2>2. amount = requestedAmount(unlocked(requests), TRUE) /\ amount > 0
    BY <1>1
  <2> HIDE DEF amount, user, requests
  <2>3. /\ amount \in Nat /\ UserOK(less, stay) /\ less.amount = user.amount - amount
        /\ less.rewardDebt = user.rewardDebt
        /\ sT = nT - amount
    BY <1>2, <2>2, Withdrawn, Zenon DEF less, stay, nT, sT
  <2> QED BY <2>1, <2>3 DEF user
<1>6. Covered(less, stay, poolInfos'[pid])
  <2>1. Covered(user, requests, pool) /\ poolInfos' = poolInfos
    BY <1>1, <1>2 DEF Inv, BackedInv, poolVars
  <2>2. less.amount - sT = user.amount - nT
    <3> HIDE DEF less, sT, nT, amount
    <3> QED BY <1>5
  <2> HIDE DEF less, stay
  <2> QED BY <1>5, <2>1, <2>2, Zenon DEF Covered
<1> HIDE DEF less, stay, nT, sT, amount
<1>7. /\ userInfos' \in [Pids -> [Users -> UserInfo]] /\ userInfos'[pid][u] = less
      /\ withdrawalRequests' \in [Pids -> [Users -> Seq(WithdrawalRequest)]]
      /\ withdrawalRequests'[pid][u] = stay
      /\ OnlyStake(pid, u)
  <2>1. less \in UserInfo /\ stay \in Seq(WithdrawalRequest)
    BY <1>5 DEF UserOK
  <2>2. /\ userInfos \in [Pids -> [Users -> UserInfo]]
        /\ withdrawalRequests \in [Pids -> [Users -> Seq(WithdrawalRequest)]]
    BY DEF Inv, StakesInv
  <2>3. /\ userInfos' \in [Pids -> [Users -> UserInfo]] /\ userInfos'[pid][u] = less
        /\ \A p \in Pids, v \in Users : p # pid \/ v # u => userInfos'[p][v] = userInfos[p][v]
    BY <2>1, <2>2, <1>1, OneReplaced
  <2>4. /\ withdrawalRequests' \in [Pids -> [Users -> Seq(WithdrawalRequest)]]
        /\ withdrawalRequests'[pid][u] = stay
        /\ \A p \in Pids, v \in Users :
             p # pid \/ v # u => withdrawalRequests'[p][v] = withdrawalRequests[p][v]
    BY <2>1, <2>2, <1>1, OneReplaced
  <2> QED BY <2>3, <2>4 DEF OnlyStake
<1>8. StakesInv' /\ BackedInv'
  <2> DEFINE d == 0 - amount
  <2>1. d \in Int
    BY <1>5
  <2>2. userInfos'[pid][u].amount = userInfos[pid][u].amount + d
    BY <1>5, <1>7
  <2>3. /\ \A m \in Nat : m - amount = m + d
    BY <1>5
  <2>4. totalPendingWithdrawals[pid] \in Nat /\ vaultBalance[pool.token] \in Nat
    BY <1>2 DEF Inv, StakesInv
  <2>5. sT = nT + d
    BY <1>5
  <2>6. requestedAmount(withdrawalRequests'[pid][u], TRUE) =
          requestedAmount(withdrawalRequests[pid][u], TRUE) + d
    BY <1>7, <2>5, Zenon DEF sT, nT
  <2> HIDE DEF d
  <2>7. /\ totalPendingWithdrawals' =
             [totalPendingWithdrawals EXCEPT ![pid] = totalPendingWithdrawals[pid] + d]
        /\ vaultBalance' = [vaultBalance EXCEPT ![pool.token] = vaultBalance[pool.token] + d]
    BY <1>1, <2>3, <2>4
  <2>8. /\ UserOK(userInfos'[pid][u], withdrawalRequests'[pid][u])
        /\ Covered(userInfos'[pid][u], withdrawalRequests'[pid][u], poolInfos'[pid])
    BY <1>5, <1>6, <1>7
  <2> QED BY <1>2, <1>3, <1>7, <2>1, <2>2, <2>6, <2>7, <2>8, StakeStep
<1> QED BY <1>1, <1>3, <1>4, <1>8 DEF Inv, PoolsKept, poolVars

\* A withdrawal of requests from before the upgrade keeps the invariant.
LEMMA ExecuteLegacyKeeps ==
  ASSUME Inv, NEW u \in Users, NEW pid \in Pids, ExecuteLegacyWithdrawal(u, pid)
  PROVE  Inv'
<1> DEFINE user == userInfos[pid][u]
           requests == withdrawalRequests[pid][u]
           amount == requestedAmount(unlocked(requests), FALSE)
           stay == stillLocked(requests)
           less == withdrawn(user, amount)
           infos == updatePool(poolInfos, pid)
           acc == infos[pid].accRewardPerShare
           debt == ((user.amount - amount) * acc) \div accScale
           pending == (user.amount * acc) \div accScale - user.rewardDebt
           settled == [less EXCEPT !.rewardDebt = debt]
           token == poolInfos[pid].token
           nT == requestedAmount(requests, TRUE)
           sT == requestedAmount(stay, TRUE)
<1>1. /\ validPool(pid) /\ amount > 0 /\ pending >= 0
      /\ safeRewardTransfer(u, pending)
      /\ poolInfos' = infos
      /\ withdrawalRequests' = [withdrawalRequests EXCEPT ![pid][u] = stay]
      /\ userInfos' = [userInfos EXCEPT ![pid][u] = settled]
      /\ vaultBalance' = [vaultBalance EXCEPT ![token] = vaultBalance[token] - amount]
      /\ UNCHANGED <<totalAllocPoints, rewardRate, totalPendingWithdrawals, voteVars,
                     vaultPaused, now>>
  BY DEF ExecuteLegacyWithdrawal
<1>2. /\ pid \in DOMAIN poolInfos /\ UserOK(user, requests) /\ infos[pid] \in PoolInfo
      /\ token \in Tokens /\ requests \in Seq(WithdrawalRequest)
      /\ vaultBalance \in [Tokens -> Nat]
  BY <1>1, StakerFacts
<1>3. PoolsKept
  BY <1>1, <1>2, UpdateKeepsPools
<1>4. VotesInv'
  BY <1>1 DEF voteVars, VotesInv, Inv
<1>5. /\ amount \in Nat /\ UserOK(less, stay) /\ less.amount = user.amount - amount
      /\ nT = 0 /\ sT = 0 /\ amount <= user.amount
      /\ user.amount \in Nat /\ user.rewardDebt \in Nat
  <2>1. user.rewardDebt \in Nat /\ user.amount \in Nat
    BY <1>2, UserFacts
  <2>2. amount = requestedAmount(unlocked(requests), FALSE) /\ amount > 0
    BY <1>1
  <2> HIDE DEF amount, user, requests
  <2>3. /\ amount \in Nat /\ UserOK(less, stay) /\ less.amount = user.amount - amount
        /\ amount <= user.amount /\ nT = 0 /\ sT = 0
    BY <1>2, <2>2, Withdrawn, Zenon DEF less, stay, nT, sT
  <2> QED BY <2>1, <2>3 DEF user
<1> HIDE DEF amount, stay, less, nT, sT
<1>6. debt \in Nat /\ pending \in Nat
  <2>1. acc \in Nat /\ accScale \in Nat \ {0}
    BY <1>2, XVSVaultAssumption DEF PoolInfo
  <2> HIDE DEF acc
  <2>2. \A n \in Nat : n \div accScale \in Nat
    BY <2>1, DivBounds
  <2>3. (user.amount - amount) * acc \in Nat /\ user.amount * acc \in Nat
    <3>1. user.amount - amount \in Nat
      BY <1>5
    <3> DEFINE n == user.amount - amount
               m == user.amount
    <3>2. n \in Nat /\ m \in Nat
      BY <1>5, <3>1
    <3> HIDE DEF n, m
    <3>3. n * acc \in Nat /\ m * acc \in Nat
      BY <2>1, <3>2
    <3> QED BY <3>3 DEF n, m
  <2>4. debt \in Nat /\ (user.amount * acc) \div accScale \in Nat
    BY <2>2, <2>3
  <2> DEFINE c == (user.amount * acc) \div accScale
  <2>5. c \in Nat /\ pending = c - user.rewardDebt /\ pending >= 0
    BY <2>4, <1>1 DEF acc
  <2> HIDE DEF c, pending
  <2>6. pending \in Nat
    BY <2>5, <1>5
  <2> QED BY <2>4, <2>6
<1>7. RewardsInv'
  <2> HIDE DEF pending
  <2> QED BY <1>1, <1>6, RewardPaid DEF Inv
<1>8. /\ settled \in UserInfo /\ settled.amount = less.amount
      /\ settled.pendingWithdrawals = less.pendingWithdrawals /\ settled.rewardDebt = debt
  <2>1. less \in UserInfo
    BY <1>5 DEF UserOK
  <2> HIDE DEF debt
  <2> QED BY <2>1, <1>6 DEF UserInfo
<1> HIDE DEF settled
<1>9. UserOK(settled, stay)
  BY <1>5, <1>8, Zenon DEF UserOK
<1>10. Covered(settled, stay, infos[pid])
  <2>1. settled.amount - sT = user.amount - amount
    BY <1>5, <1>8
  <2>2. settled.rewardDebt <= debt
    <3> HIDE DEF debt
    <3> QED BY <1>6, <1>8
  <2> QED BY <2>1, <2>2, Zenon DEF Covered, sT
<1>11. /\ userInfos' \in [Pids -> [Users -> UserInfo]] /\ userInfos'[pid][u] = settled
       /\ withdrawalRequests' \in [Pids -> [Users -> Seq(WithdrawalRequest)]]
       /\ withdrawalRequests'[pid][u] = stay
       /\ OnlyStake(pid, u)
  <2>1. settled \in UserInfo /\ stay \in Seq(WithdrawalRequest)
    BY <1>5, <1>8 DEF UserOK
  <2>2. /\ userInfos \in [Pids -> [Users -> UserInfo]]
        /\ withdrawalRequests \in [Pids -> [Users -> Seq(WithdrawalRequest)]]
    BY DEF Inv, StakesInv
  <2>3. /\ userInfos' \in [Pids -> [Users -> UserInfo]] /\ userInfos'[pid][u] = settled
        /\ \A p \in Pids, v \in Users : p # pid \/ v # u => userInfos'[p][v] = userInfos[p][v]
    BY <2>1, <2>2, <1>1, OneReplaced
  <2>4. /\ withdrawalRequests' \in [Pids -> [Users -> Seq(WithdrawalRequest)]]
        /\ withdrawalRequests'[pid][u] = stay
        /\ \A p \in Pids, v \in Users :
             p # pid \/ v # u => withdrawalRequests'[p][v] = withdrawalRequests[p][v]
    BY <2>1, <2>2, <1>1, OneReplaced
  <2> QED BY <2>3, <2>4 DEF OnlyStake
<1>12. StakesInv' /\ BackedInv'
  <2> DEFINE d == 0 - amount
  <2>1. d \in Int /\ 0 \in Int
    BY <1>5
  <2>2. userInfos'[pid][u].amount = userInfos[pid][u].amount + d
    BY <1>5, <1>8, <1>11
  <2>3. /\ \A m \in Nat : m - amount = m + d
    BY <1>5
  <2>4. vaultBalance[token] \in Nat
    BY <1>2
  <2>5. sT = nT + 0
    BY <1>5
  <2>6. requestedAmount(withdrawalRequests'[pid][u], TRUE) =
          requestedAmount(withdrawalRequests[pid][u], TRUE) + 0
    BY <1>11, <2>5, Zenon DEF sT, nT
  <2> HIDE DEF d
  <2>7. /\ totalPendingWithdrawals' =
             [totalPendingWithdrawals EXCEPT ![pid] = totalPendingWithdrawals[pid] + 0]
        /\ vaultBalance' = [vaultBalance EXCEPT ![token] = vaultBalance[token] + d]
    <3>1. totalPendingWithdrawals \in [Pids -> Nat]
      BY DEF Inv, StakesInv
    <3> QED BY <3>1, <1>1, <2>3, <2>4, SameEntry
  <2>8. /\ UserOK(userInfos'[pid][u], withdrawalRequests'[pid][u])
        /\ Covered(userInfos'[pid][u], withdrawalRequests'[pid][u], poolInfos'[pid])
    BY <1>1, <1>9, <1>10, <1>11
  <2> QED BY <1>2, <1>3, <1>11, <2>1, <2>2, <2>6, <2>7, <2>8, StakeStep
<1> QED BY <1>1, <1>3, <1>4, <1>7, <1>12 DEF Inv, PoolsKept

-----------------------------------------------------------------------------
(* The steps of the voters, of governance, and of the environment. *)

\* Nothing happens to the pools.
LEMMA SamePools ==
  ASSUME Inv, UNCHANGED <<poolInfos, totalAllocPoints>>
  PROVE  PoolsKept
<1>1. \A i \in DOMAIN poolInfos : poolInfos[i].accRewardPerShare <= poolInfos[i].accRewardPerShare
  <2>1. \A i \in DOMAIN poolInfos : poolInfos[i].accRewardPerShare \in Nat
    BY PoolFacts DEF Inv, PoolInfo
  <2> QED BY <2>1
<1> QED BY <1>1, KeptPools DEF Inv, PoolsInv

\* Steps that only touch the pools keep the invariant.
LEMMA PoolStepKeeps ==
  ASSUME Inv, PoolsKept, rewardRate' \in Nat, vaultPaused' \in BOOLEAN,
         UNCHANGED <<stakeVars, voteVars, rewardVars, now>>
  PROVE  Inv'
<1>1. \A t \in Tokens : vaultBalance[t] <= vaultBalance[t]
  <2>1. \A t \in Tokens : vaultBalance[t] \in Nat
    BY DEF Inv, StakesInv
  <2> QED BY <2>1
<1>2. StakesInv' /\ BackedInv'
  BY <1>1, StakesUntouched DEF stakeVars, Inv, StakesInv
<1>3. VotesInv' /\ RewardsInv'
  BY DEF voteVars, rewardVars, VotesInv, RewardsInv, Inv
<1> QED BY <1>2, <1>3 DEF Inv, PoolsKept

\* A delegation moves the stake of the voter and nothing else.
LEMMA DelegateKeeps ==
  ASSUME Inv, NEW u \in Users, NEW d \in Users \cup {ZeroAddress}, Delegate(u, d)
  PROVE  Inv'
<1>1. /\ canMoveDelegates(delegates[u], d, getStakeAmount(u))
      /\ delegates' = [delegates EXCEPT ![u] = d]
      /\ checkpoints' = moveDelegates(delegates[u], d, getStakeAmount(u))
      /\ UNCHANGED <<poolVars, stakeVars, rewardVars, vaultPaused, now>>
  BY DEF Delegate
<1>2. /\ VotesInv /\ now \in Nat /\ delegates \in [Users -> Users \cup {ZeroAddress}]
      /\ getStakeAmount(u) \in Nat
  BY VotingStake DEF Inv, VotesInv
<1>3. /\ delegates[u] \in Users \cup {ZeroAddress}
      /\ delegates' \in [Users -> Users \cup {ZeroAddress}]
  BY <1>1, <1>2
<1>4. VotesInv'
  BY <1>1, <1>2, <1>3, VotesMoved
<1>5. PoolsKept
  BY <1>1, SamePools DEF poolVars
<1>6. \A t \in Tokens : vaultBalance[t] <= vaultBalance[t]
  <2>1. \A t \in Tokens : vaultBalance[t] \in Nat
    BY DEF Inv, StakesInv
  <2> QED BY <2>1
<1>7. StakesInv' /\ BackedInv'
  BY <1>1, <1>5, <1>6, StakesUntouched DEF stakeVars, Inv, StakesInv
<1> QED BY <1>1, <1>4, <1>5, <1>7 DEF Inv, PoolsKept, rewardVars, RewardsInv, poolVars

\* The upkeep of the pools by anybody and by governance keeps the invariant.
LEMMA PoolActionsKeep ==
  ASSUME Inv, NEW pid \in Pids,
         \/ UpdatePool(pid)
         \/ \E points \in AllocPoints : SetAllocPoint(pid, points)
         \/ \E period \in LockPeriods : SetWithdrawalLockingPeriod(pid, period)
         \/ \E rate \in RewardRates : SetRewardRate(rate)
         \/ PauseOrResume
  PROVE  Inv'
<1>0. /\ rewardRate \in Nat /\ vaultPaused \in BOOLEAN /\ poolInfos \in Seq(PoolInfo)
      /\ totalAllocPoints \in Nat
      /\ poolInfos # <<>> => totalAllocPoints > 0
  BY DEF Inv, PoolsInv
<1>1. CASE UpdatePool(pid)
  <2>1. pid \in DOMAIN poolInfos
    BY <1>1 DEF UpdatePool, validPool
  <2>2. PoolsKept
    BY <1>1, <2>1, UpdateKeepsPools DEF UpdatePool
  <2> QED BY <1>0, <1>1, <2>2, PoolStepKeeps DEF UpdatePool
<1>2. ASSUME NEW points \in AllocPoints, SetAllocPoint(pid, points) PROVE Inv'
  <2>1. /\ pid \in DOMAIN poolInfos /\ newTotalAllocPoints(pid, points) > 0
        /\ poolInfos' = [massUpdatePools EXCEPT ![pid].allocPoint = points]
        /\ totalAllocPoints' = newTotalAllocPoints(pid, points)
        /\ UNCHANGED <<rewardRate, stakeVars, voteVars, rewardVars, vaultPaused, now>>
    BY <1>2 DEF SetAllocPoint, validPool
  <2>2. points \in Nat /\ poolInfos[pid].allocPoint \in Nat
    BY <2>1, XVSVaultAssumption, PoolFacts DEF Inv, PoolInfo
  <2>3. totalAllocPoints' \in Nat /\ totalAllocPoints' > 0
    <3> DEFINE new == newTotalAllocPoints(pid, points)
    <3>1. new \in Int
      BY <2>2, <1>0 DEF newTotalAllocPoints
    <3>2. new > 0 /\ totalAllocPoints' = new
      BY <2>1
    <3> HIDE DEF new
    <3> QED BY <3>1, <3>2
  <2> DEFINE mass == massUpdatePools
             infos == [mass EXCEPT ![pid].allocPoint = points]
  <2>4. /\ mass \in Seq(PoolInfo) /\ DOMAIN mass = DOMAIN poolInfos
        /\ \A i \in DOMAIN poolInfos :
             /\ mass[i].token = poolInfos[i].token
             /\ poolInfos[i].accRewardPerShare <= mass[i].accRewardPerShare
    BY MassUpdated
  <2> HIDE DEF mass
  <2>5. /\ infos \in Seq(PoolInfo) /\ DOMAIN infos = DOMAIN poolInfos
        /\ infos[pid] = [mass[pid] EXCEPT !.allocPoint = points]
        /\ \A i \in DOMAIN poolInfos : i # pid => infos[i] = mass[i]
    <3>1. mass[pid] \in PoolInfo /\ [mass[pid] EXCEPT !.allocPoint = points] \in PoolInfo
      <4>1. mass[pid] \in PoolInfo
        BY <2>1, <2>4
      <4> QED BY <4>1, <2>2 DEF PoolInfo
    <3> QED BY <2>1, <2>4, <3>1
  <2>6. \A i \in DOMAIN poolInfos :
          /\ infos[i].token = poolInfos[i].token
          /\ poolInfos[i].accRewardPerShare <= infos[i].accRewardPerShare
    <3> TAKE i \in DOMAIN poolInfos
    <3>1. CASE i = pid
      <4>1. mass[pid] \in PoolInfo
        BY <2>1, <2>4
      <4>2. infos[pid].token = mass[pid].token
            /\ infos[pid].accRewardPerShare = mass[pid].accRewardPerShare
        BY <2>5, <4>1 DEF PoolInfo
      <4> HIDE DEF infos
      <4> QED BY <2>4, <3>1, <4>2
    <3>2. CASE i # pid
      <4> HIDE DEF infos
      <4> QED BY <2>4, <2>5, <3>2
    <3> QED BY <3>1, <3>2
  <2>7. poolInfos' = infos
    BY <2>1 DEF mass
  <2> HIDE DEF infos
  <2>8. PoolsKept
    BY <2>3, <2>5, <2>6, <2>7, KeptPools
  <2> QED BY <1>0, <2>1, <2>8, PoolStepKeeps
<1>3. ASSUME NEW period \in LockPeriods, SetWithdrawalLockingPeriod(pid, period) PROVE Inv'
  <2> DEFINE infos == [poolInfos EXCEPT ![pid].lockPeriod = period]
  <2>1. /\ pid \in DOMAIN poolInfos /\ poolInfos' = infos
        /\ UNCHANGED <<totalAllocPoints, rewardRate, stakeVars, voteVars, rewardVars,
                       vaultPaused, now>>
    BY <1>3 DEF SetWithdrawalLockingPeriod, validPool
  <2>2. period \in Nat /\ \A i \in DOMAIN poolInfos : poolInfos[i] \in PoolInfo
    BY XVSVaultAssumption, PoolFacts DEF Inv
  <2>3. /\ infos \in Seq(PoolInfo) /\ DOMAIN infos = DOMAIN poolInfos
        /\ infos[pid] = [poolInfos[pid] EXCEPT !.lockPeriod = period]
        /\ \A i \in DOMAIN poolInfos : i # pid => infos[i] = poolInfos[i]
    <3>1. [poolInfos[pid] EXCEPT !.lockPeriod = period] \in PoolInfo
      BY <2>1, <2>2 DEF PoolInfo
    <3> QED BY <1>0, <2>1, <3>1
  <2>4. \A i \in DOMAIN poolInfos :
          /\ infos[i].token = poolInfos[i].token
          /\ poolInfos[i].accRewardPerShare <= infos[i].accRewardPerShare
    <3> TAKE i \in DOMAIN poolInfos
    <3>0. poolInfos[i] \in PoolInfo /\ poolInfos[i].accRewardPerShare \in Nat
      BY <2>2 DEF PoolInfo
    <3>1. infos[i].token = poolInfos[i].token
          /\ infos[i].accRewardPerShare = poolInfos[i].accRewardPerShare
      <4>1. CASE i = pid
        BY <2>3, <3>0, <4>1 DEF PoolInfo
      <4>2. CASE i # pid
        BY <2>3, <4>2
      <4> QED BY <4>1, <4>2
    <3> HIDE DEF infos
    <3> QED BY <3>0, <3>1
  <2> HIDE DEF infos
  <2>5. PoolsKept
    <3>1. totalAllocPoints' \in Nat /\ (poolInfos # <<>> => totalAllocPoints' > 0)
      BY <1>0, <2>1
    <3> QED BY <2>1, <2>3, <2>4, <3>1, KeptPools
  <2> QED BY <1>0, <2>1, <2>5, PoolStepKeeps
<1>4. ASSUME NEW rate \in RewardRates, SetRewardRate(rate) PROVE Inv'
  <2>1. PoolsKept
    <3>1. totalAllocPoints' \in Nat /\ (poolInfos # <<>> => totalAllocPoints' > 0)
      BY <1>0, <1>4 DEF SetRewardRate
    <3> DEFINE infos == massUpdatePools
    <3>2. poolInfos' = infos
      BY <1>4 DEF SetRewardRate
    <3>3. /\ infos \in Seq(PoolInfo) /\ DOMAIN infos = DOMAIN poolInfos
          /\ \A i \in DOMAIN poolInfos :
               /\ infos[i].token = poolInfos[i].token
               /\ poolInfos[i].accRewardPerShare <= infos[i].accRewardPerShare
      BY MassUpdated
    <3> HIDE DEF infos
    <3> QED BY <3>1, <3>2, <3>3, KeptPools
  <2>2. rate \in Nat
    BY XVSVaultAssumption
  <2> QED BY <1>0, <1>4, <2>1, <2>2, PoolStepKeeps DEF SetRewardRate
<1>5. CASE PauseOrResume
  <2>1. PoolsKept
    BY <1>5, SamePools DEF PauseOrResume, poolVars
  <2>2. vaultPaused' \in BOOLEAN
    BY <1>0, <1>5 DEF PauseOrResume
  <2> QED BY <1>0, <1>5, <2>1, <2>2, PoolStepKeeps DEF PauseOrResume, poolVars
<1> QED BY <1>1, <1>2, <1>3, <1>4, <1>5

\* A new pool starts without stakes, whatever the others hold.
LEMMA AddKeeps ==
  ASSUME Inv, NEW token \in Tokens, NEW points \in AllocPoints, NEW rate \in RewardRates,
         NEW period \in LockPeriods, Add(token, points, rate, period)
  PROVE  Inv'
<1> DEFINE mass == massUpdatePools
           pool == [token |-> token, allocPoint |-> points, lastReward |-> now,
                    accRewardPerShare |-> 0, lockPeriod |-> period]
           n == Len(poolInfos)
<1>1. /\ n < MaxPools /\ points > 0
      /\ \A pid \in DOMAIN poolInfos : poolInfos[pid].token # token
      /\ poolInfos' = Append(mass, pool)
      /\ totalAllocPoints' = totalAllocPoints + points
      /\ rewardRate' = rate
      /\ UNCHANGED <<stakeVars, voteVars, rewardVars, vaultPaused, now>>
  BY DEF Add
<1>2. /\ points \in Nat /\ rate \in Nat /\ period \in Nat /\ now \in Nat
      /\ n \in Nat /\ MaxPools \in Nat /\ DOMAIN poolInfos = 1 .. n
      /\ totalAllocPoints \in Nat
  BY XVSVaultAssumption, PoolFacts DEF Inv, PoolsInv
<1>3. /\ pool \in PoolInfo /\ pool.token = token /\ pool.accRewardPerShare = 0
  BY <1>2 DEF PoolInfo
<1>4. /\ mass \in Seq(PoolInfo) /\ DOMAIN mass = DOMAIN poolInfos
      /\ \A i \in DOMAIN poolInfos :
           /\ mass[i].token = poolInfos[i].token
           /\ poolInfos[i].accRewardPerShare <= mass[i].accRewardPerShare
  BY MassUpdated
<1> HIDE DEF mass, pool
<1>5. Len(mass) = n
  BY <1>2, <1>4
<1>6. /\ poolInfos' \in Seq(PoolInfo) /\ Len(poolInfos') = n + 1
      /\ DOMAIN poolInfos' = 1 .. n + 1
      /\ poolInfos'[n + 1] = pool
      /\ \A i \in 1 .. n : poolInfos'[i] = mass[i]
  BY <1>1, <1>2, <1>3, <1>4, <1>5
<1>7. n + 1 \in Pids /\ n + 1 \notin DOMAIN poolInfos /\ n + 1 <= MaxPools
  BY <1>1, <1>2 DEF Pids
<1>8. PoolsInv'
  <2>1. ASSUME NEW i \in 1 .. n + 1, NEW j \in 1 .. n + 1,
               poolInfos'[i].token = poolInfos'[j].token
        PROVE  i = j
    <3>1. \A k \in 1 .. n : poolInfos'[k].token = poolInfos[k].token
      BY <1>2, <1>4, <1>6
    <3>2. poolInfos'[n + 1].token = token
      BY <1>3, <1>6
    <3>3. \A k, l \in 1 .. n : poolInfos[k].token = poolInfos[l].token => k = l
      BY <1>2 DEF Inv, PoolsInv
    <3>4. \A k \in 1 .. n + 1 : k \in 1 .. n \/ k = n + 1
      BY <1>2
    <3> HIDE DEF n
    <3>5. CASE i \in 1 .. n /\ j \in 1 .. n
      BY <2>1, <3>1, <3>3, <3>5
    <3>6. CASE i \in 1 .. n /\ j = n + 1
      BY <2>1, <3>1, <3>2, <3>6, <1>1, <1>2
    <3>7. CASE i = n + 1 /\ j \in 1 .. n
      BY <2>1, <3>1, <3>2, <3>7, <1>1, <1>2
    <3>8. CASE i = n + 1 /\ j = n + 1
      BY <3>8
    <3> QED BY <3>4, <3>5, <3>6, <3>7, <3>8
  <2>2. totalAllocPoints' \in Nat /\ totalAllocPoints' > 0
    BY <1>1, <1>2
  <2> QED BY <1>6, <1>7, <2>1, <2>2 DEF PoolsInv
<1>9. /\ userInfos' = userInfos /\ withdrawalRequests' = withdrawalRequests
      /\ totalPendingWithdrawals' = totalPendingWithdrawals /\ vaultBalance' = vaultBalance
  BY <1>1 DEF stakeVars
<1>10. StakesInv'
  BY <1>9 DEF Inv, StakesInv, asked
<1>11. \A u \in Users : /\ userInfos[n + 1][u].amount = 0
                        /\ userInfos[n + 1][u].rewardDebt = 0
                        /\ withdrawalRequests[n + 1][u] = <<>>
  BY <1>7 DEF Inv, BackedInv
<1>12. ASSUME NEW p \in DOMAIN poolInfos'
       PROVE  Total(stakes(p)') <= vaultBalance'[poolInfos'[p].token]
  <2>0. stakes(p)' = stakes(p)
    BY <1>9 DEF stakes
  <2>1. CASE p \in 1 .. n
    <3>1. Total(stakes(p)) <= vaultBalance[poolInfos[p].token]
      BY <2>1, <1>2 DEF Inv, BackedInv
    <3>2. poolInfos'[p].token = poolInfos[p].token
      BY <2>1, <1>2, <1>4, <1>6
    <3> QED BY <2>0, <3>1, <3>2, <1>9
  <2>2. CASE p = n + 1
    <3>1. stakes(p) \in [Users -> Nat] /\ \A u \in Users : stakes(p)[u] = 0
      BY <1>11, <2>2 DEF stakes
    <3>2. Total(stakes(p)) = 0
      BY <3>1, TotalZero
    <3>3. vaultBalance'[poolInfos'[p].token] \in Nat
      BY <1>3, <1>6, <1>9, <2>2 DEF Inv, StakesInv
    <3> QED BY <2>0, <3>2, <3>3
  <2> QED BY <2>1, <2>2, <1>2, <1>6
<1>13. ASSUME NEW p \in DOMAIN poolInfos', NEW u \in Users
       PROVE  Covered(userInfos'[p][u], withdrawalRequests'[p][u], poolInfos'[p])
  <2>1. CASE p \in 1 .. n
    <3>1. /\ p \in DOMAIN poolInfos /\ p \in Pids /\ poolInfos[p] \in PoolInfo
          /\ poolInfos'[p] \in PoolInfo
          /\ poolInfos[p].accRewardPerShare <= poolInfos'[p].accRewardPerShare
      BY <2>1, <1>2, <1>4, <1>6, PoolFacts DEF Inv
    <3>2. /\ UserOK(userInfos[p][u], withdrawalRequests[p][u])
          /\ Covered(userInfos[p][u], withdrawalRequests[p][u], poolInfos[p])
      BY <3>1 DEF Inv, StakesInv, BackedInv
    <3>3. Covered(userInfos[p][u], withdrawalRequests[p][u], poolInfos'[p])
      BY <3>1, <3>2, CoveredGrows
    <3> QED BY <3>3, <1>9
  <2>2. CASE p = n + 1
    <3> DEFINE user == userInfos[p][u]
               k == requestedAmount(withdrawalRequests[p][u], TRUE)
    <3>1. /\ user.rewardDebt = 0 /\ user.amount - k \in Nat
      <4>1. UserOK(user, withdrawalRequests[p][u])
        BY <1>7, <2>2 DEF Inv, StakesInv
      <4> QED BY <1>11, <2>2, <4>1, UserFacts
    <3>2. poolInfos'[p].accRewardPerShare = 0
      BY <1>3, <1>6, <2>2
    <3> DEFINE m == user.amount - k
    <3>3. m \in Nat
      BY <3>1
    <3> HIDE DEF m
    <3>4. m * 0 = 0
      BY <3>3
    <3>5. 0 \div accScale \in Nat
      BY XVSVaultAssumption, DivBounds
    <3>6. user.rewardDebt <= (m * poolInfos'[p].accRewardPerShare) \div accScale
      BY <3>1, <3>2, <3>4, <3>5
    <3> HIDE DEF user, k
    <3>7. Covered(userInfos[p][u], withdrawalRequests[p][u], poolInfos'[p])
      BY <3>6, Zenon DEF Covered, user, k, m
    <3> QED BY <3>7, <1>9
  <2> QED BY <2>1, <2>2, <1>2, <1>6
<1>14. \A p \in Pids \ DOMAIN poolInfos', u \in Users :
         /\ userInfos'[p][u].amount = 0 /\ userInfos'[p][u].rewardDebt = 0
         /\ withdrawalRequests'[p][u] = <<>>
  <2>1. \A p \in Pids \ DOMAIN poolInfos' : p \in Pids \ DOMAIN poolInfos
    BY <1>2, <1>6
  <2> QED BY <2>1, <1>9 DEF Inv, BackedInv
<1>15. VotesInv' /\ RewardsInv'
  BY <1>1 DEF voteVars, rewardVars, VotesInv, RewardsInv, Inv
<1> QED BY <1>1, <1>2, <1>8, <1>10, <1>12, <1>13, <1>14, <1>15 DEF Inv, BackedInv

\* Time, payments to the store and tokens sent to the vault keep the invariant.
LEMMA EnvironmentKeeps ==
  ASSUME Inv, EnvironmentStep
  PROVE  Inv'
<1>0. /\ rewardRate \in Nat /\ vaultPaused \in BOOLEAN /\ now \in Nat /\ storeBalance \in Nat
      /\ vaultBalance \in [Tokens -> Nat]
  BY DEF Inv, StakesInv, RewardsInv
<1>a. \A t \in Tokens : vaultBalance[t] <= vaultBalance[t]
  <2>1. \A t \in Tokens : vaultBalance[t] \in Nat
    BY <1>0
  <2> QED BY <2>1
<1>1. CASE Tick
  <2>1. PoolsKept /\ now' \in Nat /\ now' = now + 1
    BY <1>0, <1>1, SamePools DEF Tick, poolVars
  <2>2. StakesInv' /\ BackedInv'
    BY <1>0, <1>1, <1>a, <2>1, StakesUntouched DEF Tick, stakeVars
  <2>3. RewardsInv'
    BY <1>1 DEF Tick, rewardVars, RewardsInv, Inv
  <2>4. VotesInv'
    <3>1. VotesInv /\ UNCHANGED voteVars
      BY <1>1 DEF Tick, Inv
    <3>2. \A d \in Users : \A i \in DOMAIN checkpoints[d] :
            checkpoints[d][i].from <= now /\ checkpoints[d][i].from \in Nat
      <4>1. \A d \in Users : \A i \in DOMAIN checkpoints[d] : checkpoints[d][i] \in Checkpoint
        BY <3>1 DEF VotesInv
      <4> QED BY <3>1, <4>1 DEF VotesInv, Checkpoint
    <3>3. \A d \in Users : \A i \in DOMAIN checkpoints[d] : checkpoints[d][i].from <= now'
      <4>1. \A k \in Nat : k <= now => k <= now'
        BY <1>0, <2>1
      <4> QED BY <3>2, <4>1
    <3> QED BY <3>1, <3>3 DEF VotesInv, voteVars
  <2> QED BY <1>1, <2>1, <2>2, <2>3, <2>4 DEF Inv, PoolsKept, Tick, poolVars
<1>2. ASSUME NEW n \in Fundings, FundStore(n) PROVE Inv'
  <2>1. n \in Nat
    BY XVSVaultAssumption
  <2>2. PoolsKept
    BY <1>2, SamePools DEF FundStore, poolVars
  <2>3. StakesInv' /\ BackedInv'
    BY <1>0, <1>2, <1>a, <2>2, StakesUntouched DEF FundStore, stakeVars
  <2>4. RewardsInv'
    BY <1>0, <1>2, <2>1 DEF FundStore, RewardsInv, Inv
  <2>5. VotesInv'
    BY <1>2 DEF FundStore, voteVars, VotesInv, Inv
  <2> QED BY <1>2, <2>2, <2>3, <2>4, <2>5 DEF Inv, PoolsKept, FundStore, poolVars
<1>3. ASSUME NEW t \in Tokens, NEW n \in Amounts, Donate(t, n) PROVE Inv'
  <2>1. n \in Nat
    BY XVSVaultAssumption
  <2>2. PoolsKept
    BY <1>3, SamePools DEF Donate, poolVars
  <2>3. vaultBalance' \in [Tokens -> Nat] /\ \A s \in Tokens : vaultBalance[s] <= vaultBalance'[s]
    <3>1. \A s \in Tokens : vaultBalance[s] \in Nat /\ vaultBalance[s] + n \in Nat
      BY <1>0, <2>1
    <3>2. vaultBalance' = [vaultBalance EXCEPT ![t] = vaultBalance[t] + n]
      BY <1>3 DEF Donate
    <3> QED BY <1>0, <2>1, <3>1, <3>2
  <2>4. StakesInv' /\ BackedInv'
    BY <1>3, <2>2, <2>3, StakesUntouched DEF Donate
  <2>5. VotesInv' /\ RewardsInv'
    BY <1>3 DEF Donate, voteVars, rewardVars, VotesInv, RewardsInv, Inv
  <2> QED BY <1>3, <2>2, <2>4, <2>5 DEF Inv, PoolsKept, Donate, poolVars
<1> QED BY <1>1, <1>2, <1>3 DEF EnvironmentStep

\* Every step keeps the invariant.
LEMMA NextKeeps ==
  ASSUME Inv, [Next]_vars
  PROVE  Inv'
<1>0. Amounts \subseteq Nat
  BY XVSVaultAssumption
<1>1. CASE StakerStep
  BY <1>0, <1>1, ClaimKeeps, ExecuteKeeps, ExecuteLegacyKeeps, DepositKeeps, RequestKeeps
     DEF StakerStep
<1>2. CASE VoterStep
  BY <1>2, DelegateKeeps DEF VoterStep
<1>3. CASE GovernanceStep
  <2>1. ASSUME NEW pid \in Pids,
               \/ UpdatePool(pid)
               \/ \E points \in AllocPoints : SetAllocPoint(pid, points)
               \/ \E period \in LockPeriods : SetWithdrawalLockingPeriod(pid, period)
        PROVE  Inv'
    BY <2>1, PoolActionsKeep
  <2>2. ASSUME NEW rate \in RewardRates, SetRewardRate(rate) PROVE Inv'
    <3>1. 1 \in Pids
      <4>1. poolInfos # <<>> /\ poolInfos \in Seq(PoolInfo)
        BY <2>2 DEF SetRewardRate, Inv, PoolsInv
      <4>2. 1 \in DOMAIN poolInfos
        BY <4>1
      <4> QED BY <4>2, PoolFacts DEF Inv
    <3> QED BY <2>2, <3>1, PoolActionsKeep
  <2>3. ASSUME NEW rate \in RewardRates, NEW t \in Tokens, NEW points \in AllocPoints,
               NEW period \in LockPeriods, Add(t, points, rate, period)
        PROVE  Inv'
    BY <2>3, AddKeeps
  <2>4. CASE PauseOrResume
    <3>1. PoolsKept
      BY <2>4, SamePools DEF PauseOrResume, poolVars
    <3>2. rewardRate' \in Nat /\ vaultPaused' \in BOOLEAN
      BY <2>4 DEF PauseOrResume, poolVars, Inv
    <3> QED BY <2>4, <3>1, <3>2, PoolStepKeeps DEF PauseOrResume
  <2> QED BY <1>3, <2>1, <2>2, <2>3, <2>4 DEF GovernanceStep
<1>4. CASE EnvironmentStep
  BY <1>4, EnvironmentKeeps
<1>5. CASE UNCHANGED vars
  <2>1. PoolsKept
    BY <1>5, SamePools DEF vars, poolVars
  <2> QED BY <1>5, <2>1, PoolStepKeeps DEF vars, poolVars, Inv
<1> QED BY <1>1, <1>2, <1>3, <1>4, <1>5 DEF Next

\* A vault at the time of its upgrade satisfies the invariant.
LEMMA InitInv ==
  ASSUME Init
  PROVE  Inv
<1> USE DEF Init, InitWith
<1>1. /\ InitialPools \in Seq(PoolInfo) /\ Len(InitialPools) <= MaxPools
      /\ \A i \in DOMAIN InitialPools : InitialPools[i].allocPoint > 0
      /\ \A i, j \in DOMAIN InitialPools :
           InitialPools[i].token = InitialPools[j].token => i = j
      /\ InitialRate \in Nat /\ InitialStore \in Nat
      /\ LegacyStakes \in [Users -> Nat]
      /\ LegacyRequests \in [Users -> Seq(WithdrawalRequest)]
  BY InitialAssumption DEF InitialVault
<1>2. ASSUME NEW u \in Users
      PROVE  /\ unlocksInOrder(LegacyRequests[u])
             /\ \A i \in DOMAIN LegacyRequests[u] : ~LegacyRequests[u][i].afterUpgrade
             /\ requestedAmount(LegacyRequests[u], FALSE) <= LegacyStakes[u]
             /\ InitialPools = <<>> => LegacyStakes[u] = 0 /\ LegacyRequests[u] = <<>>
  BY InitialAssumption DEF InitialVault
<1>3. PoolsInv
  <2> DEFINE f == [i \in DOMAIN InitialPools |-> InitialPools[i].allocPoint]
             D == DOMAIN InitialPools
  <2>1. f \in [D -> Nat]
    <3>1. \A i \in DOMAIN InitialPools : InitialPools[i] \in PoolInfo
      BY <1>1
    <3> QED BY <3>1 DEF PoolInfo
  <2>2. IsFiniteSet(D)
    <3>1. D = 1 .. Len(InitialPools) /\ Len(InitialPools) \in Int
      BY <1>1
    <3> QED BY <3>1, FS_Interval
  <2>3. InitialPools # <<>> => 1 \in D /\ f[1] > 0
    BY <1>1
  <2>5. totalAllocPoints = Total(f) /\ poolInfos = InitialPools
    OBVIOUS
  <2> HIDE DEF f, D
  <2>4. Total(f) \in Nat /\ \A i \in D : f[i] <= Total(f)
    BY <2>1, <2>2, TotalBounds
  <2>6. InitialPools # <<>> => Total(f) > 0
    BY <2>1, <2>3, <2>4
  <2> QED BY <1>1, <2>4, <2>5, <2>6 DEF PoolsInv
<1>4. ASSUME NEW pid \in Pids, NEW u \in Users
      PROVE  /\ UserOK(userInfos[pid][u], withdrawalRequests[pid][u])
             /\ requestedAmount(withdrawalRequests[pid][u], TRUE) = 0
             /\ userInfos[pid][u].rewardDebt = 0
  <2> DEFINE user == userInfos[pid][u]
             requests == withdrawalRequests[pid][u]
             k == requestedAmount(LegacyRequests[u], FALSE)
  <2>1. user = [amount |-> IF pid = 1 THEN LegacyStakes[u] ELSE 0, rewardDebt |-> 0,
                pendingWithdrawals |-> IF pid = 1 THEN k ELSE 0]
        /\ requests = IF pid = 1 THEN LegacyRequests[u] ELSE <<>>
    OBVIOUS
  <2>2. CASE pid = 1
    <3>1. /\ LegacyRequests[u] \in Seq(WithdrawalRequest) /\ LegacyStakes[u] \in Nat
          /\ k <= LegacyStakes[u] /\ unlocksInOrder(LegacyRequests[u])
      BY <1>1, <1>2
    <3> DEFINE r == LegacyRequests[u]
               f == counted(r, TRUE)
    <3>2. k \in Nat /\ f \in [Places(Len(r)) -> Nat]
      BY <3>1, CountedType
    <3>3. \A i \in Places(Len(r)) : f[i] = 0
      <4>1. DOMAIN r = Places(Len(r))
        BY <3>1 DEF Places
      <4>2. \A i \in DOMAIN r : r[i].afterUpgrade # TRUE
        BY <1>2
      <4> QED BY <4>1, <4>2, Zenon DEF counted
    <3>4. requestedAmount(r, TRUE) = 0
      <4> HIDE DEF f
      <4>1. Total(f) = 0
        BY <3>2, <3>3, TotalZero
      <4> QED BY <4>1 DEF requestedAmount, f
    <3>5. /\ user = [amount |-> LegacyStakes[u], rewardDebt |-> 0, pendingWithdrawals |-> k]
          /\ requests = r
      BY <2>1, <2>2
    <3> HIDE DEF user, requests, k, f
    <3>6. /\ user \in UserInfo /\ user.pendingWithdrawals = k /\ user.amount = LegacyStakes[u]
          /\ user.rewardDebt = 0 /\ user.pendingWithdrawals <= user.amount
      BY <3>1, <3>2, <3>5 DEF UserInfo
    <3>7. k = 0 + k
      BY <3>2
    <3> QED BY <3>1, <3>4, <3>5, <3>6, <3>7, Zenon DEF UserOK, k, user, requests
  <2>3. CASE pid # 1
    <3>1. /\ user = [amount |-> 0, rewardDebt |-> 0, pendingWithdrawals |-> 0]
          /\ requests = <<>>
      BY <2>1, <2>3
    <3>2. requestedAmount(<<>>, TRUE) = 0 /\ requestedAmount(<<>>, FALSE) = 0
      <4> DEFINE q == [amount |-> 0, lockedUntil |-> 0, afterUpgrade |-> TRUE]
      <4>1. q \in WithdrawalRequest
        BY DEF WithdrawalRequest
      <4> HIDE DEF q
      <4> QED BY <4>1, RequestsOfOne
    <3>3. /\ user \in UserInfo /\ user.pendingWithdrawals = 0 /\ user.rewardDebt = 0
          /\ user.pendingWithdrawals <= user.amount
      <4> HIDE DEF user
      <4> QED BY <3>1 DEF UserInfo
    <3>4. requests \in Seq(WithdrawalRequest) /\ unlocksInOrder(requests) /\ 0 = 0 + 0
      <4>1. <<>> \in Seq(WithdrawalRequest) /\ unlocksInOrder(<<>>) /\ 0 = 0 + 0
        BY DEF unlocksInOrder
      <4> HIDE DEF requests
      <4> QED BY <3>1, <4>1
    <3> HIDE DEF user, requests
    <3> QED BY <3>1, <3>2, <3>3, <3>4, Zenon DEF UserOK, user, requests
  <2> QED BY <2>2, <2>3
<1>5. StakesInv
  <2>1. /\ userInfos \in [Pids -> [Users -> UserInfo]]
        /\ withdrawalRequests \in [Pids -> [Users -> Seq(WithdrawalRequest)]]
    <3>1. \A pid \in Pids, u \in Users : /\ userInfos[pid][u] \in UserInfo
                                        /\ withdrawalRequests[pid][u] \in Seq(WithdrawalRequest)
      BY <1>4, Zenon DEF UserOK
    <3>2. /\ userInfos = [pid \in Pids |-> [u \in Users |-> userInfos[pid][u]]]
          /\ withdrawalRequests = [pid \in Pids |-> [u \in Users |-> withdrawalRequests[pid][u]]]
      BY Zenon
    <3> QED BY <3>1, <3>2
  <2>2. ASSUME NEW pid \in Pids PROVE totalPendingWithdrawals[pid] = Total(asked(pid))
    <3> DEFINE f == asked(pid)
    <3>0. \A u \in Users : requestedAmount(withdrawalRequests[pid][u], TRUE) = 0
      BY <1>4
    <3>1. f \in [Users -> Nat] /\ \A u \in Users : f[u] = 0
      <4>1. f = [u \in Users |-> 0]
        BY <3>0, Zenon DEF asked
      <4> HIDE DEF f
      <4> QED BY <4>1
    <3> HIDE DEF f
    <3>2. Total(f) = 0
      BY <3>1, TotalZero
    <3> QED BY <3>2 DEF f
  <2>3. totalPendingWithdrawals \in [Pids -> Nat]
    OBVIOUS
  <2>4. vaultBalance \in [Tokens -> Nat]
    <3>1. Total(LegacyStakes) \in Nat
      BY <1>1, XVSVaultAssumption, TotalBounds
    <3> QED BY <3>1
  <2> QED BY <1>4, <2>1, <2>2, <2>3, <2>4 DEF StakesInv
<1>6. BackedInv
  <2>0. poolInfos = InitialPools
    OBVIOUS
  <2>1. ASSUME NEW pid \in DOMAIN poolInfos
        PROVE  Total(stakes(pid)) <= vaultBalance[poolInfos[pid].token]
    <3>1. pid \in Pids /\ poolInfos[pid].token \in Tokens
      BY <1>3, PoolFacts DEF PoolInfo
    <3>2. vaultBalance[poolInfos[pid].token] \in Nat
      BY <1>5, <3>1 DEF StakesInv
    <3>3. CASE pid = 1
      <4>1. stakes(pid) = LegacyStakes
        BY <1>1, <3>1, <3>3 DEF stakes
      <4>2. vaultBalance[poolInfos[pid].token] = Total(LegacyStakes)
        <5>1. InitialPools # <<>>
          BY <2>0, <3>3
        <5> QED BY <3>1, <3>3, <5>1
      <4> QED BY <3>2, <4>1, <4>2
    <3>4. CASE pid # 1
      <4>1. stakes(pid) \in [Users -> Nat] /\ \A u \in Users : stakes(pid)[u] = 0
        BY <3>1, <3>4 DEF stakes
      <4>2. Total(stakes(pid)) = 0
        BY <4>1, TotalZero
      <4> QED BY <3>2, <4>2
    <3> QED BY <3>3, <3>4
  <2>2. ASSUME NEW pid \in DOMAIN poolInfos, NEW u \in Users
        PROVE  Covered(userInfos[pid][u], withdrawalRequests[pid][u], poolInfos[pid])
    <3> DEFINE user == userInfos[pid][u]
               k == requestedAmount(withdrawalRequests[pid][u], TRUE)
               acc == poolInfos[pid].accRewardPerShare
               n == user.amount - k
    <3>1. pid \in Pids /\ acc \in Nat
      BY <1>3, PoolFacts DEF PoolInfo
    <3>2. n \in Nat /\ user.rewardDebt = 0
      BY <3>1, <1>4, UserFacts
    <3> HIDE DEF n, acc, user, k
    <3>3. n * acc \in Nat
      BY <3>1, <3>2
    <3> DEFINE m == n * acc
    <3>4. m \in Nat /\ accScale \in Nat \ {0}
      BY <3>3, XVSVaultAssumption
    <3> HIDE DEF m
    <3>5. m \div accScale \in Nat
      BY <3>4, DivBounds
    <3>6. user.rewardDebt <= m \div accScale
      BY <3>2, <3>5
    <3> QED BY <3>6, Zenon DEF Covered, m, n, acc, user, k
  <2>3. ASSUME NEW pid \in Pids \ DOMAIN poolInfos, NEW u \in Users
        PROVE  /\ userInfos[pid][u].amount = 0 /\ userInfos[pid][u].rewardDebt = 0
               /\ withdrawalRequests[pid][u] = <<>>
    <3>1. CASE pid = 1
      <4>1. InitialPools = <<>>
        BY <1>1, <2>0, <3>1
      <4> QED BY <1>2, <3>1, <4>1
    <3>2. CASE pid # 1
      BY <3>2
    <3> QED BY <3>1, <3>2
  <2> QED BY <2>1, <2>2, <2>3 DEF BackedInv
<1>7. RewardsInv /\ VotesInv
  BY <1>1 DEF RewardsInv, VotesInv, Ordered
<1> QED BY <1>1, <1>3, <1>5, <1>6, <1>7 DEF Inv

\* The invariant says what is wanted of the books.
LEMMA InvAgrees ==
  ASSUME Inv
  PROVE  BooksAgree
<1>1. TypeOK
  BY DEF Inv, PoolsInv, StakesInv, RewardsInv, VotesInv, TypeOK
<1>2. RequestsSorted
  BY DEF Inv, StakesInv, UserOK, RequestsSorted
<1>3. PendingCounted
  <2>1. ASSUME NEW pid \in Pids, NEW u \in Users
        PROVE  /\ userInfos[pid][u].pendingWithdrawals =
                    requestedAmount(withdrawalRequests[pid][u], TRUE) + legacyPending(pid, u)
               /\ userInfos[pid][u].pendingWithdrawals <= userInfos[pid][u].amount
    BY Zenon DEF Inv, StakesInv, UserOK, legacyPending
  <2>2. ASSUME NEW pid \in Pids
        PROVE  totalPendingWithdrawals[pid] =
                 Total([u \in Users |-> requestedAmount(withdrawalRequests[pid][u], TRUE)])
    BY DEF Inv, StakesInv, asked
  <2> QED BY <2>1, <2>2 DEF PendingCounted
<1>4. StakesBacked
  BY DEF Inv, BackedInv, stakes, StakesBacked
<1>5. RewardDebtCovered
  <2> SUFFICES ASSUME NEW pid \in DOMAIN poolInfos, NEW u \in Users
               PROVE  pendingReward(pid, u) >= 0
    BY DEF RewardDebtCovered
  <2> DEFINE user == userInfos[pid][u]
             requests == withdrawalRequests[pid][u]
             info == updatePool(poolInfos, pid)[pid]
             c == ((user.amount - requestedAmount(requests, TRUE)) * info.accRewardPerShare)
                    \div accScale
  <2>1. /\ pid \in Pids /\ poolInfos[pid] \in PoolInfo /\ info \in PoolInfo
        /\ poolInfos[pid].accRewardPerShare <= info.accRewardPerShare
    BY PoolFacts, UpdatedPool DEF Inv
  <2>2. UserOK(user, requests) /\ Covered(user, requests, poolInfos[pid])
    BY <2>1 DEF Inv, StakesInv, BackedInv
  <2> HIDE DEF info
  <2>3. Covered(user, requests, info)
    BY <2>1, <2>2, CoveredGrows
  <2>4. user.rewardDebt <= c
    BY <2>3, Zenon DEF Covered
  <2>5. user.rewardDebt \in Nat /\ c \in Nat
    <3> DEFINE n == user.amount - requestedAmount(requests, TRUE)
               acc == info.accRewardPerShare
    <3>1. n \in Nat /\ user.rewardDebt \in Nat /\ acc \in Nat
      BY <2>1, <2>2, UserFacts DEF PoolInfo
    <3> HIDE DEF n, acc
    <3>2. n * acc \in Nat
      BY <3>1
    <3> DEFINE m == n * acc
    <3>3. m \in Nat /\ accScale \in Nat \ {0}
      BY <3>2, XVSVaultAssumption
    <3> HIDE DEF m
    <3>4. m \div accScale \in Nat
      BY <3>3, DivBounds
    <3> QED BY <3>1, <3>4 DEF m, n, acc
  <2>6. pendingReward(pid, u) = c - user.rewardDebt
    BY DEF pendingReward, info
  <2> HIDE DEF c, user
  <2> QED BY <2>4, <2>5, <2>6
<1> QED BY <1>1, <1>2, <1>3, <1>4, <1>5 DEF BooksAgree

\* The invariant holds in every state.
THEOREM Invariant == Spec => []Inv
<1>1. Init => Inv
  BY InitInv
<1>2. Inv /\ [Next]_vars => Inv'
  BY NextKeeps
<1> QED BY <1>1, <1>2, PTL DEF Spec

\* However deposits, claims, requests, withdrawals, delegations and decisions of
\* governance interleave, with whatever pools, rates and lock periods: the three
\* books of the withdrawals agree, the vault holds what is staked, and no debt
\* exceeds the reward it is subtracted from.
THEOREM BooksAlwaysAgree == Spec => []BooksAgree
<1>1. Inv => BooksAgree
  BY InvAgrees
<1> QED BY <1>1, Invariant, PTL

-----------------------------------------------------------------------------
(* Votes and stakes. *)

Stakings == (DOMAIN poolInfos) \X Users

\* The votes that stakes give to d.
power(d) ==
  [s \in Stakings |->
     IF poolInfos[s[1]].token = xvs /\ delegates[s[2]] = d
       THEN userInfos[s[1]][s[2]].amount - userInfos[s[1]][s[2]].pendingWithdrawals
       ELSE 0]

\* Stakes that vote are numbers, of finitely many users in finitely many pools.
LEMMA PowerType ==
  ASSUME Inv, NEW d
  PROVE  /\ IsFiniteSet(Stakings) /\ power(d) \in [Stakings -> Nat]
         /\ Total(power(d)) \in Nat
         /\ \A p \in DOMAIN poolInfos, u \in Users :
              /\ userInfos[p][u].amount \in Nat /\ userInfos[p][u].pendingWithdrawals \in Nat
              /\ userInfos[p][u].amount - userInfos[p][u].pendingWithdrawals \in Nat
<1>1. IsFiniteSet(Stakings)
  <2> DEFINE D == DOMAIN poolInfos
  <2>1. IsFiniteSet(D)
    <3>1. D = 1 .. Len(poolInfos) /\ Len(poolInfos) \in Int
      BY PoolFacts DEF Inv
    <3> QED BY <3>1, FS_Interval
  <2>2. IsFiniteSet(Users)
    BY XVSVaultAssumption
  <2> HIDE DEF D
  <2>3. IsFiniteSet(D \X Users)
    BY <2>1, <2>2, FS_Product
  <2> QED BY <2>3 DEF Stakings, D
<1>2. ASSUME NEW p \in DOMAIN poolInfos, NEW u \in Users
      PROVE  /\ userInfos[p][u].amount \in Nat /\ userInfos[p][u].pendingWithdrawals \in Nat
             /\ userInfos[p][u].amount - userInfos[p][u].pendingWithdrawals \in Nat
  <2> DEFINE user == userInfos[p][u]
  <2>1. p \in Pids
    BY PoolFacts DEF Inv
  <2>2. user \in UserInfo /\ user.pendingWithdrawals <= user.amount
    BY <2>1, Zenon DEF Inv, StakesInv, UserOK
  <2> HIDE DEF user
  <2>3. /\ user.amount \in Nat /\ user.pendingWithdrawals \in Nat
        /\ user.amount - user.pendingWithdrawals \in Nat
    BY <2>2 DEF UserInfo
  <2> QED BY <2>3 DEF user
<1>3. power(d) \in [Stakings -> Nat]
  <2>1. \A s \in Stakings : s[1] \in DOMAIN poolInfos /\ s[2] \in Users
    BY DEF Stakings
  <2>2. \A s \in Stakings :
          userInfos[s[1]][s[2]].amount - userInfos[s[1]][s[2]].pendingWithdrawals \in Nat
    BY <2>1, <1>2
  <2> QED BY <2>2 DEF power
<1>4. Total(power(d)) \in Nat
  BY <1>1, <1>3, TotalBounds
<1> QED BY <1>1, <1>2, <1>3, <1>4

\* The pools and their tokens stay.
TokensKept ==
  /\ DOMAIN poolInfos' = DOMAIN poolInfos
  /\ \A p \in DOMAIN poolInfos : poolInfos'[p].token = poolInfos[p].token

\* Votes that do not move.
LEMMA PowerSame ==
  ASSUME Inv, TokensKept, UNCHANGED <<userInfos, delegates>>, NEW d
  PROVE  Total(power(d)') = Total(power(d))
<1>1. Stakings' = Stakings
  BY DEF Stakings, TokensKept
<1>2. \A s \in Stakings : s[1] \in DOMAIN poolInfos /\ s[2] \in Users
  BY DEF Stakings
<1>3. \A s \in Stakings : poolInfos'[s[1]].token = poolInfos[s[1]].token
  BY <1>2 DEF TokensKept
<1>4. power(d)' = power(d)
  BY <1>1, <1>3 DEF power
<1> QED BY <1>4

\* When the stake of one user in one pool grows by n, less what it has asked
\* for, so do the votes of the one it delegates to.
LEMMA PowerStep ==
  ASSUME Inv, Inv', TokensKept, UNCHANGED delegates,
         NEW pid \in DOMAIN poolInfos, NEW u \in Users,
         \A p \in Pids, v \in Users : p # pid \/ v # u => userInfos'[p][v] = userInfos[p][v],
         NEW n \in Int,
         userInfos'[pid][u].amount - userInfos'[pid][u].pendingWithdrawals =
           userInfos[pid][u].amount - userInfos[pid][u].pendingWithdrawals + n,
         NEW d
  PROVE  Total(power(d)') =
           Total(power(d)) + IF poolInfos[pid].token = xvs /\ delegates[u] = d THEN n ELSE 0
<1> DEFINE s0 == <<pid, u>>
           new == IF poolInfos[pid].token = xvs /\ delegates[u] = d
                    THEN userInfos'[pid][u].amount - userInfos'[pid][u].pendingWithdrawals
                    ELSE 0
           old == power(d)[s0]
           f == power(d)
           more == IF poolInfos[pid].token = xvs /\ delegates[u] = d THEN n ELSE 0
<1>1. Stakings' = Stakings
  BY DEF Stakings, TokensKept
<1>2. /\ IsFiniteSet(Stakings) /\ f \in [Stakings -> Nat] /\ Total(f) \in Nat
      /\ userInfos[pid][u].amount - userInfos[pid][u].pendingWithdrawals \in Nat
  BY PowerType
<1>3. userInfos'[pid][u].amount - userInfos'[pid][u].pendingWithdrawals \in Nat
  <2> DEFINE user == userInfos'[pid][u]
  <2>1. pid \in Pids
    BY PoolFacts DEF Inv
  <2>2. user \in UserInfo /\ user.pendingWithdrawals <= user.amount
    BY <2>1, Zenon DEF Inv, StakesInv, UserOK
  <2> HIDE DEF user
  <2>3. user.amount - user.pendingWithdrawals \in Nat
    BY <2>2 DEF UserInfo
  <2> QED BY <2>3 DEF user
<1>4. s0 \in Stakings /\ s0[1] = pid /\ s0[2] = u
  BY DEF Stakings
<1>5. new \in Nat
  BY <1>3
<1>6. old = (IF poolInfos[pid].token = xvs /\ delegates[u] = d
               THEN userInfos[pid][u].amount - userInfos[pid][u].pendingWithdrawals
               ELSE 0)
  BY <1>4 DEF power
<1>7. power(d)' = [f EXCEPT ![s0] = new]
  <2>1. \A s \in Stakings : s[1] \in DOMAIN poolInfos /\ s[1] \in Pids /\ s[2] \in Users
                            /\ s = <<s[1], s[2]>>
    BY PoolFacts DEF Stakings, Inv
  <2>2. \A s \in Stakings : poolInfos'[s[1]].token = poolInfos[s[1]].token
    BY <2>1 DEF TokensKept
  <2>3. ASSUME NEW s \in Stakings, s # s0 PROVE power(d)'[s] = f[s]
    <3>1. s[1] # pid \/ s[2] # u
      BY <2>1, <2>3
    <3>2. userInfos'[s[1]][s[2]] = userInfos[s[1]][s[2]]
      BY <2>1, <3>1
    <3> QED BY <1>1, <2>2, <3>2 DEF power
  <2>4. power(d)'[s0] = new
    BY <1>1, <1>4, <2>2 DEF power
  <2>5. power(d)' = [s \in Stakings |-> power(d)'[s]] /\ f = [s \in Stakings |-> f[s]]
    BY <1>1 DEF power
  <2> DEFINE g == power(d)'
  <2> HIDE DEF f, g, s0, new
  <2>6. g = [f EXCEPT ![s0] = new]
    BY <1>4, <2>3, <2>4, <2>5 DEF g
  <2> QED BY <2>6 DEF g
<1>8. Total([f EXCEPT ![s0] = new]) = Total(f) - f[s0] + new
  <2>1. /\ IsFiniteSet(Stakings) /\ f \in [Stakings -> Nat] /\ s0 \in Stakings
        /\ new \in Nat
    BY <1>2, <1>4, <1>5
  <2> DEFINE D == Stakings
  <2> HIDE DEF f, s0, new, D
  <2>2. IsFiniteSet(D) /\ f \in [D -> Nat] /\ s0 \in D
    BY <2>1 DEF D
  <2> QED BY <2>1, <2>2, TotalExcept
<1>9. old \in Nat /\ new = old + more
  <2> DEFINE a == userInfos[pid][u].amount - userInfos[pid][u].pendingWithdrawals
             b == userInfos'[pid][u].amount - userInfos'[pid][u].pendingWithdrawals
  <2>1. a \in Nat /\ b \in Nat /\ b = a + n
    BY <1>2, <1>3
  <2>2. old = (IF poolInfos[pid].token = xvs /\ delegates[u] = d THEN a ELSE 0)
        /\ new = IF poolInfos[pid].token = xvs /\ delegates[u] = d THEN b ELSE 0
    BY <1>6
  <2> HIDE DEF a, b, old, new
  <2> QED BY <2>1, <2>2
<1>10. Total(power(d)') = Total(f) - old + new
  BY <1>7, <1>8
<1> HIDE DEF new, old
<1> QED BY <1>2, <1>5, <1>9, <1>10

\* Moving n votes from src to dst.
LEMMA CurrentMoved ==
  ASSUME Inv, NEW src \in Users \cup {ZeroAddress}, NEW dst \in Users \cup {ZeroAddress},
         NEW n \in Nat, canMoveDelegates(src, dst, n), NEW d \in Users
  PROVE  getCurrentVotes(moveDelegates(src, dst, n)[d]) =
           getCurrentVotes(checkpoints[d]) - (IF src = d THEN n ELSE 0)
                                           + (IF dst = d THEN n ELSE 0)
<1> DEFINE votes == getCurrentVotes(checkpoints[d])
           list == checkpoints[d]
           moved == moveDelegates(src, dst, n)[d]
<1>1. /\ list \in Seq(Checkpoint) /\ Ordered(list) /\ now \in Nat
      /\ \A i \in DOMAIN list : list[i].from <= now
  BY DEF Inv, VotesInv
<1>2. votes \in Nat
  BY <1>1, VotesNatural
<1>3. CASE src = dst \/ n = 0 \/ d \notin {src, dst}
  <2>1. moved = list
    BY <1>3 DEF moveDelegates
  <2> HIDE DEF list, moved
  <2> QED BY <1>2, <1>3, <2>1 DEF list, moved
<1>4. CASE ~(src = dst \/ n = 0 \/ d \notin {src, dst}) /\ d = src
  <2>1. moved = writeCheckpoint(list, votes - n)
    BY <1>4 DEF moveDelegates
  <2>2. n <= votes
    BY <1>4, XVSVaultAssumption DEF canMoveDelegates
  <2>3. votes - n \in Nat
    BY <1>2, <2>2
  <2> DEFINE less == votes - n
  <2> HIDE DEF less, list
  <2>4. getCurrentVotes(writeCheckpoint(list, less)) = less
    BY <1>1, <2>3, CheckpointWritten DEF less
  <2> HIDE DEF moved
  <2>5. getCurrentVotes(moved) = votes - n
    BY <2>1, <2>4 DEF less
  <2> HIDE DEF votes
  <2> QED BY <1>2, <1>4, <2>5 DEF moved, votes, list
<1>5. CASE ~(src = dst \/ n = 0 \/ d \notin {src, dst}) /\ d # src
  <2>1. moved = writeCheckpoint(list, votes + n) /\ d = dst
    BY <1>5 DEF moveDelegates
  <2>3. votes + n \in Nat
    BY <1>2
  <2> DEFINE more == votes + n
  <2> HIDE DEF more, list
  <2>4. getCurrentVotes(writeCheckpoint(list, more)) = more
    BY <1>1, <2>3, CheckpointWritten DEF more
  <2> HIDE DEF moved
  <2>5. getCurrentVotes(moved) = votes + n
    BY <2>1, <2>4 DEF more
  <2> HIDE DEF votes
  <2> QED BY <1>2, <1>5, <2>1, <2>5 DEF moved, votes, list
<1> QED BY <1>3, <1>4, <1>5

\* An update of one pool leaves the tokens.
LEMMA UpdateKeepsTokens ==
  ASSUME Inv, NEW pid \in DOMAIN poolInfos, poolInfos' = updatePool(poolInfos, pid)
  PROVE  TokensKept
<1> DEFINE infos == updatePool(poolInfos, pid)
<1>1. /\ DOMAIN infos = DOMAIN poolInfos
      /\ infos[pid].token = poolInfos[pid].token
      /\ \A i \in DOMAIN poolInfos \ {pid} : infos[i] = poolInfos[i]
  BY UpdatedPool
<1> HIDE DEF infos
<1>2. \A i \in DOMAIN poolInfos : infos[i].token = poolInfos[i].token
  BY <1>1
<1> QED BY <1>1, <1>2 DEF TokensKept, infos

\* The voting power of those who delegate to d, after a step of one user in one
\* pool that moves n votes, or none, from src to dst.
LEMMA VotesFollow ==
  ASSUME Inv, Inv', VotesMatchStakes, UNCHANGED delegates, TokensKept,
         NEW pid \in DOMAIN poolInfos, NEW u \in Users,
         \A p \in Pids, v \in Users : p # pid \/ v # u => userInfos'[p][v] = userInfos[p][v],
         NEW src \in Users \cup {ZeroAddress}, NEW dst \in Users \cup {ZeroAddress},
         NEW m \in Nat, NEW n \in Int,
         userInfos'[pid][u].amount - userInfos'[pid][u].pendingWithdrawals =
           userInfos[pid][u].amount - userInfos[pid][u].pendingWithdrawals + n,
         movesVotes(pid, src, dst, m),
         \/ src = ZeroAddress /\ dst = delegates[u] /\ n = m
         \/ src = delegates[u] /\ dst = ZeroAddress /\ n = -m
  PROVE  VotesMatchStakes'
<1> SUFFICES ASSUME NEW d \in Users
             PROVE  getCurrentVotes(checkpoints'[d]) = Total(power(d)')
  BY DEF VotesMatchStakes, power, Stakings
<1> DEFINE votes == getCurrentVotes(checkpoints[d])
           t == Total(power(d))
           t2 == Total(power(d)')
<1>1. votes = t /\ t \in Nat
  BY PowerType DEF VotesMatchStakes, power, Stakings
<1>2. t2 = t + IF poolInfos[pid].token = xvs /\ delegates[u] = d THEN n ELSE 0
  BY PowerStep
<1>3. CASE poolInfos[pid].token # xvs
  <2>1. checkpoints' = checkpoints
    BY <1>3 DEF movesVotes
  <2>2. t2 = t + 0
    BY <1>2, <1>3
  <2> HIDE DEF t, t2
  <2>3. t2 = t
    BY <1>1, <2>2
  <2> QED BY <1>1, <2>1, <2>3 DEF t2
<1>4. CASE poolInfos[pid].token = xvs
  <2>1. canMoveDelegates(src, dst, m) /\ checkpoints' = moveDelegates(src, dst, m)
    BY <1>4 DEF movesVotes
  <2>2. getCurrentVotes(checkpoints'[d]) =
          votes - (IF src = d THEN m ELSE 0) + (IF dst = d THEN m ELSE 0)
    <3>1. getCurrentVotes(moveDelegates(src, dst, m)[d]) =
            votes - (IF src = d THEN m ELSE 0) + (IF dst = d THEN m ELSE 0)
      <4>1. \A x \in Nat : canMoveDelegates(src, dst, x) =>
              getCurrentVotes(moveDelegates(src, dst, x)[d]) =
                getCurrentVotes(checkpoints[d]) - (IF src = d THEN x ELSE 0)
                                                + (IF dst = d THEN x ELSE 0)
        BY CurrentMoved, SMTT(30)
      <4> QED BY <2>1, <4>1, Zenon
    <3>2. checkpoints'[d] = moveDelegates(src, dst, m)[d]
      BY <2>1, Zenon
    <3> QED BY <3>1, <3>2, Zenon
  <2>3. t2 = t + IF delegates[u] = d THEN n ELSE 0
    BY <1>2, <1>4
  <2>4. d # ZeroAddress
    BY XVSVaultAssumption
  <2>5. votes - (IF src = d THEN m ELSE 0) + (IF dst = d THEN m ELSE 0) = t2
    <3> HIDE DEF votes, t, t2
    <3>1. CASE src = ZeroAddress /\ dst = delegates[u] /\ n = m
      BY <3>1, <1>1, <2>3, <2>4
    <3>2. CASE src = delegates[u] /\ dst = ZeroAddress /\ n = -m
      BY <3>2, <1>1, <2>3, <2>4
    <3> QED BY <3>1, <3>2
  <2> QED BY <2>2, <2>5
<1> QED BY <1>3, <1>4

\* A step that moves no votes and no stake that votes.
LEMMA VotesStay ==
  ASSUME Inv, Inv', VotesMatchStakes, UNCHANGED voteVars, TokensKept,
         \/ UNCHANGED userInfos
         \/ \E pid \in DOMAIN poolInfos, u \in Users :
              /\ \A p \in Pids, v \in Users :
                   p # pid \/ v # u => userInfos'[p][v] = userInfos[p][v]
              /\ userInfos'[pid][u].amount - userInfos'[pid][u].pendingWithdrawals =
                   userInfos[pid][u].amount - userInfos[pid][u].pendingWithdrawals + 0
  PROVE  VotesMatchStakes'
<1> SUFFICES ASSUME NEW d \in Users
             PROVE  getCurrentVotes(checkpoints'[d]) = Total(power(d)')
  BY DEF VotesMatchStakes, power, Stakings
<1> DEFINE t == Total(power(d))
           t2 == Total(power(d)')
<1>1. getCurrentVotes(checkpoints[d]) = t /\ t \in Nat
  BY PowerType DEF VotesMatchStakes, power, Stakings
<1>0. UNCHANGED delegates /\ UNCHANGED checkpoints
  BY DEF voteVars
<1>2. CASE UNCHANGED userInfos
  BY <1>0, <1>1, <1>2, PowerSame
<1>3. ASSUME NEW pid \in DOMAIN poolInfos, NEW u \in Users,
             \A p \in Pids, v \in Users :
               p # pid \/ v # u => userInfos'[p][v] = userInfos[p][v],
             userInfos'[pid][u].amount - userInfos'[pid][u].pendingWithdrawals =
               userInfos[pid][u].amount - userInfos[pid][u].pendingWithdrawals + 0
      PROVE  getCurrentVotes(checkpoints'[d]) = Total(power(d)')
  <2>1. 0 \in Int
    OBVIOUS
  <2>2. t2 = t + IF poolInfos[pid].token = xvs /\ delegates[u] = d THEN 0 ELSE 0
    BY <1>0, <1>3, <2>1, PowerStep
  <2> HIDE DEF t, t2
  <2>3. t2 = t
    BY <1>1, <2>2
  <2> QED BY <1>0, <1>1, <2>3 DEF t2
<1> QED BY <1>2, <1>3

\* The steps of the stakers and the votes.
LEMMA StakersVote ==
  ASSUME Inv, Inv', VotesMatchStakes, StakerStep
  PROVE  VotesMatchStakes'
<1> SUFFICES ASSUME NEW u \in Users, NEW pid \in Pids,
                    \/ Claim(u, pid) \/ ExecuteWithdrawal(u, pid)
                    \/ ExecuteLegacyWithdrawal(u, pid)
                    \/ \E n \in Amounts : Deposit(u, pid, n) \/ RequestWithdrawal(u, pid, n)
             PROVE  VotesMatchStakes'
  BY DEF StakerStep
<1> DEFINE user == userInfos[pid][u]
           infos == updatePool(poolInfos, pid)
<1>1. /\ userInfos \in [Pids -> [Users -> UserInfo]]
      /\ user \in UserInfo
      /\ delegates[u] \in Users \cup {ZeroAddress}
  BY SMTT(30) DEF Inv, StakesInv, VotesInv
<1>2. pid \in DOMAIN poolInfos
  BY DEF Claim, ExecuteWithdrawal, ExecuteLegacyWithdrawal, Deposit, RequestWithdrawal,
         validPool
<1>3. user.amount \in Nat /\ user.pendingWithdrawals \in Nat
  BY <1>1 DEF UserInfo
<1>4. ASSUME NEW x, userInfos' = [userInfos EXCEPT ![pid][u] = x]
      PROVE  /\ userInfos'[pid][u] = x
             /\ \A p \in Pids, v \in Users :
                  p # pid \/ v # u => userInfos'[p][v] = userInfos[p][v]
  BY <1>1, <1>4
<1> HIDE DEF user
<1>5. ASSUME NEW n \in Amounts, Deposit(u, pid, n) PROVE VotesMatchStakes'
  <2> DEFINE x == deposited(user, infos[pid], n)
  <2>1. /\ userInfos' = [userInfos EXCEPT ![pid][u] = x]
        /\ poolInfos' = infos /\ UNCHANGED delegates
        /\ movesVotes(pid, ZeroAddress, delegates[u], n)
    BY <1>5 DEF Deposit, user
  <2>2. n \in Nat /\ n \in Int
    BY XVSVaultAssumption
  <2>3. x.amount = user.amount + n /\ x.pendingWithdrawals = user.pendingWithdrawals
    BY <1>1 DEF deposited, UserInfo
  <2>4. x.amount - x.pendingWithdrawals = user.amount - user.pendingWithdrawals + n
    <3> HIDE DEF x
    <3> QED BY <1>3, <2>2, <2>3
  <2> HIDE DEF x
  <2>5. /\ userInfos'[pid][u].amount - userInfos'[pid][u].pendingWithdrawals =
             userInfos[pid][u].amount - userInfos[pid][u].pendingWithdrawals + n
        /\ \A p \in Pids, v \in Users :
             p # pid \/ v # u => userInfos'[p][v] = userInfos[p][v]
    BY <1>4, <2>1, <2>4 DEF user
  <2>6. TokensKept
    BY <1>2, <2>1, UpdateKeepsTokens
  <2> QED BY <1>1, <1>2, <2>1, <2>2, <2>5, <2>6, VotesFollow
<1>6. ASSUME NEW n \in Amounts, RequestWithdrawal(u, pid, n) PROVE VotesMatchStakes'
  <2> DEFINE x == requested(user, infos[pid], n)
             k == -n
  <2>1. /\ userInfos' = [userInfos EXCEPT ![pid][u] = x]
        /\ poolInfos' = infos /\ UNCHANGED delegates
        /\ movesVotes(pid, delegates[u], ZeroAddress, n)
    BY <1>6 DEF RequestWithdrawal, user
  <2>2. n \in Nat /\ k \in Int /\ k = -n
    BY XVSVaultAssumption
  <2> HIDE DEF k
  <2>3. x.amount = user.amount /\ x.pendingWithdrawals = user.pendingWithdrawals + n
    BY <1>1 DEF requested, UserInfo
  <2>4. x.amount - x.pendingWithdrawals = user.amount - user.pendingWithdrawals + k
    <3> HIDE DEF x
    <3> QED BY <1>3, <2>2, <2>3
  <2> HIDE DEF x
  <2>5. /\ userInfos'[pid][u].amount - userInfos'[pid][u].pendingWithdrawals =
             userInfos[pid][u].amount - userInfos[pid][u].pendingWithdrawals + k
        /\ \A p \in Pids, v \in Users :
             p # pid \/ v # u => userInfos'[p][v] = userInfos[p][v]
    BY <1>4, <2>1, <2>4 DEF user
  <2>6. TokensKept
    BY <1>2, <2>1, UpdateKeepsTokens
  <2> QED BY <1>1, <1>2, <2>1, <2>2, <2>5, <2>6, VotesFollow
<1>7. ASSUME NEW x, userInfos' = [userInfos EXCEPT ![pid][u] = x],
             x.amount - x.pendingWithdrawals = user.amount - user.pendingWithdrawals,
             UNCHANGED voteVars, TokensKept
      PROVE  VotesMatchStakes'
  <2>1. user.amount - user.pendingWithdrawals = user.amount - user.pendingWithdrawals + 0
    BY <1>3
  <2>2. /\ userInfos'[pid][u].amount - userInfos'[pid][u].pendingWithdrawals =
             userInfos[pid][u].amount - userInfos[pid][u].pendingWithdrawals + 0
        /\ \A p \in Pids, v \in Users :
             p # pid \/ v # u => userInfos'[p][v] = userInfos[p][v]
    BY <1>4, <1>7, <2>1 DEF user
  <2> QED BY <1>2, <1>7, <2>2, VotesStay
<1>8. CASE Claim(u, pid)
  <2> DEFINE x == [user EXCEPT !.rewardDebt = cumulativeReward(user, infos[pid])]
  <2>1. /\ userInfos' = [userInfos EXCEPT ![pid][u] = x] \/ UNCHANGED userInfos
        /\ poolInfos' = infos /\ UNCHANGED voteVars
    BY <1>8 DEF Claim, user
  <2>2. x.amount = user.amount /\ x.pendingWithdrawals = user.pendingWithdrawals
    BY <1>1 DEF UserInfo
  <2>3. TokensKept
    BY <1>2, <2>1, UpdateKeepsTokens
  <2> HIDE DEF x
  <2>4. CASE UNCHANGED userInfos
    BY <2>1, <2>3, <2>4, VotesStay
  <2>5. CASE userInfos' = [userInfos EXCEPT ![pid][u] = x]
    BY <2>1, <2>2, <2>3, <2>5, <1>7
  <2> QED BY <2>1, <2>4, <2>5
<1>9. CASE ExecuteWithdrawal(u, pid)
  <2> DEFINE amount == requestedAmount(unlocked(withdrawalRequests[pid][u]), TRUE)
             x == withdrawn(user, amount)
  <2>1. /\ userInfos' = [userInfos EXCEPT ![pid][u] = x]
        /\ UNCHANGED <<poolVars, voteVars>>
    BY <1>9 DEF ExecuteWithdrawal, user
  <2>2. amount \in Nat
    BY <1>1, PoppedRequests, CountedType DEF Inv, StakesInv
  <2> HIDE DEF amount
  <2>3. x.amount = user.amount - amount
        /\ x.pendingWithdrawals = user.pendingWithdrawals - amount
    BY <1>1 DEF withdrawn, UserInfo
  <2> HIDE DEF x
  <2>4. x.amount - x.pendingWithdrawals = user.amount - user.pendingWithdrawals
    BY <1>3, <2>2, <2>3
  <2>5. TokensKept
    BY <2>1 DEF TokensKept, poolVars
  <2> QED BY <2>1, <2>4, <2>5, <1>7
<1>10. CASE ExecuteLegacyWithdrawal(u, pid)
  <2> DEFINE amount == requestedAmount(unlocked(withdrawalRequests[pid][u]), FALSE)
             debt == ((user.amount - amount) * infos[pid].accRewardPerShare) \div accScale
             x == [withdrawn(user, amount) EXCEPT !.rewardDebt = debt]
  <2>1. /\ userInfos' = [userInfos EXCEPT ![pid][u] = x]
        /\ UNCHANGED voteVars /\ poolInfos' = infos
    BY <1>10 DEF ExecuteLegacyWithdrawal, user
  <2>2. amount \in Nat
    BY <1>1, PoppedRequests, CountedType DEF Inv, StakesInv
  <2> HIDE DEF amount, debt
  <2>3. x.amount = user.amount - amount
        /\ x.pendingWithdrawals = user.pendingWithdrawals - amount
    BY <1>1 DEF withdrawn, UserInfo
  <2> HIDE DEF x
  <2>4. x.amount - x.pendingWithdrawals = user.amount - user.pendingWithdrawals
    BY <1>3, <2>2, <2>3
  <2>5. TokensKept
    BY <1>2, <2>1, UpdateKeepsTokens
  <2> QED BY <2>1, <2>4, <2>5, <1>7
<1> QED BY <1>5, <1>6, <1>8, <1>9, <1>10

\* The first pool of some: the smallest of some numbers.
LEMMA MinOf ==
  ASSUME NEW S, S \subseteq Nat, S # {}
  PROVE  Min(S) \in S
<1>1. PICK m \in S : \A i \in S : m <= i
  BY LeastNatural
<1> QED BY <1>1 DEF Min

\* A delegation and the votes.
LEMMA DelegationVotes ==
  ASSUME Inv, Inv', VotesMatchStakes, NEW u \in Users, NEW e \in Users \cup {ZeroAddress},
         Delegate(u, e)
  PROVE  VotesMatchStakes'
<1> SUFFICES ASSUME NEW d \in Users
             PROVE  getCurrentVotes(checkpoints'[d]) = Total(power(d)')
  BY DEF VotesMatchStakes, power, Stakings
<1> DEFINE src == delegates[u]
           n == getStakeAmount(u)
           votes == getCurrentVotes(checkpoints[d])
           f == power(d)
           g == power(d)'
           staking == {pid \in DOMAIN poolInfos : poolInfos[pid].token = xvs}
           votesMoved == (IF e = d THEN n ELSE 0) - (IF src = d THEN n ELSE 0)
<1>1. /\ canMoveDelegates(src, e, n) /\ delegates' = [delegates EXCEPT ![u] = e]
      /\ checkpoints' = moveDelegates(src, e, n)
      /\ UNCHANGED <<poolVars, stakeVars>>
  BY DEF Delegate
<1>2. /\ votes = Total(f) /\ Total(f) \in Nat /\ IsFiniteSet(Stakings)
      /\ f \in [Stakings -> Nat]
  BY PowerType DEF VotesMatchStakes, power, Stakings
<1>3. /\ n \in Nat /\ src \in Users \cup {ZeroAddress}
      /\ delegates \in [Users -> Users \cup {ZeroAddress}]
  BY VotingStake DEF Inv, VotesInv
<1>4. getCurrentVotes(checkpoints'[d]) =
        votes - (IF src = d THEN n ELSE 0) + (IF e = d THEN n ELSE 0)
  <2>1. getCurrentVotes(moveDelegates(src, e, n)[d]) =
          votes - (IF src = d THEN n ELSE 0) + (IF e = d THEN n ELSE 0)
    BY <1>1, <1>3, CurrentMoved
  <2>2. checkpoints'[d] = moveDelegates(src, e, n)[d]
    BY <1>1, Zenon
  <2> QED BY <2>1, <2>2, Zenon
<1>5. /\ poolInfos' = poolInfos /\ userInfos' = userInfos /\ Stakings' = Stakings
      /\ delegates'[u] = e /\ \A v \in Users : v # u => delegates'[v] = delegates[v]
  BY <1>1, <1>3 DEF poolVars, stakeVars, Stakings
<1>6. \A s \in Stakings : s[1] \in DOMAIN poolInfos /\ s[2] \in Users /\ s = <<s[1], s[2]>>
  BY DEF Stakings
<1>7. /\ f = [s \in Stakings |-> f[s]] /\ g = [s \in Stakings |-> g[s]]
  BY <1>5 DEF power
<1>8. CASE staking = {}
  <2>1. n = 0
    BY <1>8 DEF getStakeAmount
  <2>2. \A s \in Stakings : f[s] = 0 /\ g[s] = 0
    BY <1>5, <1>6, <1>8 DEF power
  <2>3. f = g
    <3> HIDE DEF f, g
    <3> QED BY <1>7, <2>2
  <2>4. votes - (IF src = d THEN n ELSE 0) + (IF e = d THEN n ELSE 0) = votes
    <3> HIDE DEF n, votes, f
    <3> QED BY <1>2, <2>1
  <2> QED BY <1>2, <1>4, <2>3, <2>4
<1>9. CASE staking # {}
  <2> DEFINE p == Min(staking)
             s0 == <<p, u>>
             old == IF src = d THEN n ELSE 0
             new == IF e = d THEN n ELSE 0
  <2>1. p \in DOMAIN poolInfos /\ poolInfos[p].token = xvs
    <3>1. staking \subseteq Nat
      BY PoolFacts DEF Inv, Pids
    <3>2. p \in staking
      <4> HIDE DEF staking
      <4> QED BY <3>1, <1>9, MinOf
    <3> HIDE DEF p
    <3> QED BY <3>2
  <2>2. n = userInfos[p][u].amount - userInfos[p][u].pendingWithdrawals
    BY <1>9 DEF getStakeAmount
  <2> HIDE DEF p, staking
  <2>3. s0 \in Stakings /\ s0[1] = p /\ s0[2] = u
    BY <2>1 DEF Stakings
  <2>4. f[s0] = old
    BY <2>1, <2>2, <2>3 DEF power
  <2>5. g[s0] = new
    BY <2>1, <2>2, <2>3, <1>5 DEF power
  <2>6. ASSUME NEW s \in Stakings, s # s0 PROVE g[s] = f[s]
    <3>1. CASE s[2] # u
      <4>1. delegates'[s[2]] = delegates[s[2]]
        BY <3>1, <1>5, <1>6
      <4> QED BY <4>1, <1>5 DEF power
    <3>2. CASE s[2] = u
      <4>1. s[1] # p
        BY <3>2, <2>6, <1>6
      <4>2. poolInfos[s[1]].token # xvs
        <5>1. \A i, j \in DOMAIN poolInfos : poolInfos[i].token = poolInfos[j].token => i = j
          BY DEF Inv, PoolsInv
        <5> QED BY <4>1, <5>1, <1>6, <2>1
      <4> QED BY <4>2, <1>5 DEF power
    <3> QED BY <3>1, <3>2
  <2>7. old \in Nat /\ new \in Nat
    BY <1>3
  <2> HIDE DEF f, g, old, new, s0
  <2>8. g = [f EXCEPT ![s0] = new]
    BY <1>7, <2>3, <2>5, <2>6
  <2> DEFINE D == Stakings
  <2>9. IsFiniteSet(D) /\ f \in [D -> Nat] /\ s0 \in D
    BY <1>2, <2>3
  <2> HIDE DEF D
  <2>10. Total([f EXCEPT ![s0] = new]) = Total(f) - f[s0] + new
    BY <2>7, <2>9, TotalExcept
  <2>11. Total(g) = votes - old + new
    BY <1>2, <2>4, <2>8, <2>10
  <2> QED BY <1>4, <2>11 DEF old, new, g
<1> QED BY <1>8, <1>9

\* A new pool brings no votes yet.
LEMMA AddVotes ==
  ASSUME Inv, Inv', VotesMatchStakes, NEW token, NEW points, NEW rate, NEW period,
         Add(token, points, rate, period)
  PROVE  VotesMatchStakes'
<1> SUFFICES ASSUME NEW d \in Users
             PROVE  getCurrentVotes(checkpoints'[d]) = Total(power(d)')
  BY DEF VotesMatchStakes, power, Stakings
<1> DEFINE mass == massUpdatePools
           k == Len(poolInfos)
           f == power(d)
           g == power(d)'
           pool == [token |-> token, allocPoint |-> points, lastReward |-> now,
                    accRewardPerShare |-> 0, lockPeriod |-> period]
<1>1. /\ poolInfos' = Append(mass, pool) /\ k < MaxPools
      /\ UNCHANGED <<stakeVars, voteVars>>
  BY DEF Add
<1>2. /\ mass \in Seq(PoolInfo) /\ DOMAIN mass = DOMAIN poolInfos
      /\ \A i \in DOMAIN poolInfos : mass[i].token = poolInfos[i].token
      /\ k \in Nat /\ DOMAIN poolInfos = 1 .. k /\ MaxPools \in Nat
  BY MassUpdated, PoolFacts, XVSVaultAssumption DEF Inv
<1> HIDE DEF mass
<1>3. /\ DOMAIN poolInfos' = 1 .. k + 1
      /\ \A i \in DOMAIN poolInfos : poolInfos'[i].token = poolInfos[i].token
      /\ DOMAIN poolInfos \subseteq DOMAIN poolInfos'
      /\ DOMAIN poolInfos' \ DOMAIN poolInfos = {k + 1}
      /\ k + 1 \in Pids \ DOMAIN poolInfos
  <2>1. Len(mass) = k
    BY <1>2
  <2>2. /\ DOMAIN poolInfos' = 1 .. k + 1 /\ \A i \in 1 .. k : poolInfos'[i] = mass[i]
    BY <1>1, <1>2, <2>1
  <2>3. k + 1 \in Pids \ DOMAIN poolInfos
    BY <1>1, <1>2 DEF Pids
  <2> QED BY <1>2, <2>2, <2>3
<1>4. /\ userInfos' = userInfos /\ delegates' = delegates /\ checkpoints' = checkpoints
  BY <1>1 DEF stakeVars, voteVars
<1>5. Stakings \subseteq Stakings'
  BY <1>3 DEF Stakings
<1>6. \A s \in Stakings : g[s] = f[s]
  <2>1. \A s \in Stakings : s[1] \in DOMAIN poolInfos
    BY DEF Stakings
  <2> QED BY <2>1, <1>3, <1>4, <1>5 DEF power
<1>7. \A s \in Stakings' \ Stakings : g[s] = 0
  <2> TAKE s \in Stakings' \ Stakings
  <2>1. s[1] \in DOMAIN poolInfos' /\ s[2] \in Users /\ s = <<s[1], s[2]>>
    BY DEF Stakings
  <2>2. s[1] = k + 1
    <3>1. s[1] \notin DOMAIN poolInfos
      BY <2>1 DEF Stakings
    <3> QED BY <2>1, <3>1, <1>3
  <2> DEFINE user == userInfos[k + 1][s[2]]
  <2>3. user.amount = 0 /\ user.amount - user.pendingWithdrawals = 0
    <3>1. user.amount = 0
      BY <1>3, <2>1 DEF Inv, BackedInv
    <3>2. user \in UserInfo /\ user.pendingWithdrawals <= user.amount
      BY <1>3, <2>1, Zenon DEF Inv, StakesInv, UserOK
    <3> HIDE DEF user
    <3>3. user.pendingWithdrawals \in Nat
      BY <3>2 DEF UserInfo
    <3> QED BY <3>1, <3>2, <3>3
  <2> QED BY <2>2, <2>3, <1>4 DEF power
<1>8. /\ f \in [Stakings -> Nat] /\ IsFiniteSet(Stakings)
      /\ getCurrentVotes(checkpoints[d]) = Total(f)
  BY PowerType DEF VotesMatchStakes, power, Stakings
<1>9. g \in [Stakings' -> Nat] /\ IsFiniteSet(Stakings')
  <2>1. g = [s \in Stakings' |-> g[s]]
    BY DEF power
  <2>2. \A s \in Stakings' : g[s] \in Nat
    <3> HIDE DEF f, g
    <3> QED BY <1>6, <1>7, <1>8
  <2>3. IsFiniteSet(Stakings')
    <3> DEFINE D == DOMAIN poolInfos'
    <3>1. IsFiniteSet(D)
      <4>1. k + 1 \in Int
        BY <1>2
      <4> QED BY <4>1, <1>3, FS_Interval
    <3>2. IsFiniteSet(Users)
      BY XVSVaultAssumption
    <3> HIDE DEF D
    <3>3. IsFiniteSet(D \X Users)
      BY <3>1, <3>2, FS_Product
    <3> QED BY <3>3 DEF Stakings, D
  <2> HIDE DEF g
  <2> QED BY <2>1, <2>2, <2>3
<1>10. Total(g) = Total(f)
  <2> DEFINE C == Stakings'
             D == Stakings
  <2>1. /\ IsFiniteSet(C) /\ g \in [C -> Nat] /\ f \in [D -> Nat] /\ D \subseteq C
        /\ (\A s \in D : g[s] = f[s]) /\ \A s \in C \ D : g[s] = 0
    BY <1>5, <1>6, <1>7, <1>8, <1>9
  <2> HIDE DEF C, D, f, g
  <2> QED BY <2>1, TotalExtend
<1> QED BY <1>4, <1>8, <1>10

\* Every step keeps the votes equal to the stakes behind them.
LEMMA NextVotes ==
  ASSUME Inv, Inv', VotesMatchStakes, [Next]_vars
  PROVE  VotesMatchStakes'
<1>1. CASE StakerStep
  BY <1>1, StakersVote
<1>2. CASE VoterStep
  BY <1>2, DelegationVotes DEF VoterStep
<1>3. ASSUME TokensKept, UNCHANGED voteVars, UNCHANGED userInfos PROVE VotesMatchStakes'
  BY <1>3, VotesStay
<1>4. CASE GovernanceStep
  <2>1. ASSUME NEW pid \in Pids, UpdatePool(pid) PROVE VotesMatchStakes'
    <3>1. pid \in DOMAIN poolInfos /\ poolInfos' = updatePool(poolInfos, pid)
          /\ UNCHANGED <<voteVars, userInfos>>
      BY <2>1 DEF UpdatePool, validPool, stakeVars
    <3> QED BY <1>3, <3>1, UpdateKeepsTokens
  <2>2. ASSUME NEW pid \in Pids, NEW points \in AllocPoints, SetAllocPoint(pid, points)
        PROVE  VotesMatchStakes'
    <3> DEFINE mass == massUpdatePools
    <3>1. /\ poolInfos' = [mass EXCEPT ![pid].allocPoint = points]
          /\ UNCHANGED <<voteVars, userInfos>>
      BY <2>2 DEF SetAllocPoint, stakeVars
    <3>2. /\ mass \in Seq(PoolInfo) /\ DOMAIN mass = DOMAIN poolInfos
          /\ \A i \in DOMAIN poolInfos : mass[i].token = poolInfos[i].token
      BY MassUpdated
    <3> HIDE DEF mass
    <3>3. TokensKept
      <4>1. DOMAIN poolInfos' = DOMAIN poolInfos
        BY <3>1, <3>2
      <4>2. ASSUME NEW p \in DOMAIN poolInfos PROVE poolInfos'[p].token = poolInfos[p].token
        <5>1. mass[p] \in PoolInfo
          BY <3>2
        <5>2. CASE p = pid
          <6>1. poolInfos'[p] = [mass[p] EXCEPT !.allocPoint = points]
            BY <3>1, <3>2, <5>2
          <6> QED BY <5>1, <6>1, <3>2 DEF PoolInfo
        <5>3. CASE p # pid
          BY <3>1, <3>2, <5>3
        <5> QED BY <5>2, <5>3
      <4> QED BY <4>1, <4>2 DEF TokensKept
    <3> QED BY <1>3, <3>1, <3>3
  <2>3. ASSUME NEW pid \in Pids, NEW period \in LockPeriods,
               SetWithdrawalLockingPeriod(pid, period)
        PROVE  VotesMatchStakes'
    <3>1. /\ poolInfos' = [poolInfos EXCEPT ![pid].lockPeriod = period]
          /\ UNCHANGED <<voteVars, userInfos>>
      BY <2>3 DEF SetWithdrawalLockingPeriod, stakeVars
    <3>2. \A p \in DOMAIN poolInfos : poolInfos[p] \in PoolInfo
      BY PoolFacts DEF Inv
    <3>3. TokensKept
      <4>1. DOMAIN poolInfos' = DOMAIN poolInfos
        BY <3>1
      <4>2. ASSUME NEW p \in DOMAIN poolInfos PROVE poolInfos'[p].token = poolInfos[p].token
        <5>1. CASE p = pid
          <6>1. poolInfos'[p] = [poolInfos[p] EXCEPT !.lockPeriod = period]
            BY <3>1, <5>1
          <6> QED BY <3>2, <6>1 DEF PoolInfo
        <5>2. CASE p # pid
          BY <3>1, <5>2
        <5> QED BY <5>1, <5>2
      <4> QED BY <4>1, <4>2 DEF TokensKept
    <3> QED BY <1>3, <3>1, <3>3
  <2>4. ASSUME NEW rate \in RewardRates, SetRewardRate(rate) PROVE VotesMatchStakes'
    <3>1. /\ poolInfos' = massUpdatePools /\ UNCHANGED <<voteVars, userInfos>>
      BY <2>4 DEF SetRewardRate, stakeVars
    <3>2. TokensKept
      BY <3>1, MassUpdated DEF TokensKept
    <3> QED BY <1>3, <3>1, <3>2
  <2>5. ASSUME NEW rate \in RewardRates, NEW t \in Tokens, NEW points \in AllocPoints,
               NEW period \in LockPeriods, Add(t, points, rate, period)
        PROVE  VotesMatchStakes'
    BY <2>5, AddVotes
  <2>6. CASE PauseOrResume
    BY <2>6, <1>3 DEF PauseOrResume, poolVars, stakeVars, TokensKept
  <2> QED BY <1>4, <2>1, <2>2, <2>3, <2>4, <2>5, <2>6 DEF GovernanceStep
<1>5. CASE EnvironmentStep
  BY <1>3, <1>5 DEF EnvironmentStep, Tick, FundStore, Donate, poolVars, stakeVars, TokensKept
<1>6. CASE UNCHANGED vars
  BY <1>3, <1>6 DEF vars, poolVars, stakeVars, TokensKept
<1> QED BY <1>1, <1>2, <1>4, <1>5, <1>6 DEF Next

\* At the start nobody has delegated.
LEMMA InitVotes ==
  ASSUME Init
  PROVE  VotesMatchStakes
<1>1. /\ delegates = [u \in Users |-> ZeroAddress] /\ checkpoints = [u \in Users |-> <<>>]
  BY DEF Init, InitWith
<1>2. ASSUME NEW d \in Users PROVE getCurrentVotes(checkpoints[d]) = Total(power(d))
  <2>1. getCurrentVotes(checkpoints[d]) = 0
    BY <1>1 DEF getCurrentVotes
  <2>2. power(d) \in [Stakings -> Nat] /\ \A s \in Stakings : power(d)[s] = 0
    <3>1. \A s \in Stakings : s[2] \in Users
      BY DEF Stakings
    <3>2. d # ZeroAddress
      BY XVSVaultAssumption
    <3>3. \A s \in Stakings : power(d)[s] = 0
      BY <1>1, <3>1, <3>2 DEF power
    <3>4. power(d) = [s \in Stakings |-> power(d)[s]]
      BY DEF power
    <3> DEFINE f == power(d)
    <3> HIDE DEF f
    <3>5. f \in [Stakings -> Nat]
      BY <3>3, <3>4 DEF f
    <3> QED BY <3>3, <3>5 DEF f
  <2>3. Total(power(d)) = 0
    BY <2>2, TotalZero
  <2> QED BY <2>1, <2>3
<1> QED BY <1>2 DEF VotesMatchStakes, power, Stakings

\* However stakes, requests and delegations interleave, the current votes of a
\* delegatee are the stakes of those who delegate to it, without what they have
\* asked to withdraw.
THEOREM VotesAlwaysMatch == Spec => []VotesMatchStakes
<1>1. Init => VotesMatchStakes
  BY InitVotes
<1>2. Inv /\ Inv' /\ VotesMatchStakes /\ [Next]_vars => VotesMatchStakes'
  BY NextVotes
<1> QED BY <1>1, <1>2, Invariant, PTL DEF Spec

-----------------------------------------------------------------------------
(* The votes of the past. *)

\* The last checkpoint after l and up to u that is not after a time, or l.
lastUpTo(list, time, l, u) == Max({l} \cup {i \in l + 1 .. u : list[i].from <= time})

IsLast(list, time, l, u, m) ==
  /\ m \in DOMAIN list /\ l <= m
  /\ m = l \/ (m <= u /\ list[m].from <= time)
  /\ \A i \in l + 1 .. u : list[i].from <= time => i <= m

\* There is one such checkpoint, and lastUpTo is it.
LEMMA LastUnique ==
  ASSUME NEW list \in Seq(Checkpoint), NEW time \in Nat,
         NEW l \in DOMAIN list, NEW u \in DOMAIN list
  PROVE  /\ IsLast(list, time, l, u, lastUpTo(list, time, l, u))
         /\ \A k : IsLast(list, time, l, u, k) => k = lastUpTo(list, time, l, u)
<1> DEFINE S == {l} \cup {i \in l + 1 .. u : list[i].from <= time}
           n == Len(list)
           m == lastUpTo(list, time, l, u)
<1>1. n \in Nat /\ DOMAIN list = 1 .. n
  OBVIOUS
<1>2. S \subseteq 0 .. n /\ S # {}
  BY <1>1
<1>3. m \in S /\ \A k \in S : k <= m
  <2> HIDE DEF S
  <2>1. Max(S) \in S /\ \A k \in S : k <= Max(S)
    BY <1>1, <1>2, MaxOf
  <2> QED BY <2>1 DEF lastUpTo, S
<1> HIDE DEF m
<1>4. IsLast(list, time, l, u, m)
  BY <1>1, <1>3 DEF IsLast
<1>5. ASSUME NEW k, IsLast(list, time, l, u, k) PROVE k = m
  <2>1. k \in 1 .. n /\ m \in 1 .. n /\ l \in 1 .. n
    BY <1>1, <1>4, <1>5 DEF IsLast
  <2>2. k \in S
    BY <1>1, <1>5, <2>1 DEF IsLast
  <2>3. k <= m
    BY <1>3, <2>2
  <2>4. m <= k
    BY <1>1, <1>4, <1>5, <2>1 DEF IsLast
  <2> QED BY <2>1, <2>3, <2>4
<1> QED BY <1>4, <1>5 DEF m

Mid(l, u) == u - (u - l) \div 2

\* The middle of a search is after its lower end.
LEMMA MidBetween ==
  ASSUME NEW l \in Nat, NEW u \in Nat, l < u
  PROVE  /\ Mid(l, u) \in l + 1 .. u /\ Mid(l, u) - 1 \in l .. u
         /\ u - Mid(l, u) < u - l
<1> DEFINE h == (u - l) \div 2
<1>1. u - l \in Nat /\ 2 \in Nat \ {0}
  OBVIOUS
<1>2. h \in Nat /\ h * 2 <= u - l
  BY <1>1, DivBounds
<1>3. Mid(l, u) = u - h
  BY DEF Mid
<1> HIDE DEF h
<1> QED BY <1>2, <1>3

\* One step of the search keeps the checkpoint that is looked for.
LEMMA SearchStep ==
  ASSUME NEW list \in Seq(Checkpoint), Ordered(list), NEW time \in Nat,
         NEW l \in DOMAIN list, NEW u \in DOMAIN list
  PROVE  /\ u <= l => lastUpTo(list, time, l, u) = l
         /\ u > l =>
              /\ Mid(l, u) \in DOMAIN list /\ Mid(l, u) - 1 \in DOMAIN list
              /\ list[Mid(l, u)].from = time => lastUpTo(list, time, l, u) = Mid(l, u)
              /\ list[Mid(l, u)].from < time =>
                   lastUpTo(list, time, l, u) = lastUpTo(list, time, Mid(l, u), u)
              /\ list[Mid(l, u)].from > time =>
                   lastUpTo(list, time, l, u) = lastUpTo(list, time, l, Mid(l, u) - 1)
<1> DEFINE n == Len(list)
           c == Mid(l, u)
<1>1. n \in Nat /\ DOMAIN list = 1 .. n /\ l \in 1 .. n /\ u \in 1 .. n
  OBVIOUS
<1>2. \A i \in 1 .. n : list[i].from \in Nat
  <2>1. \A i \in 1 .. n : list[i] \in Checkpoint
    BY <1>1
  <2> QED BY <2>1 DEF Checkpoint
<1>3. \A i, j \in 1 .. n : i < j => list[i].from < list[j].from
  BY <1>1 DEF Ordered
<1>4. ASSUME u <= l PROVE lastUpTo(list, time, l, u) = l
  <2>1. IsLast(list, time, l, u, l)
    BY <1>1, <1>4 DEF IsLast
  <2> QED BY <2>1, LastUnique
<1>5. ASSUME u > l
      PROVE  /\ c \in 1 .. n /\ c - 1 \in 1 .. n
             /\ list[c].from = time => lastUpTo(list, time, l, u) = c
             /\ list[c].from < time =>
                  lastUpTo(list, time, l, u) = lastUpTo(list, time, c, u)
             /\ list[c].from > time =>
                  lastUpTo(list, time, l, u) = lastUpTo(list, time, l, c - 1)
  <2>1. c \in l + 1 .. u /\ c - 1 \in l .. u
    BY <1>1, <1>5, MidBetween
  <2> HIDE DEF c, n
  <2>2. c \in 1 .. n /\ c - 1 \in 1 .. n /\ l < c /\ c <= u
    BY <1>1, <2>1
  <2>3. ASSUME list[c].from = time PROVE lastUpTo(list, time, l, u) = c
    <3>1. ASSUME NEW i \in l + 1 .. u, list[i].from <= time PROVE i <= c
      <4>1. i \in 1 .. n
        BY <1>1
      <4>2. ~(c < i)
        <5> SUFFICES ASSUME c < i PROVE FALSE
          OBVIOUS
        <5>1. list[c].from < list[i].from
          BY <1>3, <2>2, <4>1
        <5>2. list[c].from \in Nat /\ list[i].from \in Nat
          BY <1>2, <2>2, <4>1
        <5> QED BY <2>3, <3>1, <5>1, <5>2
      <4> QED BY <2>2, <4>1, <4>2
    <3>2. IsLast(list, time, l, u, c)
      BY <1>1, <1>2, <2>2, <2>3, <3>1 DEF IsLast
    <3> QED BY <3>2, LastUnique
  <2>4. ASSUME list[c].from < time
        PROVE  lastUpTo(list, time, l, u) = lastUpTo(list, time, c, u)
    <3> DEFINE m == lastUpTo(list, time, c, u)
    <3>1. IsLast(list, time, c, u, m)
      BY <1>1, <2>2, LastUnique
    <3> HIDE DEF m
    <3>2. /\ m \in 1 .. n /\ c <= m /\ (m = c \/ (m <= u /\ list[m].from <= time))
          /\ \A i \in c + 1 .. u : list[i].from <= time => i <= m
      BY <1>1, <3>1 DEF IsLast
    <3>3. m <= u /\ list[m].from <= time
      BY <1>2, <2>2, <2>4, <3>2
    <3>4. ASSUME NEW i \in l + 1 .. u, list[i].from <= time PROVE i <= m
      <4>1. CASE i <= c
        BY <1>1, <2>2, <3>2, <4>1
      <4>2. CASE i > c
        <5>1. i \in c + 1 .. u
          BY <1>1, <2>2, <4>2
        <5> QED BY <3>2, <3>4, <5>1
      <4> QED BY <4>1, <4>2, <1>1, <2>2
    <3>5. IsLast(list, time, l, u, m)
      BY <1>1, <2>2, <3>2, <3>3, <3>4 DEF IsLast
    <3> QED BY <3>5, LastUnique DEF m
  <2>5. ASSUME list[c].from > time
        PROVE  lastUpTo(list, time, l, u) = lastUpTo(list, time, l, c - 1)
    <3> DEFINE b == c - 1
               m == lastUpTo(list, time, l, b)
    <3>0. b \in 1 .. n /\ b < c /\ b <= u /\ \A i \in Int : i < c => i <= b
      BY <1>1, <2>2
    <3> HIDE DEF b
    <3>1. IsLast(list, time, l, b, m)
      BY <1>1, <3>0, LastUnique
    <3> HIDE DEF m
    <3>2. /\ m \in 1 .. n /\ l <= m /\ (m = l \/ (m <= b /\ list[m].from <= time))
          /\ \A i \in l + 1 .. b : list[i].from <= time => i <= m
      BY <1>1, <3>1 DEF IsLast
    <3>3. m = l \/ (m <= u /\ list[m].from <= time)
      BY <1>1, <3>0, <3>2
    <3>4. ASSUME NEW i \in l + 1 .. u, list[i].from <= time PROVE i <= m
      <4>0. i \in 1 .. n /\ i # c
        BY <1>1, <1>2, <2>2, <2>5, <3>4
      <4>1. ~(c < i)
        <5> SUFFICES ASSUME c < i PROVE FALSE
          OBVIOUS
        <5>1. list[c].from < list[i].from
          BY <1>3, <2>2, <4>0
        <5>2. list[c].from \in Nat /\ list[i].from \in Nat
          BY <1>2, <2>2, <4>0
        <5> DEFINE x == list[c].from
                   y == list[i].from
        <5>3. x < y /\ x \in Nat /\ y \in Nat /\ x > time /\ y <= time /\ time \in Nat
          BY <2>5, <3>4, <5>1, <5>2
        <5> HIDE DEF x, y
        <5> QED BY <5>3
      <4>2. i < c
        BY <2>2, <4>0, <4>1
      <4>3. i \in l + 1 .. b
        BY <1>1, <3>0, <4>2
      <4> QED BY <3>2, <3>4, <4>3
    <3>5. IsLast(list, time, l, u, m)
      BY <1>1, <3>2, <3>3, <3>4 DEF IsLast
    <3> QED BY <3>5, LastUnique DEF m, b
  <2> QED BY <2>2, <2>3, <2>4, <2>5
<1> QED BY <1>1, <1>4, <1>5

\* One step of the search, with f for the rest of it.
Looked(list, time, f) ==
  [places \in (DOMAIN list) \X (DOMAIN list) |->
     IF places[2] <= places[1] THEN list[places[1]].votes
     ELSE IF list[Mid(places[1], places[2])].from = time
       THEN list[Mid(places[1], places[2])].votes
     ELSE IF list[Mid(places[1], places[2])].from < time
       THEN f[<<Mid(places[1], places[2]), places[2]>>]
     ELSE f[<<places[1], Mid(places[1], places[2]) - 1>>]]

\* What the search finds, as a function of its bounds.
found(list, time) ==
  [places \in (DOMAIN list) \X (DOMAIN list) |->
     list[lastUpTo(list, time, places[1], places[2])].votes]

\* It satisfies the equation of the search.
LEMMA FoundLooked ==
  ASSUME NEW list \in Seq(Checkpoint), Ordered(list), NEW time \in Nat
  PROVE  found(list, time) = Looked(list, time, found(list, time))
<1> DEFINE D == DOMAIN list
           f == found(list, time)
           g == Looked(list, time, f)
<1>1. \A l, u \in D : f[<<l, u>>] = list[lastUpTo(list, time, l, u)].votes
  BY DEF found
<1>2. ASSUME NEW l \in D, NEW u \in D PROVE f[<<l, u>>] = g[<<l, u>>]
  <2>0. g[<<l, u>>] =
           IF u <= l THEN list[l].votes
           ELSE IF list[Mid(l, u)].from = time THEN list[Mid(l, u)].votes
           ELSE IF list[Mid(l, u)].from < time THEN f[<<Mid(l, u), u>>]
           ELSE f[<<l, Mid(l, u) - 1>>]
    <3> HIDE DEF f
    <3> QED BY DEF Looked
  <2> HIDE DEF f, g
  <2>1. CASE u <= l
    BY <2>0, <2>1, <1>1, SearchStep
  <2>2. CASE ~(u <= l)
    <3> DEFINE c == Mid(l, u)
    <3>0. u > l
      <4>1. l \in Nat /\ u \in Nat
        OBVIOUS
      <4> QED BY <4>1, <2>2
    <3>1. /\ c \in D /\ c - 1 \in D
          /\ list[c].from = time => lastUpTo(list, time, l, u) = c
          /\ list[c].from < time =>
               lastUpTo(list, time, l, u) = lastUpTo(list, time, c, u)
          /\ list[c].from > time =>
               lastUpTo(list, time, l, u) = lastUpTo(list, time, l, c - 1)
      BY <3>0, SearchStep
    <3>2. list[c].from \in Nat
      <4>1. list[c] \in Checkpoint
        BY <3>1
      <4> QED BY <4>1 DEF Checkpoint
    <3> HIDE DEF c, D
    <3>3. CASE list[c].from = time
      BY <2>0, <2>2, <3>1, <3>3, <1>1 DEF c
    <3>4. CASE list[c].from < time
      <4>1. list[c].from # time
        BY <3>2, <3>4
      <4> QED BY <2>0, <2>2, <3>1, <3>4, <4>1, <1>1 DEF c
    <3>5. CASE list[c].from > time
      <4>1. list[c].from # time /\ ~(list[c].from < time)
        BY <3>2, <3>5
      <4> QED BY <2>0, <2>2, <3>1, <3>5, <4>1, <1>1 DEF c
    <3> QED BY <3>2, <3>3, <3>4, <3>5
  <2> QED BY <2>1, <2>2
<1>3. f = [s \in D \X D |-> f[s]] /\ g = [s \in D \X D |-> g[s]]
  BY DEF found, Looked
<1>4. \A s \in D \X D : f[s] = g[s]
  <2> TAKE s \in D \X D
  <2>1. PICK l \in D, u \in D : s = <<l, u>>
    OBVIOUS
  <2> HIDE DEF f, g
  <2> QED BY <1>2, <2>1
<1> HIDE DEF f, g
<1>5. f = g
  BY <1>3, <1>4
<1> QED BY <1>5 DEF f, g

\* Only one function does.
Solves(list, time, h) == h = Looked(list, time, h)

\* Whatever solves the recursion of the binary search finds the same checkpoint.
LEMMA LookedUnique ==
  ASSUME NEW list \in Seq(Checkpoint), Ordered(list), NEW time \in Nat,
         NEW h, Solves(list, time, h)
  PROVE  \A l, u \in DOMAIN list : h[<<l, u>>] = found(list, time)[<<l, u>>]
<1> DEFINE D == DOMAIN list
           f == found(list, time)
           size(l, u) == IF u <= l THEN 0 ELSE u - l
           Wrong == {k \in Nat : \E l, u \in D : size(l, u) = k /\ h[<<l, u>>] # f[<<l, u>>]}
<1>0. D \subseteq Nat /\ D = 1 .. Len(list)
  OBVIOUS
<1>1. \A l, u \in D : size(l, u) \in Nat
  BY <1>0
<1>2. \A l, u \in D : Looked(list, time, h)[<<l, u>>] =
           IF u <= l THEN list[l].votes
           ELSE IF list[Mid(l, u)].from = time THEN list[Mid(l, u)].votes
           ELSE IF list[Mid(l, u)].from < time THEN h[<<Mid(l, u), u>>]
           ELSE h[<<l, Mid(l, u) - 1>>]
  BY DEF Looked
<1>3. \A l, u \in D : Looked(list, time, f)[<<l, u>>] =
           IF u <= l THEN list[l].votes
           ELSE IF list[Mid(l, u)].from = time THEN list[Mid(l, u)].votes
           ELSE IF list[Mid(l, u)].from < time THEN f[<<Mid(l, u), u>>]
           ELSE f[<<l, Mid(l, u) - 1>>]
  <2> HIDE DEF f
  <2> QED BY DEF Looked
<1>4. f = Looked(list, time, f)
  BY FoundLooked
<1> HIDE DEF f
<1>5. ASSUME Wrong # {} PROVE FALSE
  <2>1. PICK k \in Wrong : \A j \in Wrong : k <= j
    <3>1. Wrong \subseteq Nat
      OBVIOUS
    <3> HIDE DEF Wrong
    <3> QED BY <1>5, <3>1, LeastNatural
  <2>2. PICK l \in D, u \in D : size(l, u) = k /\ h[<<l, u>>] # f[<<l, u>>]
    OBVIOUS
  <2>3. ASSUME NEW l2 \in D, NEW u2 \in D, size(l2, u2) < size(l, u)
        PROVE  h[<<l2, u2>>] = f[<<l2, u2>>]
    <3>1. size(l2, u2) \in Nat /\ size(l, u) \in Nat
      BY <1>1
    <3> HIDE DEF size
    <3>2. size(l2, u2) \notin Wrong
      <4> HIDE DEF Wrong
      <4> QED BY <2>1, <2>2, <2>3, <3>1
    <3> QED BY <3>1, <3>2
  <2>4. CASE u <= l
    <3>1. h[<<l, u>>] = list[l].votes
      BY <1>2, <2>4 DEF Solves
    <3>2. f[<<l, u>>] = list[l].votes
      BY <1>3, <1>4, <2>4
    <3> QED BY <2>2, <3>1, <3>2
  <2>5. CASE ~(u <= l)
    <3> DEFINE c == Mid(l, u)
    <3>0. l \in Nat /\ u \in Nat /\ l < u
      BY <1>0, <2>5
    <3>1. c \in l + 1 .. u /\ c - 1 \in l .. u /\ u - c < u - l
      BY <3>0, MidBetween
    <3>2. /\ h[<<l, u>>] = IF list[c].from = time THEN list[c].votes
                           ELSE IF list[c].from < time THEN h[<<c, u>>] ELSE h[<<l, c - 1>>]
          /\ f[<<l, u>>] = IF list[c].from = time THEN list[c].votes
                           ELSE IF list[c].from < time THEN f[<<c, u>>] ELSE f[<<l, c - 1>>]
      BY <1>2, <1>3, <1>4, <2>5 DEF Solves
    <3> HIDE DEF c
    <3>3. c \in D /\ c - 1 \in D
      BY <1>0, <3>0, <3>1
    <3>4. size(c, u) < size(l, u) /\ size(l, c - 1) < size(l, u)
      <4> HIDE DEF D
      <4> QED BY <3>0, <3>1
    <3> HIDE DEF size
    <3>5. h[<<c, u>>] = f[<<c, u>>] /\ h[<<l, c - 1>>] = f[<<l, c - 1>>]
      BY <2>3, <3>3, <3>4
    <3> QED BY <2>2, <3>2, <3>5
  <2> QED BY <2>4, <2>5
<1>6. ASSUME NEW l \in D, NEW u \in D PROVE h[<<l, u>>] = f[<<l, u>>]
  <2>1. size(l, u) \in Nat /\ size(l, u) \notin Wrong
    <3> HIDE DEF Wrong, size
    <3> QED BY <1>1, <1>5
  <2> QED BY <2>1
<1> QED BY <1>6, Zenon DEF f

\* The binary search finds the last checkpoint that is not after the time.
LEMMA SearchFinds ==
  ASSUME NEW list \in Seq(Checkpoint), Ordered(list), NEW time \in Nat, list # <<>>
  PROVE  search(list, time) = list[lastUpTo(list, time, 1, Len(list))].votes
<1> DEFINE h == CHOOSE f : f = Looked(list, time, f)
<1>1. search(list, time) = h[<<1, Len(list)>>]
  BY SMT DEF search, Looked, Mid
<1>2. h = Looked(list, time, h)
  <2>1. \E f : f = Looked(list, time, f)
    BY FoundLooked
  <2> QED BY <2>1
<1> HIDE DEF h
<1>3. 1 \in DOMAIN list /\ Len(list) \in DOMAIN list
  OBVIOUS
<1>4. h[<<1, Len(list)>>] = found(list, time)[<<1, Len(list)>>]
  BY <1>2, <1>3, LookedUnique DEF Solves
<1>5. found(list, time)[<<1, Len(list)>>] = list[lastUpTo(list, time, 1, Len(list))].votes
  BY <1>3 DEF found
<1> QED BY <1>1, <1>4, <1>5

\* The votes of a time, with and without a search.
LEMMA PriorVotes ==
  ASSUME NEW list \in Seq(Checkpoint), Ordered(list), NEW time \in Nat
  PROVE  getPriorVotes(list, time) = votesAt(list, time)
<1> DEFINE n == Len(list)
           written == {i \in DOMAIN list : list[i].from <= time}
<1>1. n \in Nat /\ DOMAIN list = 1 .. n
  OBVIOUS
<1>2. \A i \in 1 .. n : list[i].from \in Nat
  <2>1. \A i \in 1 .. n : list[i] \in Checkpoint
    BY <1>1
  <2> QED BY <2>1 DEF Checkpoint
<1>3. \A i, j \in 1 .. n : i < j => list[i].from < list[j].from
  BY <1>1 DEF Ordered
<1>4. ASSUME NEW k \in written, \A i \in written : i <= k
      PROVE  votesAt(list, time) = list[k].votes
  <2>1. written \subseteq 0 .. n /\ written # {} /\ written \subseteq Nat
    BY <1>1, <1>4
  <2>2. Max(written) \in written /\ \A i \in written : i <= Max(written)
    <3> HIDE DEF written, n
    <3> QED BY <1>1, <2>1, MaxOf
  <2>3. k = Max(written)
    <3>1. k \in Nat /\ Max(written) \in Nat
      BY <2>1, <2>2
    <3>2. k <= Max(written) /\ Max(written) <= k
      BY <1>4, <2>2
    <3> QED BY <3>1, <3>2
  <2> QED BY <2>1, <2>3 DEF votesAt
<1>5. CASE list = <<>> \/ list[1].from > time
  <2>1. written = {}
    <3> SUFFICES ASSUME NEW i \in 1 .. n, list[i].from <= time PROVE FALSE
      BY <1>1
    <3>1. 1 \in 1 .. n /\ list[1].from > time
      BY <1>1, <1>5
    <3>2. list[1].from <= list[i].from
      <4>1. CASE i = 1
        BY <4>1, <3>1, <1>2
      <4>2. CASE 1 < i
        BY <4>2, <3>1, <1>2, <1>3
      <4> QED BY <4>1, <4>2
    <3> QED BY <3>1, <3>2, <1>2
  <2> QED BY <2>1, <1>5 DEF getPriorVotes, votesAt
<1>6. CASE list # <<>> /\ ~(list[1].from > time) /\ list[n].from <= time
  <2>1. n \in written /\ \A i \in written : i <= n
    BY <1>1, <1>6
  <2>2. votesAt(list, time) = list[n].votes
    <3> HIDE DEF n, written
    <3> QED BY <1>4, <2>1
  <2> QED BY <1>6, <2>2 DEF getPriorVotes
<1>7. CASE list # <<>> /\ ~(list[1].from > time) /\ ~(list[n].from <= time)
  <2> DEFINE m == lastUpTo(list, time, 1, n)
  <2>1. search(list, time) = list[m].votes
    BY <1>7, SearchFinds
  <2>2. 1 \in 1 .. n /\ n \in 1 .. n
    BY <1>1, <1>7
  <2>3. IsLast(list, time, 1, n, m)
    BY <1>1, <2>2, LastUnique
  <2> HIDE DEF m
  <2>4. m \in written
    BY <1>1, <1>2, <1>7, <2>2, <2>3 DEF IsLast
  <2>5. \A i \in written : i <= m
    <3> TAKE i \in written
    <3>1. i \in 1 .. n /\ list[i].from <= time /\ 1 <= m /\ m \in 1 .. n
      BY <1>1, <2>3 DEF IsLast
    <3>2. CASE i = 1
      BY <3>1, <3>2
    <3>3. CASE i # 1
      <4>1. i \in 1 + 1 .. n
        BY <3>1, <3>3, <1>1
      <4> QED BY <2>3, <3>1, <4>1 DEF IsLast
    <3> QED BY <3>2, <3>3
  <2>6. votesAt(list, time) = list[m].votes
    <3> HIDE DEF written
    <3> QED BY <1>4, <2>4, <2>5
  <2>7. getPriorVotes(list, time) = search(list, time)
    BY <1>7 DEF getPriorVotes
  <2> QED BY <2>1, <2>6, <2>7
<1> QED BY <1>5, <1>6, <1>7

\* The binary search of the governance proposals is right at all times past,
\* for every list of checkpoints that can come about.
THEOREM PriorVotesAlwaysRight == Spec => []PriorVotesRight
<1>1. ASSUME Inv PROVE PriorVotesRight
  <2> SUFFICES ASSUME NEW d \in Users, NEW time \in 0 .. now - 1
               PROVE  getPriorVotes(checkpoints[d], time) = votesAt(checkpoints[d], time)
    BY DEF PriorVotesRight
  <2>1. checkpoints[d] \in Seq(Checkpoint) /\ Ordered(checkpoints[d])
    BY <1>1 DEF Inv, VotesInv
  <2>2. time \in Nat
    BY <1>1 DEF Inv
  <2> QED BY <2>1, <2>2, PriorVotes
<1> QED BY <1>1, Invariant, PTL

\* A list of checkpoints after a step: what is before now is the same.
PastKept(list, w) ==
  /\ \A i \in DOMAIN list : list[i].from < now => i \in DOMAIN w /\ w[i] = list[i]
  /\ \A i \in DOMAIN w : w[i].from < now => i \in DOMAIN list /\ w[i] = list[i]

\* Then so are the votes of every time before now.
LEMMA PastVotesKept ==
  ASSUME now \in Nat, NEW list \in Seq(Checkpoint), NEW w \in Seq(Checkpoint),
         PastKept(list, w), NEW time \in 0 .. now - 1
  PROVE  votesAt(w, time) = votesAt(list, time)
<1> DEFINE before == {i \in DOMAIN list : list[i].from <= time}
           after == {i \in DOMAIN w : w[i].from <= time}
<1>1. /\ \A i \in DOMAIN list : list[i].from \in Nat
      /\ \A i \in DOMAIN w : w[i].from \in Nat
  <2>1. /\ \A i \in DOMAIN list : list[i] \in Checkpoint
        /\ \A i \in DOMAIN w : w[i] \in Checkpoint
    OBVIOUS
  <2> QED BY <2>1 DEF Checkpoint
<1>2. \A n \in Nat : n <= time => n < now
  OBVIOUS
<1>3. after = before /\ \A i \in before : w[i] = list[i]
  BY <1>1, <1>2 DEF PastKept
<1>4. before \subseteq DOMAIN list /\ DOMAIN list = 1 .. Len(list) /\ Len(list) \in Nat
  OBVIOUS
<1>5. ASSUME before # {} PROVE Max(before) \in before
  <2>1. before \subseteq 0 .. Len(list)
    BY <1>4
  <2> HIDE DEF before
  <2> QED BY <1>4, <1>5, <2>1, MaxOf
<1>6. votesAt(list, time) = IF before = {} THEN 0 ELSE list[Max(before)].votes
  BY DEF votesAt
<1>7. votesAt(w, time) = IF after = {} THEN 0 ELSE w[Max(after)].votes
  BY DEF votesAt
<1> HIDE DEF before, after
<1> QED BY <1>3, <1>5, <1>6, <1>7

\* A move of votes writes no checkpoint of the past.
LEMMA MovePastKept ==
  ASSUME VotesInv, now \in Nat,
         NEW src \in Users \cup {ZeroAddress}, NEW dst \in Users \cup {ZeroAddress},
         NEW n \in Nat, canMoveDelegates(src, dst, n),
         checkpoints' = moveDelegates(src, dst, n), NEW d \in Users
  PROVE  PastKept(checkpoints[d], checkpoints'[d])
<1> DEFINE votes == getCurrentVotes(checkpoints[d])
           list == checkpoints[d]
<1>1. list \in Seq(Checkpoint) /\ Ordered(list) /\ \A i \in DOMAIN list : list[i].from <= now
  BY DEF VotesInv
<1>2. \A m \in Nat : PastKept(list, writeCheckpoint(list, m))
  <2> HIDE DEF list
  <2> QED BY <1>1, CheckpointWritten DEF PastKept
<1>3. votes \in Nat
  BY <1>1, VotesNatural
<1>4. CASE src = dst \/ n = 0 \/ d \notin {src, dst}
  <2>1. checkpoints'[d] = list
    BY <1>4 DEF moveDelegates
  <2> HIDE DEF list
  <2> QED BY <2>1 DEF PastKept, list
<1>5. CASE ~(src = dst \/ n = 0 \/ d \notin {src, dst})
  <2>1. CASE d = src
    <3>1. checkpoints'[d] = writeCheckpoint(list, votes - n)
      BY <1>5, <2>1 DEF moveDelegates
    <3>2. n <= votes
      BY <1>5, <2>1, XVSVaultAssumption DEF canMoveDelegates
    <3>3. votes - n \in Nat
      BY <1>3, <3>2
    <3> HIDE DEF votes, list
    <3> QED BY <1>2, <3>1, <3>3 DEF list
  <2>2. CASE d # src
    <3>1. checkpoints'[d] = writeCheckpoint(list, votes + n)
      BY <1>5, <2>2 DEF moveDelegates
    <3>2. votes + n \in Nat
      BY <1>3
    <3> HIDE DEF votes, list
    <3> QED BY <1>2, <3>1, <3>2 DEF list
  <2> QED BY <2>1, <2>2
<1> QED BY <1>4, <1>5

\* Nor does any step.
LEMMA NextPastKept ==
  ASSUME Inv, [Next]_vars, NEW d \in Users
  PROVE  PastKept(checkpoints[d], checkpoints'[d])
<1>0. /\ VotesInv /\ now \in Nat
      /\ \A u \in Users : delegates[u] \in Users \cup {ZeroAddress}
  BY DEF Inv, VotesInv
<1>1. ASSUME UNCHANGED checkpoints PROVE PastKept(checkpoints[d], checkpoints'[d])
  BY <1>1 DEF PastKept
<1>2. ASSUME NEW pid, NEW src \in Users \cup {ZeroAddress},
             NEW dst \in Users \cup {ZeroAddress}, NEW n \in Nat,
             movesVotes(pid, src, dst, n)
      PROVE  PastKept(checkpoints[d], checkpoints'[d])
  BY <1>0, <1>1, <1>2, MovePastKept DEF movesVotes
<1>3. ASSUME NEW u \in Users, NEW pid \in Pids, NEW n \in Amounts, Deposit(u, pid, n)
      PROVE  PastKept(checkpoints[d], checkpoints'[d])
  <2>1. n \in Nat /\ movesVotes(pid, ZeroAddress, delegates[u], n)
    BY <1>3, XVSVaultAssumption DEF Deposit
  <2> QED BY <1>0, <1>2, <2>1
<1>4. ASSUME NEW u \in Users, NEW pid \in Pids, NEW n \in Amounts,
             RequestWithdrawal(u, pid, n)
      PROVE  PastKept(checkpoints[d], checkpoints'[d])
  <2>1. n \in Nat /\ movesVotes(pid, delegates[u], ZeroAddress, n)
    BY <1>4, XVSVaultAssumption DEF RequestWithdrawal
  <2> QED BY <1>0, <1>2, <2>1
<1>5. ASSUME NEW u \in Users, NEW e \in Users \cup {ZeroAddress}, Delegate(u, e)
      PROVE  PastKept(checkpoints[d], checkpoints'[d])
  <2> DEFINE stake == getStakeAmount(u)
  <2>1. /\ stake \in Nat /\ canMoveDelegates(delegates[u], e, stake)
        /\ checkpoints' = moveDelegates(delegates[u], e, stake)
    BY <1>5, VotingStake DEF Delegate
  <2> HIDE DEF stake
  <2> QED BY <1>0, <2>1, MovePastKept
<1>6. CASE StakerStep
  <2>1. ASSUME NEW u \in Users, NEW pid \in Pids,
               Claim(u, pid) \/ ExecuteWithdrawal(u, pid) \/ ExecuteLegacyWithdrawal(u, pid)
        PROVE  UNCHANGED checkpoints
    BY <2>1 DEF Claim, ExecuteWithdrawal, ExecuteLegacyWithdrawal, voteVars
  <2> QED BY <1>1, <1>3, <1>4, <1>6, <2>1 DEF StakerStep
<1>7. CASE VoterStep
  BY <1>5, <1>7 DEF VoterStep
<1>8. CASE GovernanceStep
  <2>1. UNCHANGED checkpoints
    BY <1>8 DEF GovernanceStep, UpdatePool, SetAllocPoint, SetWithdrawalLockingPeriod,
                SetRewardRate, Add, PauseOrResume, voteVars
  <2> QED BY <1>1, <2>1
<1>9. CASE EnvironmentStep
  BY <1>1, <1>9 DEF EnvironmentStep, Tick, FundStore, Donate, voteVars
<1>10. CASE UNCHANGED vars
  BY <1>1, <1>10 DEF vars, voteVars
<1> QED BY <1>6, <1>7, <1>8, <1>9, <1>10 DEF Next

\* No deposit, request or delegation rewrites the votes of a moment that has
\* passed: what getPriorVotes answers for it stays the same for good.
THEOREM PastVotesStay == Spec => PastVotesFixed
<1>1. ASSUME Inv, Inv', [Next]_vars
      PROVE  \A d \in Users, time \in 0 .. now - 1 :
               getPriorVotes(checkpoints'[d], time) = getPriorVotes(checkpoints[d], time)
  <2> TAKE d \in Users, time \in 0 .. now - 1
  <2> DEFINE list == checkpoints[d]
             w == checkpoints'[d]
  <2>1. /\ list \in Seq(Checkpoint) /\ Ordered(list) /\ now \in Nat
        /\ w \in Seq(Checkpoint) /\ Ordered(w)
    BY <1>1 DEF Inv, VotesInv
  <2>2. PastKept(list, w)
    BY <1>1, NextPastKept
  <2>3. time \in Nat
    BY <2>1
  <2> HIDE DEF list, w
  <2>4. votesAt(w, time) = votesAt(list, time)
    BY <2>1, <2>2, PastVotesKept
  <2>5. /\ getPriorVotes(list, time) = votesAt(list, time)
        /\ getPriorVotes(w, time) = votesAt(w, time)
    BY <2>1, <2>3, PriorVotes
  <2> QED BY <2>4, <2>5 DEF list, w
<1>2. Inv /\ Inv' /\ [Next]_vars =>
        [\A d \in Users, time \in 0 .. now - 1 :
           getPriorVotes(checkpoints'[d], time) = getPriorVotes(checkpoints[d], time)]_vars
  BY <1>1
<1> QED BY <1>2, Invariant, PTL DEF Spec, PastVotesFixed

-----------------------------------------------------------------------------
(* What users earn. *)

\* The rewards per share of a pool as of now, and what a user has asked for.
accNow(pid) == updatePool(poolInfos, pid)[pid].accRewardPerShare
waiting(pid, u) == requestedAmount(withdrawalRequests[pid][u], TRUE)
due(n, acc) == (n * acc) \div accScale
gains(u) == [pid \in DOMAIN poolInfos |-> pendingReward(pid, u)]

\* What a stake is due is a natural number.
LEMMA DueNatural ==
  ASSUME NEW n \in Nat, NEW acc \in Nat
  PROVE  due(n, acc) \in Nat
<1> DEFINE m == n * acc
<1>1. m \in Nat /\ accScale \in Nat \ {0}
  BY XVSVaultAssumption
<1>2. due(n, acc) = m \div accScale
  BY DEF due
<1> HIDE DEF m
<1> QED BY <1>1, <1>2, DivBounds

\* The pending reward of a user is a number.
LEMMA PendingNatural ==
  ASSUME Inv, NEW pid \in DOMAIN poolInfos, NEW u \in Users
  PROVE  /\ pendingReward(pid, u) \in Nat
         /\ userInfos[pid][u].amount - waiting(pid, u) \in Nat /\ accNow(pid) \in Nat
<1>1. pid \in Pids /\ updatePool(poolInfos, pid)[pid] \in PoolInfo
  BY PoolFacts, UpdatedPool DEF Inv
<1>2. UserOK(userInfos[pid][u], withdrawalRequests[pid][u])
  BY <1>1 DEF Inv, StakesInv
<1>3. /\ userInfos[pid][u].amount - waiting(pid, u) \in Nat
      /\ userInfos[pid][u].rewardDebt \in Nat
  BY <1>2, UserFacts, Zenon DEF waiting
<1>4. accNow(pid) \in Nat
  BY <1>1 DEF accNow, PoolInfo
<1> DEFINE c == due(userInfos[pid][u].amount - waiting(pid, u), accNow(pid))
<1>5. c \in Nat
  BY <1>3, <1>4, DueNatural
<1>6. pendingReward(pid, u) = c - userInfos[pid][u].rewardDebt
  BY Zenon DEF pendingReward, due, waiting, accNow
<1>7. pendingReward(pid, u) >= 0
  BY InvAgrees DEF BooksAgree, RewardDebtCovered
<1> HIDE DEF c
<1>8. pendingReward(pid, u) \in Nat
  BY <1>3, <1>5, <1>6, <1>7
<1> QED BY <1>3, <1>4, <1>8

\* A pool that has been updated has the rewards of now.
LEMMA UpdatedToNow ==
  ASSUME Inv, NEW pid \in DOMAIN poolInfos
  PROVE  now <= updatePool(poolInfos, pid)[pid].lastReward
<1> DEFINE pool == poolInfos[pid]
           supply == vaultBalance[pool.token] - totalPendingWithdrawals[pid]
           reward == ((now - pool.lastReward) * rewardRate * pool.allocPoint)
                       \div totalAllocPoints
           more == pool.accRewardPerShare + (reward * accScale) \div supply
<1>1. pool \in PoolInfo /\ now \in Nat /\ poolInfos \in Seq(PoolInfo)
  BY PoolFacts DEF Inv, PoolsInv
<1>2. CASE now <= pool.lastReward
  BY <1>2 DEF updatePool
<1>3. CASE ~(now <= pool.lastReward) /\ supply = 0
  <2>1. updatePool(poolInfos, pid) = [poolInfos EXCEPT ![pid].lastReward = now]
    BY <1>3 DEF updatePool
  <2>2. updatePool(poolInfos, pid)[pid].lastReward = now
    BY <1>1, <2>1 DEF PoolInfo
  <2> QED BY <1>1, <2>2
<1>4. CASE ~(now <= pool.lastReward) /\ supply # 0
  <2>1. updatePool(poolInfos, pid) =
          [poolInfos EXCEPT ![pid].lastReward = now, ![pid].accRewardPerShare = more]
    BY <1>4 DEF updatePool
  <2> HIDE DEF more
  <2>2. updatePool(poolInfos, pid)[pid] =
          [pool EXCEPT !.lastReward = now, !.accRewardPerShare = more]
    <3> HIDE DEF updatePool
    <3> QED BY <1>1, <2>1, Zenon
  <2>3. updatePool(poolInfos, pid)[pid].lastReward = now
    BY <1>1, <2>2 DEF PoolInfo
  <2> QED BY <1>1, <2>3
<1> QED BY <1>2, <1>3, <1>4

\* The rewards per share of now stay the same when a pool is updated, ...
LEMMA AccSettled ==
  ASSUME UNCHANGED now, NEW pid, now <= poolInfos'[pid].lastReward
  PROVE  accNow(pid)' = poolInfos'[pid].accRewardPerShare
BY DEF accNow, updatePool

\* The rewards per share of a pool after its update.
updatedAcc(pool, supply) ==
  IF now <= pool.lastReward \/ supply = 0
    THEN pool.accRewardPerShare
    ELSE pool.accRewardPerShare
           + ((((now - pool.lastReward) * rewardRate * pool.allocPoint)
                 \div totalAllocPoints) * accScale) \div supply

\* It is what accNow computes, before a step and after it.
LEMMA AccsNow ==
  ASSUME poolInfos \in Seq(PoolInfo), poolInfos' \in Seq(PoolInfo),
         NEW pid \in DOMAIN poolInfos, pid \in DOMAIN poolInfos'
  PROVE  LET pool == poolInfos[pid]
             supply == vaultBalance[pool.token] - totalPendingWithdrawals[pid]
         IN  /\ accNow(pid) = updatedAcc(pool, supply)
             /\ accNow(pid)' = updatedAcc(pool, supply)'
<1> DEFINE pool == poolInfos[pid]
           supply == vaultBalance[pool.token] - totalPendingWithdrawals[pid]
<1>1. pool \in PoolInfo /\ pool' \in PoolInfo
  OBVIOUS
<1>2. accNow(pid) = updatedAcc(pool, supply)
  <2>1. CASE now <= pool.lastReward
    BY <2>1 DEF accNow, updatePool, updatedAcc
  <2>2. CASE ~(now <= pool.lastReward) /\ supply = 0
    BY <1>1, <2>2 DEF accNow, updatePool, updatedAcc, PoolInfo
  <2>3. CASE ~(now <= pool.lastReward) /\ supply # 0
    <3> DEFINE more == updatedAcc(pool, supply)
    <3>1. updatePool(poolInfos, pid) =
            [poolInfos EXCEPT ![pid].lastReward = now, ![pid].accRewardPerShare = more]
      BY <2>3 DEF updatePool, updatedAcc
    <3> HIDE DEF more
    <3>2. updatePool(poolInfos, pid)[pid] =
            [pool EXCEPT !.lastReward = now, !.accRewardPerShare = more]
      BY <3>1, Zenon
    <3> QED BY <1>1, <3>2 DEF accNow, PoolInfo, more
  <2> QED BY <2>1, <2>2, <2>3
<1>3. accNow(pid)' = updatedAcc(pool, supply)'
  <2>1. CASE now' <= pool'.lastReward
    BY <2>1 DEF accNow, updatePool, updatedAcc
  <2>2. CASE ~(now' <= pool'.lastReward) /\ supply' = 0
    BY <1>1, <2>2 DEF accNow, updatePool, updatedAcc, PoolInfo
  <2>3. CASE ~(now' <= pool'.lastReward) /\ supply' # 0
    <3> DEFINE more == updatedAcc(pool, supply)'
    <3>1. updatePool(poolInfos, pid)' =
            [poolInfos' EXCEPT ![pid].lastReward = now', ![pid].accRewardPerShare = more]
      BY <2>3 DEF updatePool, updatedAcc
    <3> HIDE DEF more
    <3>2. updatePool(poolInfos, pid)'[pid] =
            [pool' EXCEPT !.lastReward = now', !.accRewardPerShare = more]
      BY <3>1, Zenon
    <3> QED BY <1>1, <3>2 DEF accNow, PoolInfo, more
  <2> QED BY <2>1, <2>2, <2>3
<1> QED BY <1>2, <1>3

\* ... and when nothing changes that they depend on.
LEMMA AccUnchanged ==
  ASSUME poolInfos \in Seq(PoolInfo), poolInfos' \in Seq(PoolInfo),
         UNCHANGED <<now, rewardRate, totalAllocPoints>>,
         NEW pid \in DOMAIN poolInfos, pid \in DOMAIN poolInfos',
         poolInfos'[pid].token = poolInfos[pid].token,
         poolInfos'[pid].allocPoint = poolInfos[pid].allocPoint,
         poolInfos'[pid].lastReward = poolInfos[pid].lastReward,
         poolInfos'[pid].accRewardPerShare = poolInfos[pid].accRewardPerShare,
         vaultBalance'[poolInfos[pid].token] - totalPendingWithdrawals'[pid] =
           vaultBalance[poolInfos[pid].token] - totalPendingWithdrawals[pid]
  PROVE  accNow(pid)' = accNow(pid)
<1> DEFINE pool == poolInfos[pid]
           supply == vaultBalance[pool.token] - totalPendingWithdrawals[pid]
<1>1. accNow(pid) = updatedAcc(pool, supply) /\ accNow(pid)' = updatedAcc(pool, supply)'
  BY AccsNow
<1>2. updatedAcc(pool, supply)' = updatedAcc(pool, supply)
  BY DEF updatedAcc
<1> QED BY <1>1, <1>2

\* What a user has earned does not change when no pool changes what it owes it
\* and nothing is paid.
LEMMA NothingEarned ==
  ASSUME NEW u, DOMAIN poolInfos' = DOMAIN poolInfos,
         \A p \in DOMAIN poolInfos : pendingReward(p, u)' = pendingReward(p, u),
         rewardBalance'[u] = rewardBalance[u],
         pendingRewardTransfers'[u] = pendingRewardTransfers[u]
  PROVE  earned(u)' = earned(u)
<1>1. gains(u)' = gains(u)
  BY DEF gains
<1>2. /\ earned(u) = rewardBalance[u] + pendingRewardTransfers[u] + Total(gains(u))
      /\ earned(u)' = rewardBalance'[u] + pendingRewardTransfers'[u] + Total(gains(u)')
  BY DEF earned, gains
<1> QED BY <1>1, <1>2

\* Nor when a pool settles what it owes it, by payment or as a recorded debt.
LEMMA PaidOut ==
  ASSUME Inv, NEW u \in Users, NEW pid \in DOMAIN poolInfos,
         DOMAIN poolInfos' = DOMAIN poolInfos,
         \A p \in DOMAIN poolInfos \ {pid} : pendingReward(p, u)' = pendingReward(p, u),
         pendingReward(pid, u)' = 0,
         rewardBalance'[u] + pendingRewardTransfers'[u] =
           rewardBalance[u] + pendingRewardTransfers[u] + pendingReward(pid, u)
  PROVE  earned(u)' = earned(u)
<1> DEFINE D == DOMAIN poolInfos
           f == gains(u)
           g == [f EXCEPT ![pid] = 0]
<1>1. IsFiniteSet(D)
  <2>1. D = 1 .. Len(poolInfos) /\ Len(poolInfos) \in Int
    BY PoolFacts DEF Inv
  <2> QED BY <2>1, FS_Interval
<1>2. pid \in D /\ f \in [D -> Nat] /\ f[pid] = pendingReward(pid, u)
  BY PendingNatural DEF gains
<1>3. gains(u)' = g
  BY DEF gains
<1>4. Total(g) = Total(f) - f[pid] /\ Total(f) \in Nat /\ f[pid] \in Nat
  <2> HIDE DEF f, D
  <2> QED BY <1>1, <1>2, TotalZeroed, TotalBounds, Zenon
<1>5. /\ earned(u) = rewardBalance[u] + pendingRewardTransfers[u] + Total(f)
      /\ earned(u)' = rewardBalance'[u] + pendingRewardTransfers'[u] + Total(gains(u)')
  BY DEF earned, gains
<1>6. rewardBalance[u] \in Nat /\ pendingRewardTransfers[u] \in Nat
  BY DEF Inv, RewardsInv
<1> DEFINE have == rewardBalance[u] + pendingRewardTransfers[u]
           had == rewardBalance'[u] + pendingRewardTransfers'[u]
<1>7. /\ earned(u) = have + Total(f) /\ earned(u)' = had + Total(g)
      /\ had = have + f[pid] /\ have \in Nat
  BY <1>2, <1>3, <1>5, <1>6
<1> HIDE DEF have, had, f, g
<1> QED BY <1>4, <1>7

\* A user that changes its stake in one pool: the rest earns as before.
LEMMA StakerEarns ==
  ASSUME Inv, NEW u \in Users, NEW pid \in DOMAIN poolInfos, OnlyStake(pid, u),
         DOMAIN poolInfos' = DOMAIN poolInfos,
         \A p \in DOMAIN poolInfos : accNow(p)' = accNow(p),
         NEW v \in Users,
         v # u => /\ rewardBalance'[v] = rewardBalance[v]
                  /\ pendingRewardTransfers'[v] = pendingRewardTransfers[v],
         v = u =>
           \/ /\ pendingReward(pid, u)' = pendingReward(pid, u)
              /\ rewardBalance'[u] = rewardBalance[u]
              /\ pendingRewardTransfers'[u] = pendingRewardTransfers[u]
           \/ /\ pendingReward(pid, u)' = 0
              /\ rewardBalance'[u] + pendingRewardTransfers'[u] =
                   rewardBalance[u] + pendingRewardTransfers[u] + pendingReward(pid, u)
  PROVE  earned(v)' = earned(v)
<1>1. ASSUME NEW p \in DOMAIN poolInfos, p # pid \/ v # u
      PROVE  pendingReward(p, v)' = pendingReward(p, v)
  <2>1. p \in Pids
    BY PoolFacts DEF Inv
  <2>2. /\ userInfos'[p][v] = userInfos[p][v]
        /\ withdrawalRequests'[p][v] = withdrawalRequests[p][v]
    BY <1>1, <2>1 DEF OnlyStake
  <2>3. accNow(p)' = accNow(p)
    OBVIOUS
  <2> QED BY <2>2, <2>3, Zenon DEF pendingReward, accNow
<1>2. CASE v # u
  BY <1>1, <1>2, NothingEarned
<1>3. CASE v = u /\ pendingReward(pid, u)' = pendingReward(pid, u)
           /\ rewardBalance'[u] = rewardBalance[u]
           /\ pendingRewardTransfers'[u] = pendingRewardTransfers[u]
  <2>1. \A p \in DOMAIN poolInfos : pendingReward(p, v)' = pendingReward(p, v)
    BY <1>1, <1>3
  <2> QED BY <1>3, <2>1, NothingEarned
<1>4. CASE v = u /\ pendingReward(pid, u)' = 0
           /\ rewardBalance'[u] + pendingRewardTransfers'[u] =
                rewardBalance[u] + pendingRewardTransfers[u] + pendingReward(pid, u)
  <2>1. \A p \in DOMAIN poolInfos \ {pid} : pendingReward(p, v)' = pendingReward(p, v)
    BY <1>1
  <2> QED BY <1>4, <2>1, PaidOut
<1> QED BY <1>2, <1>3, <1>4

\* A payment gives its amount to one user, as a transfer or as a recorded debt.
LEMMA TransferAdds ==
  ASSUME RewardsInv, NEW u \in Users, NEW n \in Nat, transferReward(u, n)
  PROVE  /\ rewardBalance'[u] + pendingRewardTransfers'[u] =
              rewardBalance[u] + pendingRewardTransfers[u] + n
         /\ \A v \in Users \ {u} :
              /\ rewardBalance'[v] = rewardBalance[v]
              /\ pendingRewardTransfers'[v] = pendingRewardTransfers[v]
<1> DEFINE full == n + pendingRewardTransfers[u]
           payment == IF full <= storeBalance THEN full ELSE storeBalance
<1>1. /\ pendingRewardTransfers \in [Users -> Nat] /\ rewardBalance \in [Users -> Nat]
      /\ storeBalance \in Nat
  BY DEF RewardsInv
<1>2. /\ pendingRewardTransfers' = [pendingRewardTransfers EXCEPT ![u] = full - payment]
      /\ rewardBalance' = [rewardBalance EXCEPT ![u] = rewardBalance[u] + payment]
  BY DEF transferReward
<1>3. /\ full \in Nat /\ payment \in Nat /\ rewardBalance[u] \in Nat
      /\ full = n + pendingRewardTransfers[u] /\ pendingRewardTransfers[u] \in Nat
  BY <1>1
<1> HIDE DEF full, payment
<1>4. /\ rewardBalance'[u] = rewardBalance[u] + payment
      /\ pendingRewardTransfers'[u] = full - payment
  BY <1>1, <1>2
<1> QED BY <1>1, <1>2, <1>3, <1>4

\* The payment of an old withdrawal does so, unless the store runs empty.
LEMMA SafeTransferAdds ==
  ASSUME RewardsInv, NEW u \in Users, NEW n \in Nat, safeRewardTransfer(u, n)
  PROVE  /\ \/ rewardBalance'[u] + pendingRewardTransfers'[u] =
                 rewardBalance[u] + pendingRewardTransfers[u] + n
            \/ storeBalance' = 0
         /\ \A v \in Users \ {u} :
              /\ rewardBalance'[v] = rewardBalance[v]
              /\ pendingRewardTransfers'[v] = pendingRewardTransfers[v]
<1> DEFINE payment == IF n <= storeBalance THEN n ELSE storeBalance
<1>1. /\ pendingRewardTransfers \in [Users -> Nat] /\ rewardBalance \in [Users -> Nat]
      /\ storeBalance \in Nat
  BY DEF RewardsInv
<1>2. /\ pendingRewardTransfers' = pendingRewardTransfers
      /\ rewardBalance' = [rewardBalance EXCEPT ![u] = rewardBalance[u] + payment]
      /\ storeBalance' = storeBalance - payment
  BY DEF safeRewardTransfer
<1>3. /\ payment \in Nat /\ rewardBalance[u] \in Nat /\ pendingRewardTransfers[u] \in Nat
      /\ payment = n \/ payment = storeBalance
  BY <1>1
<1> HIDE DEF payment
<1>4. /\ rewardBalance'[u] = rewardBalance[u] + payment
      /\ pendingRewardTransfers'[u] = pendingRewardTransfers[u]
  BY <1>1, <1>2
<1> QED BY <1>1, <1>2, <1>3, <1>4

\* An update of one pool changes no rewards per share of now.
LEMMA AccOfUpdate ==
  ASSUME Inv, Inv', NEW pid \in DOMAIN poolInfos, poolInfos' = updatePool(poolInfos, pid),
         UNCHANGED <<now, rewardRate, totalAllocPoints>>,
         \A p \in Pids \ {pid} : totalPendingWithdrawals'[p] = totalPendingWithdrawals[p],
         \A t \in Tokens \ {poolInfos[pid].token} : vaultBalance'[t] = vaultBalance[t]
  PROVE  /\ DOMAIN poolInfos' = DOMAIN poolInfos
         /\ \A p \in DOMAIN poolInfos : accNow(p)' = accNow(p)
<1> DEFINE infos == updatePool(poolInfos, pid)
<1>1. /\ DOMAIN infos = DOMAIN poolInfos
      /\ \A i \in DOMAIN poolInfos \ {pid} : infos[i] = poolInfos[i]
      /\ now <= infos[pid].lastReward
  BY UpdatedPool, UpdatedToNow
<1>2. accNow(pid) = infos[pid].accRewardPerShare
  BY DEF accNow
<1>3. poolInfos' = infos
  OBVIOUS
<1> HIDE DEF infos
<1>4. accNow(pid)' = accNow(pid)
  BY <1>1, <1>2, <1>3, AccSettled
<1>5. ASSUME NEW p \in DOMAIN poolInfos, p # pid PROVE accNow(p)' = accNow(p)
  <2>1. poolInfos'[p] = poolInfos[p] /\ p \in DOMAIN poolInfos'
    BY <1>1, <1>3, <1>5
  <2>2. /\ poolInfos \in Seq(PoolInfo) /\ poolInfos' \in Seq(PoolInfo)
        /\ poolInfos[p].token # poolInfos[pid].token
    BY <1>5 DEF Inv, PoolsInv
  <2>3. p \in Pids \ {pid} /\ poolInfos[p].token \in Tokens
    BY <1>5, PoolFacts DEF Inv, PoolInfo
  <2>4. vaultBalance'[poolInfos[p].token] - totalPendingWithdrawals'[p] =
          vaultBalance[poolInfos[p].token] - totalPendingWithdrawals[p]
    BY <2>2, <2>3
  <2> QED BY <2>1, <2>2, <2>4, AccUnchanged
<1> QED BY <1>1, <1>3, <1>4, <1>5

\* All that a user has asked for has been asked for since the upgrade.
LEMMA OnlyNew ==
  ASSUME NEW user, NEW requests, UserOK(user, requests), requestedAmount(requests, FALSE) = 0
  PROVE  requestedAmount(requests, TRUE) = user.pendingWithdrawals
<1> DEFINE new == requestedAmount(requests, TRUE)
<1>1. user.pendingWithdrawals = new + requestedAmount(requests, FALSE)
  BY Zenon DEF UserOK
<1>2. user.pendingWithdrawals = new + 0
  BY <1>1, Zenon
<1>3. new \in Nat
  BY UserFacts
<1> HIDE DEF new
<1>4. new + 0 = new
  BY <1>3
<1> QED BY <1>2, <1>4, Zenon DEF new

\* What a call pays without an old request is what the view promises.
LEMMA PendingOwed ==
  ASSUME Inv, NEW pid \in DOMAIN poolInfos, NEW u \in Users,
         requestedAmount(withdrawalRequests[pid][u], FALSE) = 0
  PROVE  computeReward(userInfos[pid][u], updatePool(poolInfos, pid)[pid]) = pendingReward(pid, u)
<1>1. UserOK(userInfos[pid][u], withdrawalRequests[pid][u])
  BY PoolFacts DEF Inv, StakesInv
<1>2. requestedAmount(withdrawalRequests[pid][u], TRUE) = userInfos[pid][u].pendingWithdrawals
  BY <1>1, OnlyNew
<1> QED BY <1>2, Zenon DEF computeReward, cumulativeReward, pendingReward

\* Nothing is pending once the debt has been set to the rewards of now.
LEMMA SettledClears ==
  ASSUME NEW pid, NEW u, NEW user, NEW requests, NEW pool,
         userInfos'[pid][u] = user, withdrawalRequests'[pid][u] = requests,
         UserOK(user, requests), requestedAmount(requests, FALSE) = 0,
         accNow(pid)' = pool.accRewardPerShare, user.rewardDebt = cumulativeReward(user, pool)
  PROVE  pendingReward(pid, u)' = 0
<1> DEFINE n == user.amount - user.pendingWithdrawals
           c == (n * pool.accRewardPerShare) \div accScale
<1>1. requestedAmount(requests, TRUE) = user.pendingWithdrawals
  BY OnlyNew
<1>2. pendingReward(pid, u)' = c - user.rewardDebt
  BY <1>1, Zenon DEF pendingReward, accNow
<1>3. user.rewardDebt = c /\ user.rewardDebt \in Nat
  BY UserFacts DEF cumulativeReward
<1> HIDE DEF c
<1> QED BY <1>2, <1>3

\* Deposits neither give nor take what has been earned.
LEMMA DepositEarns ==
  ASSUME Inv, Inv', NEW u \in Users, NEW pid \in Pids, NEW n \in Nat, Deposit(u, pid, n),
         NEW v \in Users
  PROVE  earned(v)' = earned(v)
<1> DEFINE user == userInfos[pid][u]
           requests == withdrawalRequests[pid][u]
           infos == updatePool(poolInfos, pid)
           pending == computeReward(user, infos[pid])
           settled == deposited(user, infos[pid], n)
           token == poolInfos[pid].token
           paid == user.amount > 0 /\ pending > 0
<1>1. /\ validPool(pid) /\ requestedAmount(requests, FALSE) = 0
      /\ user.amount > 0 => pending >= 0
      /\ poolInfos' = infos
      /\ userInfos' = [userInfos EXCEPT ![pid][u] = settled]
      /\ vaultBalance' = [vaultBalance EXCEPT ![infos[pid].token] = @ + n]
      /\ UNCHANGED <<totalAllocPoints, rewardRate, withdrawalRequests,
                     totalPendingWithdrawals, delegates, vaultPaused, now>>
      /\ IF paid THEN transferReward(u, pending) ELSE UNCHANGED rewardVars
  BY DEF Deposit, legacyPending
<1>2. /\ pid \in DOMAIN poolInfos /\ UserOK(user, requests) /\ user \in UserInfo
      /\ infos[pid].token = token
  BY <1>1, StakerFacts
<1>3. /\ \A t \in Tokens \ {token} : vaultBalance'[t] = vaultBalance[t]
      /\ userInfos \in [Pids -> [Users -> UserInfo]]
      /\ withdrawalRequests \in [Pids -> [Users -> Seq(WithdrawalRequest)]]
  BY <1>1, <1>2 DEF Inv, StakesInv
<1>4. /\ DOMAIN poolInfos' = DOMAIN poolInfos
      /\ \A p \in DOMAIN poolInfos : accNow(p)' = accNow(p)
  BY <1>1, <1>2, <1>3, AccOfUpdate
<1>5. accNow(pid)' = infos[pid].accRewardPerShare
  BY <1>2, <1>4 DEF accNow
<1>6. settled.rewardDebt = cumulativeReward(settled, infos[pid])
  <2> HIDE DEF user
  <2> QED BY <1>2 DEF deposited, cumulativeReward, UserInfo
<1>7. pending = pendingReward(pid, u) /\ pending \in Nat
  BY <1>1, <1>2, PendingOwed, PendingNatural
<1>8. user.amount = 0 => pending = 0
  <2> SUFFICES ASSUME user.amount = 0 PROVE pending = 0
    OBVIOUS
  <2>1. /\ requestedAmount(requests, TRUE) = user.pendingWithdrawals
        /\ requestedAmount(requests, TRUE) <= user.amount
        /\ requestedAmount(requests, TRUE) \in Nat /\ user.rewardDebt \in Nat
    BY <1>1, <1>2, OnlyNew, UserFacts
  <2>2. user.amount - user.pendingWithdrawals = 0
    <3> DEFINE m == requestedAmount(requests, TRUE)
    <3>1. m = user.pendingWithdrawals /\ m <= user.amount /\ m \in Nat
      BY <2>1
    <3> HIDE DEF m, user
    <3> QED BY <3>1 DEF user
  <2>3. accNow(pid) \in Nat
    BY <1>2, PendingNatural
  <2> DEFINE a == infos[pid].accRewardPerShare
  <2>4. a \in Nat
    BY <2>3 DEF accNow
  <2>5. pending = (0 * a) \div accScale - user.rewardDebt
    BY <2>2 DEF computeReward, cumulativeReward
  <2> HIDE DEF a, pending
  <2>6. 0 * a = 0 /\ accScale \in Nat \ {0}
    BY <2>4, XVSVaultAssumption
  <2>7. 0 \div accScale = 0
    BY <2>6
  <2> QED BY <1>7, <2>1, <2>5, <2>6, <2>7
<1> HIDE DEF settled
<1>9. /\ userInfos' \in [Pids -> [Users -> UserInfo]] /\ userInfos'[pid][u] = settled
      /\ withdrawalRequests' = withdrawalRequests
      /\ \A p \in Pids, w \in Users : p # pid \/ w # u => userInfos'[p][w] = userInfos[p][w]
  BY <1>1, <1>3 DEF Inv, StakesInv
<1>10. OnlyStake(pid, u)
  BY <1>3, <1>9 DEF OnlyStake
<1>11. pendingReward(pid, u)' = 0
  <2>1. UserOK(settled, requests)
    BY <1>9 DEF Inv, StakesInv
  <2>2. /\ userInfos'[pid][u] = settled /\ withdrawalRequests'[pid][u] = requests
        /\ requestedAmount(requests, FALSE) = 0
    BY <1>1, <1>9
  <2> DEFINE pool == infos[pid]
  <2>3. /\ accNow(pid)' = pool.accRewardPerShare
        /\ settled.rewardDebt = cumulativeReward(settled, pool)
    BY <1>5, <1>6
  <2> HIDE DEF pool, requests
  <2> QED BY <2>1, <2>2, <2>3, SettledClears
<1>12. /\ v # u => /\ rewardBalance'[v] = rewardBalance[v]
                   /\ pendingRewardTransfers'[v] = pendingRewardTransfers[v]
       /\ rewardBalance'[u] + pendingRewardTransfers'[u] =
            rewardBalance[u] + pendingRewardTransfers[u] + pendingReward(pid, u)
  <2> HIDE DEF pending, user
  <2>1. CASE paid
    BY <1>1, <1>7, <2>1, TransferAdds DEF Inv
  <2>2. CASE ~paid
    <3>1. pending = 0
      <4>1. user.amount \in Nat
        BY <1>2 DEF UserInfo
      <4> QED BY <4>1, <1>1, <1>7, <1>8, <2>2
    <3>2. UNCHANGED <<rewardBalance, pendingRewardTransfers>>
      BY <1>1, <2>2 DEF rewardVars
    <3>3. rewardBalance[u] \in Nat /\ pendingRewardTransfers[u] \in Nat
      BY DEF Inv, RewardsInv
    <3> QED BY <1>7, <3>1, <3>2, <3>3
  <2> QED BY <2>1, <2>2
<1> QED BY <1>2, <1>4, <1>10, <1>11, <1>12, StakerEarns

\* Claims neither give nor take what has been earned.
LEMMA ClaimEarns ==
  ASSUME Inv, Inv', NEW u \in Users, NEW pid \in Pids, Claim(u, pid), NEW v \in Users
  PROVE  earned(v)' = earned(v)
<1> DEFINE user == userInfos[pid][u]
           requests == withdrawalRequests[pid][u]
           infos == updatePool(poolInfos, pid)
           pending == computeReward(user, infos[pid])
           settled == [user EXCEPT !.rewardDebt = cumulativeReward(user, infos[pid])]
           paid == /\ pending > 0 /\ transferReward(u, pending)
                   /\ userInfos' = [userInfos EXCEPT ![pid][u] = settled]
<1>1. /\ validPool(pid) /\ requestedAmount(requests, FALSE) = 0
      /\ poolInfos' = infos
      /\ UNCHANGED <<totalAllocPoints, rewardRate, withdrawalRequests, vaultBalance,
                     totalPendingWithdrawals, voteVars, vaultPaused, now>>
      /\ paid \/ UNCHANGED <<rewardVars, userInfos>>
  BY DEF Claim, legacyPending
<1>2. pid \in DOMAIN poolInfos /\ UserOK(user, requests) /\ user \in UserInfo
  BY <1>1, StakerFacts
<1>3. /\ userInfos \in [Pids -> [Users -> UserInfo]]
      /\ withdrawalRequests \in [Pids -> [Users -> Seq(WithdrawalRequest)]]
  BY DEF Inv, StakesInv
<1>4. /\ DOMAIN poolInfos' = DOMAIN poolInfos
      /\ \A p \in DOMAIN poolInfos : accNow(p)' = accNow(p)
  BY <1>1, <1>2, AccOfUpdate
<1>5. accNow(pid)' = infos[pid].accRewardPerShare
  BY <1>2, <1>4 DEF accNow
<1>6. CASE UNCHANGED <<rewardVars, userInfos>>
  <2>1. UNCHANGED <<rewardBalance, pendingRewardTransfers, userInfos, withdrawalRequests>>
    BY <1>1, <1>6 DEF rewardVars
  <2>2. \A p \in DOMAIN poolInfos : pendingReward(p, v)' = pendingReward(p, v)
    BY <1>4, <2>1, Zenon DEF pendingReward, accNow
  <2> QED BY <1>4, <2>1, <2>2, NothingEarned
<1>7. CASE paid
  <2>1. settled.rewardDebt = cumulativeReward(settled, infos[pid])
    <3> HIDE DEF user
    <3> QED BY <1>2 DEF cumulativeReward, UserInfo
  <2>2. pending = pendingReward(pid, u) /\ pending \in Nat
    BY <1>1, <1>2, PendingOwed, PendingNatural
  <2> HIDE DEF settled
  <2>3. /\ userInfos' \in [Pids -> [Users -> UserInfo]] /\ userInfos'[pid][u] = settled
        /\ withdrawalRequests' = withdrawalRequests
        /\ \A p \in Pids, w \in Users : p # pid \/ w # u => userInfos'[p][w] = userInfos[p][w]
    BY <1>1, <1>3, <1>7 DEF Inv, StakesInv
  <2>4. OnlyStake(pid, u)
    BY <1>3, <2>3 DEF OnlyStake
  <2>5. pendingReward(pid, u)' = 0
    <3>1. UserOK(settled, requests)
      BY <2>3 DEF Inv, StakesInv
    <3> QED BY <1>1, <1>5, <2>1, <2>3, <3>1, SettledClears
  <2>6. /\ v # u => /\ rewardBalance'[v] = rewardBalance[v]
                    /\ pendingRewardTransfers'[v] = pendingRewardTransfers[v]
        /\ rewardBalance'[u] + pendingRewardTransfers'[u] =
             rewardBalance[u] + pendingRewardTransfers[u] + pendingReward(pid, u)
    <3> HIDE DEF pending
    <3> QED BY <1>7, <2>2, TransferAdds DEF Inv
  <2> QED BY <1>2, <1>4, <2>4, <2>5, <2>6, StakerEarns
<1> HIDE DEF paid
<1> QED BY <1>1, <1>6, <1>7

\* Requests neither give nor take what has been earned.
LEMMA RequestEarns ==
  ASSUME Inv, Inv', NEW u \in Users, NEW pid \in Pids, NEW n \in Nat,
         RequestWithdrawal(u, pid, n), NEW v \in Users
  PROVE  earned(v)' = earned(v)
<1> DEFINE user == userInfos[pid][u]
           requests == withdrawalRequests[pid][u]
           infos == updatePool(poolInfos, pid)
           pool == infos[pid]
           pending == computeReward(user, pool)
           settled == requested(user, pool, n)
           request == [amount |-> n, lockedUntil |-> now + pool.lockPeriod,
                       afterUpgrade |-> TRUE]
           longer == withRequest(requests, request)
<1>1. /\ validPool(pid) /\ requestedAmount(requests, FALSE) = 0
      /\ transferReward(u, pending)
      /\ poolInfos' = infos
      /\ withdrawalRequests' = [withdrawalRequests EXCEPT ![pid][u] = longer]
      /\ userInfos' = [userInfos EXCEPT ![pid][u] = settled]
      /\ totalPendingWithdrawals' =
           [totalPendingWithdrawals EXCEPT ![pid] = totalPendingWithdrawals[pid] + n]
      /\ UNCHANGED <<totalAllocPoints, rewardRate, vaultBalance, now>>
  BY DEF RequestWithdrawal, legacyPending
<1>2. /\ pid \in DOMAIN poolInfos /\ UserOK(user, requests) /\ user \in UserInfo
      /\ pool \in PoolInfo /\ requests \in Seq(WithdrawalRequest)
  BY <1>1, StakerFacts
<1>3. /\ userInfos \in [Pids -> [Users -> UserInfo]]
      /\ withdrawalRequests \in [Pids -> [Users -> Seq(WithdrawalRequest)]]
      /\ userInfos' \in [Pids -> [Users -> UserInfo]]
      /\ withdrawalRequests' \in [Pids -> [Users -> Seq(WithdrawalRequest)]]
      /\ totalPendingWithdrawals \in [Pids -> Nat]
  BY DEF Inv, StakesInv
<1>4. /\ DOMAIN poolInfos' = DOMAIN poolInfos
      /\ \A p \in DOMAIN poolInfos : accNow(p)' = accNow(p)
  BY <1>1, <1>2, <1>3, AccOfUpdate
<1>5. accNow(pid)' = pool.accRewardPerShare
  BY <1>2, <1>4 DEF accNow
<1>6. settled.rewardDebt = cumulativeReward(settled, pool)
  <2> HIDE DEF user, pool
  <2> QED BY <1>2 DEF requested, cumulativeReward, UserInfo
<1>7. pending = pendingReward(pid, u) /\ pending \in Nat
  BY <1>1, <1>2, PendingOwed, PendingNatural
<1>8. requestedAmount(longer, FALSE) = 0
  <2>1. request \in WithdrawalRequest /\ request.afterUpgrade = TRUE
    <3>1. now \in Nat /\ pool.lockPeriod \in Nat
      BY <1>2 DEF Inv, PoolInfo
    <3>2. now + pool.lockPeriod \in Nat
      BY <3>1
    <3> QED BY <3>2 DEF WithdrawalRequest
  <2> HIDE DEF request
  <2>2. \A k : requestedAmount(longer, k) =
                 requestedAmount(requests, k) + IF request.afterUpgrade = k
                                                  THEN request.amount ELSE 0
    BY <1>2, <2>1, AddedRequest
  <2> HIDE DEF longer
  <2>3. requestedAmount(longer, FALSE) = requestedAmount(requests, FALSE) + 0
    BY <2>1, <2>2, Zenon
  <2>4. requestedAmount(longer, FALSE) = 0 + 0
    BY <1>1, <2>3, Zenon
  <2>5. 0 + 0 = 0
    OBVIOUS
  <2> QED BY <2>4, <2>5, Zenon
<1> HIDE DEF settled, longer
<1>9. /\ userInfos'[pid][u] = settled /\ withdrawalRequests'[pid][u] = longer
      /\ \A p \in Pids, w \in Users :
           p # pid \/ w # u => /\ userInfos'[p][w] = userInfos[p][w]
                               /\ withdrawalRequests'[p][w] = withdrawalRequests[p][w]
  BY <1>1, <1>3
<1>10. OnlyStake(pid, u)
  BY <1>3, <1>9 DEF OnlyStake
<1>11. pendingReward(pid, u)' = 0
  <2>1. UserOK(settled, longer)
    BY <1>9 DEF Inv, StakesInv
  <2> HIDE DEF pool
  <2> QED BY <1>5, <1>6, <1>8, <1>9, <2>1, SettledClears
<1>12. /\ v # u => /\ rewardBalance'[v] = rewardBalance[v]
                   /\ pendingRewardTransfers'[v] = pendingRewardTransfers[v]
       /\ rewardBalance'[u] + pendingRewardTransfers'[u] =
            rewardBalance[u] + pendingRewardTransfers[u] + pendingReward(pid, u)
  <2> HIDE DEF pending
  <2> QED BY <1>1, <1>7, TransferAdds DEF Inv
<1> QED BY <1>2, <1>4, <1>10, <1>11, <1>12, StakerEarns

\* Withdrawals neither give nor take what has been earned.
LEMMA ExecuteEarns ==
  ASSUME Inv, Inv', NEW u \in Users, NEW pid \in Pids, ExecuteWithdrawal(u, pid),
         NEW v \in Users
  PROVE  earned(v)' = earned(v)
<1> DEFINE user == userInfos[pid][u]
           requests == withdrawalRequests[pid][u]
           amount == requestedAmount(unlocked(requests), TRUE)
           stay == stillLocked(requests)
           less == withdrawn(user, amount)
           token == poolInfos[pid].token
           nT == requestedAmount(requests, TRUE)
           sT == requestedAmount(stay, TRUE)
<1>1. /\ validPool(pid) /\ amount > 0
      /\ withdrawalRequests' = [withdrawalRequests EXCEPT ![pid][u] = stay]
      /\ userInfos' = [userInfos EXCEPT ![pid][u] = less]
      /\ totalPendingWithdrawals' =
           [totalPendingWithdrawals EXCEPT ![pid] = totalPendingWithdrawals[pid] - amount]
      /\ vaultBalance' = [vaultBalance EXCEPT ![token] = vaultBalance[token] - amount]
      /\ UNCHANGED <<poolVars, voteVars, rewardVars, vaultPaused, now>>
  BY DEF ExecuteWithdrawal, lessPending
<1>2. /\ pid \in DOMAIN poolInfos /\ UserOK(user, requests) /\ token \in Tokens
  BY <1>1, StakerFacts
<1>3. /\ userInfos \in [Pids -> [Users -> UserInfo]]
      /\ withdrawalRequests \in [Pids -> [Users -> Seq(WithdrawalRequest)]]
      /\ userInfos' \in [Pids -> [Users -> UserInfo]]
      /\ withdrawalRequests' \in [Pids -> [Users -> Seq(WithdrawalRequest)]]
      /\ totalPendingWithdrawals \in [Pids -> Nat] /\ vaultBalance \in [Tokens -> Nat]
      /\ poolInfos \in Seq(PoolInfo)
  BY DEF Inv, StakesInv, PoolsInv
<1>4. UNCHANGED <<poolInfos, now, rewardRate, totalAllocPoints, rewardBalance,
                  pendingRewardTransfers>>
  BY <1>1 DEF poolVars, rewardVars
<1>5. /\ amount \in Nat /\ less.amount = user.amount - amount
      /\ less.rewardDebt = user.rewardDebt /\ sT = nT - amount
      /\ user.amount \in Nat /\ nT \in Nat
  <2>1. nT \in Nat /\ user.amount \in Nat
    BY <1>2, UserFacts
  <2>2. amount = requestedAmount(unlocked(requests), TRUE) /\ amount > 0
    BY <1>1
  <2> HIDE DEF amount, user, requests
  <2>3. /\ amount \in Nat /\ less.amount = user.amount - amount
        /\ less.rewardDebt = user.rewardDebt /\ sT = nT - amount
    BY <1>2, <2>2, Withdrawn, Zenon DEF less, stay, nT, sT
  <2> QED BY <2>1, <2>3 DEF user
<1> HIDE DEF amount, less, stay
<1>6. /\ userInfos'[pid][u] = less /\ withdrawalRequests'[pid][u] = stay
      /\ \A p \in Pids, w \in Users :
           p # pid \/ w # u => /\ userInfos'[p][w] = userInfos[p][w]
                               /\ withdrawalRequests'[p][w] = withdrawalRequests[p][w]
  BY <1>1, <1>3
<1>7. OnlyStake(pid, u)
  BY <1>3, <1>6 DEF OnlyStake
<1>8. ASSUME NEW p \in DOMAIN poolInfos PROVE accNow(p)' = accNow(p)
  <2>1. vaultBalance'[poolInfos[p].token] - totalPendingWithdrawals'[p] =
          vaultBalance[poolInfos[p].token] - totalPendingWithdrawals[p]
    <3>1. p \in Pids /\ poolInfos[p].token \in Tokens
      BY PoolFacts DEF Inv, PoolInfo
    <3>2. CASE p = pid
      <4> DEFINE b == vaultBalance[token]
                 t == totalPendingWithdrawals[pid]
      <4>1. b \in Nat /\ t \in Nat /\ vaultBalance'[token] = b - amount
            /\ totalPendingWithdrawals'[pid] = t - amount
        BY <1>1, <1>2, <1>3
      <4> HIDE DEF b, t
      <4>2. (b - amount) - (t - amount) = b - t
        BY <1>5, <4>1
      <4> QED BY <3>2, <4>1, <4>2 DEF b, t
    <3>3. CASE p # pid
      <4>1. poolInfos[p].token # token
        BY <1>2, <3>3 DEF Inv, PoolsInv
      <4> QED BY <1>1, <1>3, <3>1, <3>3, <4>1
    <3> QED BY <3>2, <3>3
  <2> QED BY <1>3, <1>4, <2>1, AccUnchanged
<1>9. pendingReward(pid, u)' = pendingReward(pid, u)
  <2>1. less.amount - sT = user.amount - nT
    <3> HIDE DEF sT, nT, user
    <3> QED BY <1>5
  <2>2. accNow(pid)' = accNow(pid)
    BY <1>2, <1>8
  <2> QED BY <1>5, <1>6, <2>1, <2>2, Zenon DEF pendingReward, accNow
<1> QED BY <1>2, <1>4, <1>7, <1>8, <1>9, StakerEarns

\* The withdrawal of an old request changes what nobody has earned, but for what
\* the store does not have.
LEMMA ExecuteLegacyEarns ==
  ASSUME Inv, Inv', NEW u \in Users, NEW pid \in Pids, ExecuteLegacyWithdrawal(u, pid),
         NEW v \in Users
  PROVE  earned(v)' = earned(v) \/ (v = u /\ storeBalance' = 0)
<1> DEFINE user == userInfos[pid][u]
           requests == withdrawalRequests[pid][u]
           amount == requestedAmount(unlocked(requests), FALSE)
           stay == stillLocked(requests)
           less == withdrawn(user, amount)
           infos == updatePool(poolInfos, pid)
           acc == infos[pid].accRewardPerShare
           debt == ((user.amount - amount) * acc) \div accScale
           pending == (user.amount * acc) \div accScale - user.rewardDebt
           settled == [less EXCEPT !.rewardDebt = debt]
           token == poolInfos[pid].token
           nT == requestedAmount(requests, TRUE)
           sT == requestedAmount(stay, TRUE)
<1>1. /\ validPool(pid) /\ amount > 0
      /\ safeRewardTransfer(u, pending)
      /\ poolInfos' = infos
      /\ withdrawalRequests' = [withdrawalRequests EXCEPT ![pid][u] = stay]
      /\ userInfos' = [userInfos EXCEPT ![pid][u] = settled]
      /\ vaultBalance' = [vaultBalance EXCEPT ![token] = vaultBalance[token] - amount]
      /\ UNCHANGED <<totalAllocPoints, rewardRate, totalPendingWithdrawals, now>>
  BY DEF ExecuteLegacyWithdrawal
<1>2. pid \in DOMAIN poolInfos /\ UserOK(user, requests) /\ user \in UserInfo
  BY <1>1, StakerFacts
<1>3. /\ userInfos \in [Pids -> [Users -> UserInfo]]
      /\ withdrawalRequests \in [Pids -> [Users -> Seq(WithdrawalRequest)]]
      /\ userInfos' \in [Pids -> [Users -> UserInfo]]
      /\ withdrawalRequests' \in [Pids -> [Users -> Seq(WithdrawalRequest)]]
      /\ vaultBalance \in [Tokens -> Nat]
  BY DEF Inv, StakesInv
<1>4. /\ DOMAIN poolInfos' = DOMAIN poolInfos
      /\ \A p \in DOMAIN poolInfos : accNow(p)' = accNow(p)
  <2>1. \A t \in Tokens \ {token} : vaultBalance'[t] = vaultBalance[t]
    BY <1>1, <1>3
  <2>2. \A p \in Pids \ {pid} : totalPendingWithdrawals'[p] = totalPendingWithdrawals[p]
    BY <1>1
  <2> QED BY <1>1, <1>2, <2>1, <2>2, AccOfUpdate
<1>5. accNow(pid) = acc /\ accNow(pid)' = acc
  BY <1>2, <1>4 DEF accNow
<1>6. /\ amount \in Nat /\ less \in UserInfo /\ less.amount = user.amount - amount
      /\ nT = 0 /\ sT = 0 /\ user.amount \in Nat
  <2>1. user.amount \in Nat
    BY <1>2, UserFacts
  <2>2. amount = requestedAmount(unlocked(requests), FALSE) /\ amount > 0
    BY <1>1
  <2> HIDE DEF amount, user, requests
  <2>3. /\ amount \in Nat /\ UserOK(less, stay) /\ less.amount = user.amount - amount
        /\ nT = 0 /\ sT = 0
    BY <1>2, <2>2, Withdrawn, Zenon DEF less, stay, nT, sT
  <2>4. less \in UserInfo
    BY <2>3, Zenon DEF UserOK
  <2> QED BY <2>1, <2>3, <2>4 DEF user
<1> HIDE DEF amount, less, stay
<1>7. settled.amount = user.amount - amount /\ settled.rewardDebt = debt
  <2> HIDE DEF debt
  <2> QED BY <1>6 DEF UserInfo
<1> HIDE DEF settled
<1>8. /\ userInfos'[pid][u] = settled /\ withdrawalRequests'[pid][u] = stay
      /\ \A p \in Pids, w \in Users :
           p # pid \/ w # u => /\ userInfos'[p][w] = userInfos[p][w]
                               /\ withdrawalRequests'[p][w] = withdrawalRequests[p][w]
  BY <1>1, <1>3
<1>9. OnlyStake(pid, u)
  BY <1>3, <1>8 DEF OnlyStake
<1>10. pending = pendingReward(pid, u) /\ pending \in Nat
  <2>1. user.amount - nT = user.amount
    <3> HIDE DEF user, nT
    <3> QED BY <1>6 DEF user
  <2>2. pendingReward(pid, u) = pending
    BY <1>5, <2>1, Zenon DEF pendingReward, accNow
  <2> QED BY <1>2, <2>2, PendingNatural
<1>11. pendingReward(pid, u)' = 0
  <2>1. settled.amount - sT = user.amount - amount
    <3> HIDE DEF user, sT
    <3> QED BY <1>6, <1>7 DEF user
  <2>2. pendingReward(pid, u)' = debt - settled.rewardDebt
    BY <1>5, <1>8, <2>1, Zenon DEF pendingReward, accNow
  <2>3. settled \in UserInfo
    BY <1>8, <1>3
  <2>4. settled.rewardDebt \in Nat
    BY <2>3 DEF UserInfo
  <2> HIDE DEF debt
  <2> QED BY <1>7, <2>2, <2>4
<1> HIDE DEF pending
<1>12. /\ \/ rewardBalance'[u] + pendingRewardTransfers'[u] =
               rewardBalance[u] + pendingRewardTransfers[u] + pendingReward(pid, u)
          \/ storeBalance' = 0
       /\ v # u => /\ rewardBalance'[v] = rewardBalance[v]
                   /\ pendingRewardTransfers'[v] = pendingRewardTransfers[v]
  BY <1>1, <1>10, SafeTransferAdds DEF Inv
<1>13. CASE v # u
  BY <1>2, <1>4, <1>9, <1>12, <1>13, StakerEarns
<1>14. CASE v = u /\ storeBalance' # 0
  BY <1>2, <1>4, <1>9, <1>11, <1>12, <1>14, StakerEarns
<1> QED BY <1>13, <1>14

\* A decision of governance about the pools there are.
LEMMA GovernanceEarns ==
  ASSUME Inv, UNCHANGED <<stakeVars, rewardVars>>,
         DOMAIN poolInfos' = DOMAIN poolInfos,
         \A p \in DOMAIN poolInfos : accNow(p)' = accNow(p), NEW v \in Users
  PROVE  earned(v)' = earned(v)
<1>1. UNCHANGED <<rewardBalance, pendingRewardTransfers, userInfos, withdrawalRequests>>
  BY DEF stakeVars, rewardVars
<1>2. \A p \in DOMAIN poolInfos : pendingReward(p, v)' = pendingReward(p, v)
  BY <1>1, Zenon DEF pendingReward, accNow
<1> QED BY <1>1, <1>2, NothingEarned

\* All pools are updated: no rewards per share of now change.
LEMMA AccOfMass ==
  ASSUME Inv, UNCHANGED now, NEW p \in DOMAIN poolInfos,
         poolInfos'[p].lastReward = massUpdatePools[p].lastReward,
         poolInfos'[p].accRewardPerShare = massUpdatePools[p].accRewardPerShare
  PROVE  accNow(p)' = accNow(p)
<1>1. /\ massUpdatePools[p] = updatePool(poolInfos, p)[p]
      /\ now <= updatePool(poolInfos, p)[p].lastReward
  BY UpdatedToNow DEF massUpdatePools
<1>2. accNow(p) = massUpdatePools[p].accRewardPerShare /\ now <= poolInfos'[p].lastReward
  BY <1>1 DEF accNow
<1> QED BY <1>2, AccSettled

\* A new pool neither gives nor takes what has been earned.
LEMMA AddEarns ==
  ASSUME Inv, Inv', NEW token \in Tokens, NEW points \in AllocPoints,
         NEW rate \in RewardRates, NEW period \in LockPeriods,
         Add(token, points, rate, period), NEW v \in Users
  PROVE  earned(v)' = earned(v)
<1> DEFINE mass == massUpdatePools
           pool == [token |-> token, allocPoint |-> points, lastReward |-> now,
                    accRewardPerShare |-> 0, lockPeriod |-> period]
<1>0. PICK n \in Nat : n = Len(poolInfos)
  <2>1. Len(poolInfos) \in Nat
    BY PoolFacts DEF Inv
  <2> QED BY <2>1
<1>1. /\ poolInfos' = Append(mass, pool)
      /\ n < MaxPools
      /\ UNCHANGED <<rewardBalance, pendingRewardTransfers, userInfos, withdrawalRequests, now>>
  BY <1>0 DEF Add, stakeVars, rewardVars
<1>2. /\ n \in Nat /\ DOMAIN poolInfos = 1 .. n
      /\ mass \in Seq(PoolInfo) /\ DOMAIN mass = DOMAIN poolInfos
      /\ MaxPools \in Nat
  BY <1>0, PoolFacts, MassUpdated, XVSVaultAssumption DEF Inv
<1>3. pool.lastReward = now /\ pool.accRewardPerShare = 0 /\ now \in Nat
  BY DEF Inv
<1> HIDE DEF pool
<1>4. /\ DOMAIN poolInfos' = 1 .. n + 1 /\ poolInfos'[n + 1] = pool
      /\ \A i \in 1 .. n : poolInfos'[i] = mass[i]
  <2> HIDE DEF mass
  <2>1. Len(mass) = n
    BY <1>2
  <2> QED BY <1>1, <1>2, <2>1
<1>5. \A p \in DOMAIN poolInfos : accNow(p)' = accNow(p)
  BY <1>1, <1>2, <1>4, AccOfMass
<1>6. \A p \in DOMAIN poolInfos : pendingReward(p, v)' = pendingReward(p, v)
  BY <1>1, <1>5, Zenon DEF pendingReward, accNow
<1>7. pendingReward(n + 1, v)' = 0
  <2> DEFINE user == userInfos[n + 1][v]
             k == requestedAmount(withdrawalRequests[n + 1][v], TRUE)
  <2>1. n + 1 \in Pids \ DOMAIN poolInfos
    BY <1>1, <1>2 DEF Pids
  <2>2. accNow(n + 1)' = 0
    <3>1. now <= poolInfos'[n + 1].lastReward
      BY <1>3, <1>4
    <3>2. accNow(n + 1)' = poolInfos'[n + 1].accRewardPerShare
      BY <1>1, <3>1, AccSettled
    <3> QED BY <1>3, <1>4, <3>2
  <2>3. user.rewardDebt = 0 /\ user.amount - k \in Nat
    <3>1. UserOK(user, withdrawalRequests[n + 1][v])
      BY <2>1 DEF Inv, StakesInv
    <3>2. user.rewardDebt = 0
      BY <2>1 DEF Inv, BackedInv
    <3> QED BY <3>1, <3>2, UserFacts
  <2>4. pendingReward(n + 1, v)' = ((user.amount - k) * accNow(n + 1)') \div accScale - user.rewardDebt
    BY <1>1, Zenon DEF pendingReward, accNow
  <2> DEFINE m == user.amount - k
  <2>5. m \in Nat
    BY <2>3
  <2> HIDE DEF m
  <2>6. m * 0 = 0 /\ accScale \in Nat \ {0}
    BY <2>5, XVSVaultAssumption
  <2>7. 0 \div accScale = 0
    BY <2>6
  <2>8. pendingReward(n + 1, v)' = 0 - 0
    BY <2>2, <2>3, <2>4, <2>6, <2>7 DEF m
  <2> QED BY <2>8
<1>8. Total(gains(v)') = Total(gains(v))
  <2> DEFINE f == gains(v)
             g == gains(v)'
             D == DOMAIN poolInfos
             E == DOMAIN poolInfos'
  <2>0. D \subseteq E /\ \A p \in E \ D : p = n + 1
    BY <1>2, <1>4
  <2>1. f \in [D -> Nat]
    BY PendingNatural DEF gains
  <2>2. g = [p \in E |-> pendingReward(p, v)']
    BY DEF gains
  <2>3. \A p \in D : g[p] = f[p]
    BY <1>6, <2>0, <2>2 DEF gains
  <2>4. \A p \in E \ D : g[p] = 0
    BY <1>7, <2>0, <2>2
  <2> HIDE DEF f, D, E
  <2>5. g \in [E -> Nat]
    <3>1. \A p \in E : g[p] \in Nat
      BY <2>1, <2>3, <2>4
    <3>2. g = [p \in E |-> g[p]]
      BY <2>2
    <3> HIDE DEF g
    <3> QED BY <3>1, <3>2
  <2> HIDE DEF g
  <2>6. Total(g) = Total(f)
    BY <2>0, <2>1, <2>3, <2>4, <2>5, TotalExtend
  <2> QED BY <2>6 DEF f, g
<1>9. /\ earned(v) = rewardBalance[v] + pendingRewardTransfers[v] + Total(gains(v))
      /\ earned(v)' = rewardBalance'[v] + pendingRewardTransfers'[v] + Total(gains(v)')
  BY DEF earned, gains
<1> QED BY <1>1, <1>8, <1>9

\* No step but time, a gift, or a payment from an empty store changes what a
\* user has earned.
LEMMA NextEarns ==
  ASSUME Inv, Inv', [Next]_vars, NEW v \in Users
  PROVE  \/ earned(v)' = earned(v)
         \/ now' # now
         \/ \E t \in Tokens, n \in Amounts : Donate(t, n)
         \/ storeBalance' = 0 /\ \E pid \in Pids : ExecuteLegacyWithdrawal(v, pid)
<1>0. \A n \in Amounts : n \in Nat
  BY XVSVaultAssumption
<1>1. CASE StakerStep
  <2>1. PICK u \in Users, pid \in Pids :
          \/ Claim(u, pid) \/ ExecuteWithdrawal(u, pid) \/ ExecuteLegacyWithdrawal(u, pid)
          \/ \E n \in Amounts : Deposit(u, pid, n) \/ RequestWithdrawal(u, pid, n)
    BY <1>1 DEF StakerStep
  <2>2. CASE Claim(u, pid)
    BY <2>2, ClaimEarns
  <2>3. CASE ExecuteWithdrawal(u, pid)
    BY <2>3, ExecuteEarns
  <2>4. CASE ExecuteLegacyWithdrawal(u, pid)
    BY <2>4, ExecuteLegacyEarns
  <2>5. ASSUME NEW n \in Amounts, Deposit(u, pid, n) PROVE earned(v)' = earned(v)
    BY <1>0, <2>5, DepositEarns
  <2>6. ASSUME NEW n \in Amounts, RequestWithdrawal(u, pid, n) PROVE earned(v)' = earned(v)
    BY <1>0, <2>6, RequestEarns
  <2> QED BY <2>1, <2>2, <2>3, <2>4, <2>5, <2>6
<1>2. ASSUME UNCHANGED <<poolVars, stakeVars, now, rewardBalance, pendingRewardTransfers>>
      PROVE  earned(v)' = earned(v)
  <2>1. UNCHANGED <<poolInfos, totalAllocPoints, rewardRate, userInfos, withdrawalRequests,
                    totalPendingWithdrawals, vaultBalance, now>>
    BY <1>2 DEF poolVars, stakeVars
  <2>2. \A p \in DOMAIN poolInfos : pendingReward(p, v)' = pendingReward(p, v)
    BY <2>1 DEF pendingReward, updatePool
  <2> QED BY <1>2, <2>1, <2>2, NothingEarned
<1>3. CASE VoterStep
  <2>1. UNCHANGED <<poolVars, stakeVars, rewardVars, now>>
    BY <1>3 DEF VoterStep, Delegate
  <2> QED BY <1>2, <2>1 DEF rewardVars
<1>4. CASE GovernanceStep
  <2>1. ASSUME NEW pid \in Pids, UpdatePool(pid) PROVE earned(v)' = earned(v)
    <3>1. /\ pid \in DOMAIN poolInfos /\ poolInfos' = updatePool(poolInfos, pid)
          /\ UNCHANGED <<totalAllocPoints, rewardRate, stakeVars, rewardVars, now>>
      BY <2>1 DEF UpdatePool, validPool
    <3>2. /\ DOMAIN poolInfos' = DOMAIN poolInfos
          /\ \A p \in DOMAIN poolInfos : accNow(p)' = accNow(p)
      BY <3>1, AccOfUpdate DEF stakeVars
    <3> QED BY <3>1, <3>2, GovernanceEarns
  <2>2. ASSUME NEW pid \in Pids, NEW points \in AllocPoints, SetAllocPoint(pid, points)
        PROVE  earned(v)' = earned(v)
    <3> DEFINE mass == massUpdatePools
    <3>1. /\ poolInfos' = [mass EXCEPT ![pid].allocPoint = points]
          /\ UNCHANGED <<stakeVars, rewardVars, now>>
      BY <2>2 DEF SetAllocPoint
    <3>2. mass \in Seq(PoolInfo) /\ DOMAIN mass = DOMAIN poolInfos
      BY MassUpdated
    <3> HIDE DEF mass
    <3>3. ASSUME NEW p \in DOMAIN poolInfos
          PROVE  /\ poolInfos'[p].lastReward = mass[p].lastReward
                 /\ poolInfos'[p].accRewardPerShare = mass[p].accRewardPerShare
      <4>1. mass[p] \in PoolInfo
        BY <3>2
      <4>2. CASE p = pid
        <5>1. poolInfos'[p] = [mass[p] EXCEPT !.allocPoint = points]
          BY <3>1, <3>2, <4>2
        <5> QED BY <4>1, <5>1 DEF PoolInfo
      <4>3. CASE p # pid
        BY <3>1, <3>2, <4>3
      <4> QED BY <4>2, <4>3
    <3>4. /\ DOMAIN poolInfos' = DOMAIN poolInfos
          /\ \A p \in DOMAIN poolInfos : accNow(p)' = accNow(p)
      BY <3>1, <3>2, <3>3, AccOfMass DEF mass
    <3> QED BY <3>1, <3>4, GovernanceEarns
  <2>3. ASSUME NEW pid \in Pids, NEW period \in LockPeriods,
               SetWithdrawalLockingPeriod(pid, period)
        PROVE  earned(v)' = earned(v)
    <3>1. /\ poolInfos' = [poolInfos EXCEPT ![pid].lockPeriod = period]
          /\ UNCHANGED <<totalAllocPoints, rewardRate, stakeVars, rewardVars, now>>
      BY <2>3 DEF SetWithdrawalLockingPeriod
    <3>2. /\ poolInfos \in Seq(PoolInfo) /\ poolInfos' \in Seq(PoolInfo)
          /\ UNCHANGED <<vaultBalance, totalPendingWithdrawals>>
      BY <3>1 DEF Inv, PoolsInv, stakeVars
    <3>3. ASSUME NEW p \in DOMAIN poolInfos
          PROVE  /\ p \in DOMAIN poolInfos'
                 /\ poolInfos'[p].token = poolInfos[p].token
                 /\ poolInfos'[p].allocPoint = poolInfos[p].allocPoint
                 /\ poolInfos'[p].lastReward = poolInfos[p].lastReward
                 /\ poolInfos'[p].accRewardPerShare = poolInfos[p].accRewardPerShare
      <4>1. poolInfos[p] \in PoolInfo
        BY <3>2
      <4>2. CASE p = pid
        <5>1. poolInfos'[p] = [poolInfos[p] EXCEPT !.lockPeriod = period]
              /\ p \in DOMAIN poolInfos'
          BY <3>1, <4>2
        <5> QED BY <4>1, <5>1 DEF PoolInfo
      <4>3. CASE p # pid
        BY <3>1, <4>3
      <4> QED BY <4>2, <4>3
    <3>4. \A p \in DOMAIN poolInfos : accNow(p)' = accNow(p)
      BY <3>1, <3>2, <3>3, AccUnchanged
    <3>5. DOMAIN poolInfos' = DOMAIN poolInfos
      BY <3>1
    <3> QED BY <3>1, <3>4, <3>5, GovernanceEarns
  <2>4. ASSUME NEW rate \in RewardRates, SetRewardRate(rate) PROVE earned(v)' = earned(v)
    <3>1. poolInfos' = massUpdatePools /\ UNCHANGED <<stakeVars, rewardVars, now>>
      BY <2>4 DEF SetRewardRate
    <3>2. /\ DOMAIN poolInfos' = DOMAIN poolInfos
          /\ \A p \in DOMAIN poolInfos : accNow(p)' = accNow(p)
      BY <3>1, MassUpdated, AccOfMass
    <3> QED BY <3>1, <3>2, GovernanceEarns
  <2>5. ASSUME NEW rate \in RewardRates, NEW t \in Tokens, NEW points \in AllocPoints,
               NEW period \in LockPeriods, Add(t, points, rate, period)
        PROVE  earned(v)' = earned(v)
    BY <2>5, AddEarns
  <2>6. CASE PauseOrResume
    BY <1>2, <2>6 DEF PauseOrResume, rewardVars
  <2> QED BY <1>4, <2>1, <2>2, <2>3, <2>4, <2>5, <2>6 DEF GovernanceStep
<1>5. CASE EnvironmentStep
  <2>1. CASE Tick
    <3>1. now \in Nat /\ now' = now + 1
      BY <2>1 DEF Inv, Tick
    <3> QED BY <3>1
  <2>2. ASSUME NEW n \in Fundings, FundStore(n) PROVE earned(v)' = earned(v)
    BY <1>2, <2>2 DEF FundStore
  <2> QED BY <1>5, <2>1, <2>2 DEF EnvironmentStep
<1>6. CASE UNCHANGED vars
  BY <1>2, <1>6 DEF vars, rewardVars
<1> QED BY <1>1, <1>3, <1>4, <1>5, <1>6 DEF Next

\* Only time gives rewards and none are lost: no deposit, claim, request,
\* withdrawal or decision of governance changes what any user has earned, in the
\* order in which they happen to be made.
THEOREM EarningsStay == Spec => EarningsKept
<1>1. Inv /\ Inv' /\ [Next]_vars =>
        [\A u \in Users :
           \/ earned(u)' = earned(u)
           \/ now' # now
           \/ \E t \in Tokens, n \in Amounts : Donate(t, n)
           \/ storeBalance' = 0 /\ \E pid \in Pids : ExecuteLegacyWithdrawal(u, pid)]_vars
  BY NextEarns
<1> QED BY <1>1, Invariant, PTL DEF Spec, EarningsKept

-----------------------------------------------------------------------------
(* What a unit of time gives. *)

\* totalAllocPoints is the sum of the points of the pools.
points(infos) == [i \in DOMAIN infos |-> infos[i].allocPoint]
PointsCounted == totalAllocPoints = Total(points(poolInfos))

\* The points of the pools are numbers that have a total.
LEMMA PointsNatural ==
  ASSUME PoolsInv
  PROVE  IsFiniteSet(DOMAIN poolInfos) /\ points(poolInfos) \in [DOMAIN poolInfos -> Nat]
<1>1. DOMAIN poolInfos = 1 .. Len(poolInfos) /\ Len(poolInfos) \in Nat
  BY PoolFacts
<1>2. \A i \in DOMAIN poolInfos : poolInfos[i].allocPoint \in Nat
  BY PoolFacts DEF PoolInfo
<1>3. IsFiniteSet(1 .. Len(poolInfos))
  BY <1>1, FS_Interval
<1> QED BY <1>1, <1>2, <1>3 DEF points

\* They stay when no pool changes its points ...
LEMMA SamePoints ==
  ASSUME PointsCounted, UNCHANGED totalAllocPoints,
         DOMAIN poolInfos' = DOMAIN poolInfos,
         \A i \in DOMAIN poolInfos : poolInfos'[i].allocPoint = poolInfos[i].allocPoint
  PROVE  PointsCounted'
<1>1. points(poolInfos)' = points(poolInfos)
  BY DEF points
<1> QED BY <1>1 DEF PointsCounted

\* ... as when one pool is updated, ...
LEMMA UpdateKeepsPoints ==
  ASSUME Inv, PointsCounted, NEW pid \in DOMAIN poolInfos,
         poolInfos' = updatePool(poolInfos, pid), UNCHANGED totalAllocPoints
  PROVE  PointsCounted'
<1> DEFINE infos == updatePool(poolInfos, pid)
<1>1. /\ DOMAIN infos = DOMAIN poolInfos
      /\ infos[pid].allocPoint = poolInfos[pid].allocPoint
      /\ \A i \in DOMAIN poolInfos \ {pid} : infos[i] = poolInfos[i]
  BY UpdatedPool
<1>2. poolInfos' = infos
  OBVIOUS
<1> HIDE DEF infos
<1>3. \A i \in DOMAIN poolInfos : poolInfos'[i].allocPoint = poolInfos[i].allocPoint
  BY <1>1, <1>2
<1> QED BY <1>1, <1>2, <1>3, SamePoints

\* ... and follow the points of a pool that changes them or is new.
LEMMA PointsSet ==
  ASSUME Inv, PointsCounted, NEW pid \in Pids, NEW new \in AllocPoints, SetAllocPoint(pid, new)
  PROVE  PointsCounted'
<1> DEFINE mass == massUpdatePools
           old == points(poolInfos)
<1>1. /\ pid \in DOMAIN poolInfos /\ poolInfos' = [mass EXCEPT ![pid].allocPoint = new]
      /\ totalAllocPoints' = totalAllocPoints - poolInfos[pid].allocPoint + new
  BY DEF SetAllocPoint, validPool, newTotalAllocPoints
<1>2. /\ mass \in Seq(PoolInfo) /\ DOMAIN mass = DOMAIN poolInfos
      /\ \A i \in DOMAIN poolInfos : mass[i].allocPoint = poolInfos[i].allocPoint
  BY MassUpdated
<1>3. /\ IsFiniteSet(DOMAIN poolInfos) /\ old \in [DOMAIN poolInfos -> Nat] /\ new \in Nat
      /\ old[pid] = poolInfos[pid].allocPoint
  BY <1>1, PointsNatural, XVSVaultAssumption DEF Inv, points
<1> HIDE DEF mass
<1>4. points(poolInfos)' = [old EXCEPT ![pid] = new]
  <2>1. DOMAIN poolInfos' = DOMAIN poolInfos
    BY <1>1, <1>2
  <2>2. ASSUME NEW i \in DOMAIN poolInfos
        PROVE  poolInfos'[i].allocPoint = IF i = pid THEN new ELSE poolInfos[i].allocPoint
    <3>1. mass[i] \in PoolInfo
      BY <1>2
    <3>2. CASE i = pid
      <4>1. poolInfos'[i] = [mass[i] EXCEPT !.allocPoint = new]
        BY <1>1, <1>2, <3>2
      <4> QED BY <3>1, <3>2, <4>1 DEF PoolInfo
    <3>3. CASE i # pid
      BY <1>1, <1>2, <3>3
    <3> QED BY <3>2, <3>3
  <2> QED BY <2>1, <2>2 DEF points
<1> HIDE DEF old
<1>5. Total([old EXCEPT ![pid] = new]) = Total(old) - old[pid] + new
  BY <1>1, <1>3, TotalExcept
<1> QED BY <1>1, <1>3, <1>4, <1>5 DEF PointsCounted, old

\* A new pool adds its points.
LEMMA PointsAdded ==
  ASSUME Inv, PointsCounted, NEW token \in Tokens, NEW new \in AllocPoints,
         NEW rate \in RewardRates, NEW period \in LockPeriods, Add(token, new, rate, period)
  PROVE  PointsCounted'
<1> DEFINE mass == massUpdatePools
           pool == [token |-> token, allocPoint |-> new, lastReward |-> now,
                    accRewardPerShare |-> 0, lockPeriod |-> period]
           n == Len(poolInfos)
           old == points(poolInfos)
           wide == [i \in 1 .. n + 1 |-> IF i = n + 1 THEN 0 ELSE old[i]]
<1>1. /\ poolInfos' = Append(mass, pool) /\ totalAllocPoints' = totalAllocPoints + new
  BY DEF Add
<1>2. /\ mass \in Seq(PoolInfo) /\ DOMAIN mass = DOMAIN poolInfos
      /\ \A i \in DOMAIN poolInfos : mass[i].allocPoint = poolInfos[i].allocPoint
  BY MassUpdated
<1>3. /\ n \in Nat /\ DOMAIN poolInfos = 1 .. n /\ new \in Nat
      /\ old \in [1 .. n -> Nat]
  BY PointsNatural, PoolFacts, XVSVaultAssumption DEF Inv
<1>4. pool.allocPoint = new
  OBVIOUS
<1> HIDE DEF mass, pool, n
<1>5. /\ DOMAIN poolInfos' = 1 .. n + 1 /\ poolInfos'[n + 1] = pool
      /\ \A i \in 1 .. n : poolInfos'[i] = mass[i]
  BY <1>1, <1>2, <1>3
<1>6. /\ wide \in [1 .. n + 1 -> Nat] /\ wide[n + 1] = 0 /\ n + 1 \in 1 .. n + 1
      /\ \A i \in 1 .. n : wide[i] = old[i]
      /\ \A i \in (1 .. n + 1) \ (1 .. n) : wide[i] = 0
      /\ 1 .. n \subseteq 1 .. n + 1 /\ IsFiniteSet(1 .. n + 1)
  <2>1. \A i \in 1 .. n + 1 : i = n + 1 \/ i \in 1 .. n
    BY <1>3
  <2>2. n + 1 \in 1 .. n + 1 /\ n + 1 \notin 1 .. n /\ 1 .. n \subseteq 1 .. n + 1
    BY <1>3
  <2>3. IsFiniteSet(1 .. n + 1)
    BY <1>3, FS_Interval
  <2> HIDE DEF old
  <2> QED BY <1>3, <2>1, <2>2, <2>3
<1>7. points(poolInfos)' = [wide EXCEPT ![n + 1] = new]
  <2>1. \A i \in 1 .. n + 1 : i = n + 1 \/ i \in 1 .. n
    BY <1>3
  <2>2. \A i \in 1 .. n : poolInfos'[i].allocPoint = old[i]
    BY <1>2, <1>3, <1>5 DEF points
  <2>3. \A i \in 1 .. n + 1 :
          poolInfos'[i].allocPoint = IF i = n + 1 THEN new ELSE wide[i]
    BY <1>4, <1>5, <1>6, <2>1, <2>2
  <2> HIDE DEF wide
  <2>4. points(poolInfos)' = [i \in 1 .. n + 1 |-> poolInfos'[i].allocPoint]
    BY <1>5 DEF points
  <2> QED BY <1>6, <2>3, <2>4
<1> HIDE DEF wide, old
<1>8. Total(wide) = Total(old)
  <2> DEFINE D == 1 .. n
             E == 1 .. n + 1
  <2>1. /\ D \subseteq E /\ old \in [D -> Nat] /\ wide \in [E -> Nat]
        /\ \A i \in D : wide[i] = old[i]
        /\ \A i \in E \ D : wide[i] = 0
    BY <1>3, <1>6
  <2> HIDE DEF D, E
  <2> QED BY <2>1, TotalExtend
<1>9. Total([wide EXCEPT ![n + 1] = new]) = Total(wide) - 0 + new
  <2> DEFINE E == 1 .. n + 1
             k == n + 1
  <2>1. IsFiniteSet(E) /\ wide \in [E -> Nat] /\ k \in E /\ wide[k] = 0
    BY <1>6
  <2> HIDE DEF E, k
  <2>2. Total([wide EXCEPT ![k] = new]) = Total(wide) - wide[k] + new
    BY <1>3, <2>1, TotalExcept
  <2> QED BY <2>1, <2>2 DEF k
<1>10. Total(old) = totalAllocPoints /\ totalAllocPoints \in Nat
  BY DEF PointsCounted, Inv, PoolsInv, old
<1> QED BY <1>1, <1>3, <1>7, <1>8, <1>9, <1>10 DEF PointsCounted

\* Every step keeps the sum of the points.
LEMMA NextPoints ==
  ASSUME Inv, PointsCounted, [Next]_vars
  PROVE  PointsCounted'
<1>1. ASSUME UNCHANGED poolVars PROVE PointsCounted'
  BY <1>1, SamePoints DEF poolVars
<1>2. ASSUME NEW pid \in Pids, validPool(pid), poolInfos' = updatePool(poolInfos, pid),
             UNCHANGED totalAllocPoints
      PROVE  PointsCounted'
  BY <1>2, UpdateKeepsPoints DEF validPool
<1>3. CASE StakerStep
  <2>1. PICK u \in Users, pid \in Pids :
          \/ Claim(u, pid) \/ ExecuteWithdrawal(u, pid) \/ ExecuteLegacyWithdrawal(u, pid)
          \/ \E n \in Amounts : Deposit(u, pid, n) \/ RequestWithdrawal(u, pid, n)
    BY <1>3 DEF StakerStep
  <2>2. CASE Claim(u, pid)
    BY <1>2, <2>2 DEF Claim
  <2>3. CASE ExecuteWithdrawal(u, pid)
    BY <1>1, <2>3 DEF ExecuteWithdrawal
  <2>4. CASE ExecuteLegacyWithdrawal(u, pid)
    BY <1>2, <2>4 DEF ExecuteLegacyWithdrawal
  <2>5. ASSUME NEW n \in Amounts, Deposit(u, pid, n) PROVE PointsCounted'
    BY <1>2, <2>5 DEF Deposit
  <2>6. ASSUME NEW n \in Amounts, RequestWithdrawal(u, pid, n) PROVE PointsCounted'
    BY <1>2, <2>6 DEF RequestWithdrawal
  <2> QED BY <2>1, <2>2, <2>3, <2>4, <2>5, <2>6
<1>4. CASE VoterStep
  BY <1>1, <1>4 DEF VoterStep, Delegate
<1>5. CASE GovernanceStep
  <2>1. ASSUME NEW pid \in Pids, UpdatePool(pid) PROVE PointsCounted'
    BY <1>2, <2>1 DEF UpdatePool
  <2>2. ASSUME NEW pid \in Pids, NEW new \in AllocPoints, SetAllocPoint(pid, new)
        PROVE  PointsCounted'
    BY <2>2, PointsSet
  <2>3. ASSUME NEW pid \in Pids, NEW period \in LockPeriods,
               SetWithdrawalLockingPeriod(pid, period)
        PROVE  PointsCounted'
    <3>1. /\ poolInfos' = [poolInfos EXCEPT ![pid].lockPeriod = period]
          /\ UNCHANGED totalAllocPoints
      BY <2>3 DEF SetWithdrawalLockingPeriod
    <3>2. \A i \in DOMAIN poolInfos : poolInfos[i] \in PoolInfo
      BY PoolFacts DEF Inv
    <3>3. ASSUME NEW i \in DOMAIN poolInfos
          PROVE  poolInfos'[i].allocPoint = poolInfos[i].allocPoint
      <4>1. CASE i = pid
        <5>1. poolInfos'[i] = [poolInfos[i] EXCEPT !.lockPeriod = period]
          BY <3>1, <4>1
        <5> QED BY <3>2, <5>1 DEF PoolInfo
      <4>2. CASE i # pid
        BY <3>1, <4>2
      <4> QED BY <4>1, <4>2
    <3>4. DOMAIN poolInfos' = DOMAIN poolInfos
      BY <3>1
    <3> QED BY <3>1, <3>3, <3>4, SamePoints
  <2>4. ASSUME NEW rate \in RewardRates, SetRewardRate(rate) PROVE PointsCounted'
    <3>1. poolInfos' = massUpdatePools /\ UNCHANGED totalAllocPoints
      BY <2>4 DEF SetRewardRate
    <3> QED BY <3>1, MassUpdated, SamePoints
  <2>5. ASSUME NEW rate \in RewardRates, NEW t \in Tokens, NEW new \in AllocPoints,
               NEW period \in LockPeriods, Add(t, new, rate, period)
        PROVE  PointsCounted'
    BY <2>5, PointsAdded
  <2>6. CASE PauseOrResume
    BY <1>1, <2>6 DEF PauseOrResume
  <2> QED BY <1>5, <2>1, <2>2, <2>3, <2>4, <2>5, <2>6 DEF GovernanceStep
<1>6. CASE EnvironmentStep
  BY <1>1, <1>6 DEF EnvironmentStep, Tick, FundStore, Donate
<1>7. CASE UNCHANGED vars
  BY <1>1, <1>7 DEF vars
<1> QED BY <1>3, <1>4, <1>5, <1>6, <1>7 DEF Next

\* And it is right at the start.
LEMMA InitPoints ==
  ASSUME Init
  PROVE  PointsCounted
BY DEF Init, InitWith, PointsCounted, points

\* In one more unit of time a quotient of time grows by its part of that unit,
\* rounded up.
LEMMA QuotientRises ==
  ASSUME NEW t \in Nat, NEW k \in Nat, NEW m \in Nat \ {0}
  PROVE  /\ (t * k) \div m \in Nat /\ ((t + 1) * k) \div m \in Nat /\ k \div m \in Nat
         /\ (t * k) \div m <= ((t + 1) * k) \div m
         /\ ((t + 1) * k) \div m <= (t * k) \div m + (k \div m + 1)
<1> DEFINE a == t * k
           b == (t + 1) * k
<1>1. a \in Nat /\ b \in Nat /\ b = a + k
  OBVIOUS
<1> HIDE DEF a, b
<1> DEFINE p == a \div m
           q == b \div m
           g == k \div m
<1>2. /\ p \in Nat /\ q \in Nat /\ g \in Nat
      /\ a < p * m + m /\ q * m <= b /\ k < g * m + m
  BY <1>1, DivBounds
<1>3. p <= q
  BY <1>1, DivMonotone
<1> HIDE DEF p, q, g
<1>4. q * m < (p + g + 2) * m
  <2> DEFINE x == p * m
             y == g * m
             z == q * m
  <2>1. x \in Nat /\ y \in Nat /\ z \in Nat /\ (p + g + 2) * m = ((x + y) + m) + m
    BY <1>2
  <2>2. a < x + m /\ z <= b /\ k < y + m
    BY <1>2
  <2> HIDE DEF x, y, z
  <2>3. z < ((x + y) + m) + m
    BY <1>1, <2>1, <2>2
  <2> QED BY <2>1, <2>3 DEF z
<1>5. q < p + g + 2
  BY <1>2, <1>4, MulCancel
<1>6. q <= p + (g + 1)
  BY <1>2, <1>5
<1> QED BY <1>2, <1>3, <1>6 DEF p, q, g, a, b

\* Rewards that grow by at most q make rewards per share that are worth at most
\* q and one unit of them for the whole supply.
LEMMA ShareRises ==
  ASSUME NEW r \in Nat, NEW s \in Nat, r <= s, NEW q \in Nat, s <= r + q,
         NEW supply \in Nat \ {0}
  PROVE  \E d \in Nat :
           /\ (s * accScale) \div supply = (r * accScale) \div supply + d
           /\ d * supply <= q * accScale + supply
<1>1. accScale \in Nat \ {0}
  BY XVSVaultAssumption
<1> DEFINE x == r * accScale
           y == s * accScale
           z == q * accScale
<1>2. x \in Nat /\ y \in Nat /\ z \in Nat /\ x <= y
  BY <1>1, MulMonotone
<1>3. y <= x + z
  <2>1. s * accScale <= (r + q) * accScale
    BY <1>1, MulMonotone
  <2>2. (r + q) * accScale = r * accScale + q * accScale
    BY <1>1
  <2> QED BY <2>1, <2>2
<1> HIDE DEF x, y, z
<1> DEFINE a == x \div supply
           b == y \div supply
           d == b - a
<1>4. /\ a \in Nat /\ b \in Nat /\ a <= b /\ x < a * supply + supply /\ b * supply <= y
  BY <1>2, DivBounds, DivMonotone
<1> HIDE DEF a, b
<1>5. d \in Nat /\ b = a + d
  BY <1>4
<1> HIDE DEF d
<1>6. d * supply <= z + supply
  <2> DEFINE m == a * supply
             n == d * supply
             l == b * supply
  <2>1. m \in Nat /\ n \in Nat /\ l \in Nat
    BY <1>4, <1>5
  <2>2. l = m + n
    BY <1>4, <1>5
  <2>3. x < m + supply /\ l <= y
    BY <1>4
  <2> HIDE DEF m, n, l
  <2>4. n <= z + supply
    BY <1>2, <1>3, <2>1, <2>2, <2>3
  <2> QED BY <2>4 DEF n
<1> QED BY <1>5, <1>6 DEF a, b, x, y, z

\* What a stake is due grows by at most its part of the rewards, rounded up.
LEMMA DueRises ==
  ASSUME NEW n \in Nat, NEW acc \in Nat, NEW d \in Nat
  PROVE  /\ due(n, acc) \in Nat /\ due(n, acc + d) \in Nat /\ due(n, acc) <= due(n, acc + d)
         /\ accScale * due(n, acc + d) <= accScale * due(n, acc) + (accScale * 1 + d * n)
<1>1. accScale \in Nat \ {0}
  BY XVSVaultAssumption
<1> DEFINE x == n * acc
           y == n * (acc + d)
           z == d * n
<1>2. x \in Nat /\ y \in Nat /\ z \in Nat /\ y = x + z
  OBVIOUS
<1>3. due(n, acc) = x \div accScale /\ due(n, acc + d) = y \div accScale
  BY DEF due
<1> HIDE DEF x, y, z
<1> DEFINE a == x \div accScale
           b == y \div accScale
<1>4. /\ a \in Nat /\ b \in Nat /\ a <= b
      /\ x < a * accScale + accScale /\ b * accScale <= y
  BY <1>1, <1>2, DivBounds, DivMonotone
<1> HIDE DEF a, b
<1>5. accScale * b <= accScale * a + (accScale * 1 + z)
  <2> DEFINE m == a * accScale
             l == b * accScale
  <2>1. m \in Nat /\ l \in Nat /\ accScale * a = m /\ accScale * b = l /\ accScale * 1 = accScale
    BY <1>1, <1>4
  <2>2. x < m + accScale /\ l <= y
    BY <1>4
  <2> HIDE DEF m, l
  <2>3. l <= m + (accScale + z)
    BY <1>1, <1>2, <2>1, <2>2
  <2> QED BY <2>1, <2>3
<1> QED BY <1>3, <1>4, <1>5 DEF a, b, z

\* All users of a pool together: s are their stakes, d is what the rewards per
\* share grow by.
LEMMA UsersEarn ==
  ASSUME NEW D, IsFiniteSet(D), NEW P \in [D -> Nat], NEW Q \in [D -> Nat],
         NEW s \in [D -> Nat], NEW d \in Nat, NEW supply \in Nat, Total(s) <= supply,
         \A u \in D : accScale * Q[u] <= accScale * P[u] + (accScale * 1 + d * s[u]),
         NEW q \in Nat, d * supply <= q * accScale + supply
  PROVE  Total(Q) <= Total(P) + q + Cardinality(D) + supply \div accScale
<1>1. accScale \in Nat \ {0}
  BY XVSVaultAssumption
<1> DEFINE ones == [u \in D |-> 1]
           scaledQ == [u \in D |-> accScale * Q[u]]
           scaledP == [u \in D |-> accScale * P[u]]
           rounded == [u \in D |-> accScale * ones[u]]
           shares == [u \in D |-> d * s[u]]
           added == [u \in D |-> rounded[u] + shares[u]]
           most == [u \in D |-> scaledP[u] + added[u]]
<1>2. ones \in [D -> Nat] /\ \A u \in D : ones[u] = 1
  OBVIOUS
<1>3. Total(ones) = Cardinality(D) /\ Cardinality(D) \in Nat
  BY TotalOnes
<1> HIDE DEF ones
<1>4. /\ scaledQ \in [D -> Nat] /\ scaledP \in [D -> Nat] /\ rounded \in [D -> Nat]
      /\ shares \in [D -> Nat]
  BY <1>1, <1>2
<1>5. /\ Total(scaledQ) = accScale * Total(Q) /\ Total(scaledP) = accScale * Total(P)
      /\ Total(rounded) = accScale * Cardinality(D) /\ Total(shares) = d * Total(s)
  <2>1. Total(scaledQ) = accScale * Total(Q)
    BY <1>1, TotalTimes
  <2>2. Total(scaledP) = accScale * Total(P)
    BY <1>1, TotalTimes
  <2>3. Total(rounded) = accScale * Total(ones)
    BY <1>1, <1>2, TotalTimes
  <2>4. Total(shares) = d * Total(s)
    BY TotalTimes
  <2> QED BY <1>3, <2>1, <2>2, <2>3, <2>4, Zenon
<1>6. \A u \in D : scaledQ[u] <= scaledP[u] + (rounded[u] + shares[u])
  BY <1>2
<1> HIDE DEF scaledQ, scaledP, rounded, shares
<1>7. added \in [D -> Nat] /\ Total(added) = Total(rounded) + Total(shares)
  BY <1>4, TotalSum
<1>8. \A u \in D : scaledQ[u] <= scaledP[u] + added[u]
  BY <1>6
<1> HIDE DEF added
<1>9. most \in [D -> Nat] /\ Total(most) = Total(scaledP) + Total(added)
  BY <1>4, <1>7, TotalSum
<1>10. \A u \in D : scaledQ[u] <= most[u]
  BY <1>8
<1> HIDE DEF most
<1>11. Total(scaledQ) <= Total(most)
  BY <1>4, <1>9, <1>10, TotalMonotone
<1>12. Total(P) \in Nat /\ Total(Q) \in Nat /\ Total(s) \in Nat
  BY TotalBounds
<1> DEFINE a == Total(P)
           b == Total(Q)
           c == Cardinality(D)
           e == supply \div accScale
<1>13. e \in Nat /\ supply < e * accScale + accScale
  BY <1>1, DivBounds
<1>14. d * Total(s) <= d * supply /\ d * Total(s) \in Nat /\ d * supply \in Nat
  <2>1. Total(s) * d <= supply * d
    BY <1>12, MulMonotone
  <2> QED BY <1>12, <2>1
<1>15. accScale * b <= (accScale * a) + (accScale * c + d * Total(s))
  BY <1>5, <1>7, <1>9, <1>11
<1> HIDE DEF e
<1>16. b * accScale < (a + q + c + e + 1) * accScale
  <2> DEFINE x == accScale * a
             y == accScale * b
             z == accScale * c
             w == accScale * e
             v == accScale * q
             o == d * Total(s)
             m == d * supply
  <2>1. x \in Nat /\ y \in Nat /\ z \in Nat /\ w \in Nat /\ v \in Nat /\ o \in Nat /\ m \in Nat
    BY <1>1, <1>3, <1>12, <1>13, <1>14
  <2>2. b * accScale = y /\ e * accScale = w /\ q * accScale = v
    BY <1>1, <1>12, <1>13
  <2>3. (a + q + c + e + 1) * accScale = (((x + v) + z) + w) + accScale
    BY <1>1, <1>3, <1>12, <1>13
  <2>4. o <= m /\ m <= v + supply /\ supply < w + accScale /\ y <= x + (z + o)
    BY <1>13, <1>14, <1>15, <2>2
  <2> HIDE DEF x, y, z, w, v, o, m
  <2>5. y < (((x + v) + z) + w) + accScale
    BY <1>1, <2>1, <2>4
  <2> QED BY <2>2, <2>3, <2>5
<1>17. b < a + q + c + e + 1
  <2>1. a + q + c + e + 1 \in Nat /\ b \in Nat
    BY <1>3, <1>12, <1>13
  <2> HIDE DEF a, b, c
  <2> QED BY <1>1, <1>16, <2>1, MulCancel
<1>18. b <= a + q + c + e
  BY <1>3, <1>12, <1>13, <1>17
<1> QED BY <1>18 DEF e

\* The parts of the rate that the pools get do not exceed it.
LEMMA PartsOfRate ==
  ASSUME NEW D, IsFiniteSet(D), NEW f \in [D -> Nat], NEW rate \in Nat, Total(f) > 0
  PROVE  LET part == [i \in D |-> (rate * f[i]) \div Total(f)]
         IN  part \in [D -> Nat] /\ Total(part) <= rate
<1> DEFINE m == Total(f)
           part == [i \in D |-> (rate * f[i]) \div m]
           times == [i \in D |-> m * part[i]]
           given == [i \in D |-> rate * f[i]]
<1>1. m \in Nat \ {0}
  BY TotalBounds
<1> HIDE DEF m
<1>2. ASSUME NEW i \in D
      PROVE  /\ rate * f[i] \in Nat /\ (rate * f[i]) \div m \in Nat
             /\ m * ((rate * f[i]) \div m) \in Nat
             /\ m * ((rate * f[i]) \div m) <= rate * f[i]
  <2> DEFINE n == rate * f[i]
  <2>1. n \in Nat
    OBVIOUS
  <2> HIDE DEF n
  <2>2. n \div m \in Nat /\ (n \div m) * m <= n
    BY <1>1, <2>1, DivBounds
  <2>3. m * (n \div m) = (n \div m) * m /\ m * (n \div m) \in Nat
    BY <1>1, <2>2
  <2> QED BY <2>1, <2>2, <2>3 DEF n
<1>3. /\ part \in [D -> Nat] /\ given \in [D -> Nat] /\ times \in [D -> Nat]
      /\ \A i \in D : times[i] <= given[i]
  BY <1>2
<1>4. Total(given) = rate * Total(f)
  BY TotalTimes
<1> HIDE DEF part, given
<1>5. Total(times) = m * Total(part)
  BY <1>1, <1>3, TotalTimes
<1> HIDE DEF times
<1>6. Total(times) <= Total(given)
  BY <1>3, TotalMonotone
<1>7. Total(part) \in Nat
  BY <1>3, TotalBounds
<1>8. Total(part) * m <= rate * m
  BY <1>1, <1>4, <1>5, <1>6, <1>7 DEF m
<1>9. Total(part) <= rate
  BY <1>1, <1>7, <1>8, MulCancel
<1> QED BY <1>3, <1>9 DEF part, m

supplyOf(pid) == vaultBalance[poolInfos[pid].token] - totalPendingWithdrawals[pid]
partOfRate(pid) == (rewardRate * poolInfos[pid].allocPoint) \div totalAllocPoints
earning(pid) == [u \in Users |-> userInfos[pid][u].amount - waiting(pid, u)]
owed(pid) == [u \in Users |-> pendingReward(pid, u)]

\* A tick changes nothing but the time.
LEMMA TickOnly ==
  ASSUME Inv, Tick
  PROVE  /\ now \in Nat /\ now' = now + 1
         /\ UNCHANGED <<poolInfos, totalAllocPoints, rewardRate, userInfos, withdrawalRequests,
                        totalPendingWithdrawals, vaultBalance, pendingRewardTransfers,
                        rewardBalance>>
BY DEF Inv, Tick, poolVars, stakeVars, rewardVars

\* In one unit of time the rewards per share of a pool grow by its part of the
\* rate, up to their own rounding.
LEMMA PoolRises ==
  ASSUME Inv, Tick, NEW pid \in DOMAIN poolInfos
  PROVE  \E d \in Nat :
           /\ accNow(pid)' = accNow(pid) + d
           /\ d * supplyOf(pid) <= (partOfRate(pid) + 1) * accScale + supplyOf(pid)
<1> DEFINE pool == poolInfos[pid]
           supply == supplyOf(pid)
           k == rewardRate * pool.allocPoint
           m == totalAllocPoints
           rewards(t) == (((t - pool.lastReward) * rewardRate * pool.allocPoint) \div m)
           after(t) == pool.accRewardPerShare + (rewards(t) * accScale) \div supply
<1>1. /\ now \in Nat /\ now' = now + 1
      /\ UNCHANGED <<poolInfos, totalAllocPoints, rewardRate, userInfos, withdrawalRequests,
                     totalPendingWithdrawals, vaultBalance>>
  BY TickOnly
<1>2. /\ poolInfos \in Seq(PoolInfo) /\ pool \in PoolInfo /\ m \in Nat \ {0}
      /\ rewardRate \in Nat /\ accScale \in Nat \ {0} /\ supply \in Nat
  <2>1. m \in Nat \ {0}
    BY DEF Inv, PoolsInv
  <2>2. supply \in Nat
    BY SupplyNatural DEF Inv, supplyOf
  <2> QED BY <2>1, <2>2, PoolFacts, XVSVaultAssumption DEF Inv, PoolsInv
<1>3. /\ pool.allocPoint \in Nat /\ pool.lastReward \in Nat /\ pool.accRewardPerShare \in Nat
      /\ k \in Nat
  BY <1>2 DEF PoolInfo
<1>4. accNow(pid) = updatedAcc(pool, supply) /\ accNow(pid)' = updatedAcc(pool, supply)'
  <2>1. supply = vaultBalance[pool.token] - totalPendingWithdrawals[pid]
    BY DEF supplyOf
  <2> QED BY <1>1, <1>2, <2>1, AccsNow DEF supplyOf
<1>5. partOfRate(pid) \in Nat
  <2>1. partOfRate(pid) = k \div m
    BY DEF partOfRate
  <2> HIDE DEF k, m
  <2> QED BY <1>2, <1>3, <2>1, DivBounds
<1>6. supply' = supply
  BY <1>1 DEF supplyOf
<1> HIDE DEF supply
<1>7. CASE now' <= pool.lastReward \/ supply = 0
  <2>1. now <= pool.lastReward \/ supply = 0
    BY <1>1, <1>3, <1>7
  <2>2. accNow(pid) = pool.accRewardPerShare /\ accNow(pid)' = pool.accRewardPerShare
    BY <1>1, <1>4, <1>6, <1>7, <2>1 DEF updatedAcc
  <2>3. accNow(pid)' = accNow(pid) + 0
    BY <1>3, <2>2
  <2>4. 0 * supply <= (partOfRate(pid) + 1) * accScale + supply
    <3> DEFINE g == partOfRate(pid) + 1
               z == g * accScale
    <3>1. z \in Nat
      BY <1>2, <1>5
    <3> HIDE DEF z
    <3>2. 0 * supply <= z + supply
      BY <1>2, <3>1
    <3> QED BY <3>2 DEF z
  <2> QED BY <2>3, <2>4 DEF supply
<1>8. CASE ~(now' <= pool.lastReward) /\ supply # 0
  <2> DEFINE t == now - pool.lastReward
             r == (t * k) \div m
             s == ((t + 1) * k) \div m
             q == partOfRate(pid) + 1
  <2>1. t \in Nat /\ now' - pool.lastReward = t + 1
    BY <1>1, <1>3, <1>8
  <2>2. accNow(pid)' = pool.accRewardPerShare + (s * accScale) \div supply
    <3>1. accNow(pid)' = after(now')
      BY <1>1, <1>4, <1>6, <1>8 DEF updatedAcc
    <3>2. (now' - pool.lastReward) * rewardRate * pool.allocPoint = (t + 1) * k
      <4> DEFINE a == now' - pool.lastReward
      <4>1. a \in Nat /\ a = t + 1
        BY <2>1
      <4> HIDE DEF a, t
      <4>2. a * rewardRate * pool.allocPoint = a * k
        BY <1>2, <1>3, <4>1
      <4> QED BY <4>1, <4>2 DEF a
    <3> QED BY <3>1, <3>2
  <2>3. accNow(pid) = pool.accRewardPerShare + (r * accScale) \div supply
    <3>1. CASE now <= pool.lastReward
      <4>1. t = 0
        BY <1>1, <1>3, <1>8, <3>1
      <4>2. t * k = 0
        BY <1>3, <4>1
      <4>3. r = 0
        <5>1. 0 \div m = 0
          BY <1>2
        <5> QED BY <4>2, <5>1
      <4>4. (r * accScale) \div supply = 0
        <5>1. 0 * accScale = 0 /\ 0 \div supply = 0
          BY <1>2, <1>8
        <5> QED BY <4>3, <5>1
      <4>5. accNow(pid) = pool.accRewardPerShare
        BY <1>4, <3>1 DEF updatedAcc
      <4> QED BY <1>3, <4>4, <4>5
    <3>2. CASE ~(now <= pool.lastReward)
      <4>1. accNow(pid) = after(now)
        BY <1>4, <1>8, <3>2 DEF updatedAcc
      <4>2. t * rewardRate * pool.allocPoint = t * k
        <5> HIDE DEF t
        <5> QED BY <1>2, <1>3, <2>1
      <4> QED BY <4>1, <4>2
    <3> QED BY <3>1, <3>2
  <2>4. /\ r \in Nat /\ s \in Nat /\ r <= s /\ q \in Nat /\ s <= r + q
    <3>1. partOfRate(pid) = k \div m
      BY DEF partOfRate
    <3> HIDE DEF k, m, t
    <3>2. r \in Nat /\ s \in Nat /\ r <= s /\ s <= r + (k \div m + 1)
      BY <1>2, <1>3, <2>1, QuotientRises
    <3> QED BY <1>5, <3>1, <3>2
  <2> HIDE DEF r, s, q
  <2>5. PICK d \in Nat :
          /\ (s * accScale) \div supply = (r * accScale) \div supply + d
          /\ d * supply <= q * accScale + supply
    BY <1>2, <1>8, <2>4, ShareRises
  <2>6. (r * accScale) \div supply \in Nat
    <3> DEFINE x == r * accScale
    <3>1. x \in Nat
      BY <1>2, <2>4
    <3> HIDE DEF x
    <3>2. x \div supply \in Nat
      BY <1>2, <1>8, <3>1, DivBounds
    <3> QED BY <3>2 DEF x
  <2>7. accNow(pid)' = accNow(pid) + d
    <3> DEFINE x == (r * accScale) \div supply
               y == (s * accScale) \div supply
    <3>1. /\ accNow(pid)' = pool.accRewardPerShare + y
          /\ accNow(pid) = pool.accRewardPerShare + x
          /\ y = x + d /\ x \in Nat
      BY <2>2, <2>3, <2>5, <2>6
    <3> HIDE DEF x, y
    <3> QED BY <1>3, <3>1
  <2> QED BY <2>5, <2>7 DEF q, supply
<1> QED BY <1>7, <1>8

\* Those who earn in a pool do not have more than its supply.
LEMMA EarningBacked ==
  ASSUME Inv, NEW pid \in DOMAIN poolInfos
  PROVE  /\ earning(pid) \in [Users -> Nat] /\ supplyOf(pid) \in Nat
         /\ Total(earning(pid)) <= supplyOf(pid)
<1>1. pid \in Pids /\ poolInfos[pid].token \in Tokens
  BY PoolFacts DEF Inv, PoolInfo
<1>2. /\ IsFiniteSet(Users) /\ stakes(pid) \in [Users -> Nat] /\ asked(pid) \in [Users -> Nat]
      /\ Total(stakes(pid)) \in Nat
  BY <1>1, UserFunctions DEF Inv
<1>3. earning(pid) \in [Users -> Nat]
  BY PendingNatural DEF earning
<1>4. \A u \in Users : stakes(pid)[u] = earning(pid)[u] + asked(pid)[u]
  <2> TAKE u \in Users
  <2>1. /\ stakes(pid)[u] = userInfos[pid][u].amount /\ asked(pid)[u] = waiting(pid, u)
        /\ earning(pid)[u] = userInfos[pid][u].amount - waiting(pid, u)
    BY DEF stakes, asked, earning, waiting
  <2>2. stakes(pid)[u] \in Nat /\ asked(pid)[u] \in Nat
    BY <1>2
  <2> QED BY <2>1, <2>2
<1>5. stakes(pid) = [u \in Users |-> earning(pid)[u] + asked(pid)[u]]
  BY <1>2, <1>4
<1>6. Total(stakes(pid)) = Total(earning(pid)) + Total(asked(pid))
  BY <1>2, <1>3, <1>5, TotalSum
<1>7. Total(earning(pid)) \in Nat /\ Total(asked(pid)) \in Nat
  BY <1>2, <1>3, TotalBounds
<1>8. /\ vaultBalance[poolInfos[pid].token] \in Nat
      /\ totalPendingWithdrawals[pid] = Total(asked(pid))
      /\ Total(stakes(pid)) <= vaultBalance[poolInfos[pid].token]
  BY <1>1 DEF Inv, StakesInv, BackedInv
<1>9. supplyOf(pid) = vaultBalance[poolInfos[pid].token] - Total(asked(pid))
  BY <1>8 DEF supplyOf
<1> QED BY <1>3, <1>6, <1>7, <1>8, <1>9

\* In one unit of time the users of a pool earn its part of the rate, up to its
\* rounding.
LEMMA PoolEarns ==
  ASSUME Inv, Tick, NEW pid \in DOMAIN poolInfos
  PROVE  /\ owed(pid) \in [Users -> Nat] /\ owed(pid)' \in [Users -> Nat]
         /\ partOfRate(pid) \in Nat /\ rounding(pid) \in Nat
         /\ Total(owed(pid)') <= Total(owed(pid)) + partOfRate(pid) + rounding(pid)
<1>1. /\ UNCHANGED <<poolInfos, totalAllocPoints, rewardRate, userInfos, withdrawalRequests,
                     totalPendingWithdrawals, vaultBalance>>
  BY TickOnly
<1>2. PICK d \in Nat :
        /\ accNow(pid)' = accNow(pid) + d
        /\ d * supplyOf(pid) <= (partOfRate(pid) + 1) * accScale + supplyOf(pid)
  BY PoolRises
<1>3. ASSUME NEW u \in Users
      PROVE  /\ pendingReward(pid, u) \in Nat /\ pendingReward(pid, u)' \in Nat
             /\ accScale * pendingReward(pid, u)'
                  <= accScale * pendingReward(pid, u)
                       + (accScale * 1 + d * (userInfos[pid][u].amount - waiting(pid, u)))
  <2> DEFINE n == userInfos[pid][u].amount - waiting(pid, u)
             debt == userInfos[pid][u].rewardDebt
             a == due(n, accNow(pid))
             b == due(n, accNow(pid) + d)
             p == pendingReward(pid, u)
             q == pendingReward(pid, u)'
  <2>1. p \in Nat /\ n \in Nat /\ accNow(pid) \in Nat
    BY PendingNatural
  <2>2. p = a - debt
    BY Zenon DEF pendingReward, due, waiting, accNow
  <2>3. q = b - debt
    <3>1. q = due(n, accNow(pid)') - debt
      BY <1>1, Zenon DEF pendingReward, due, waiting, accNow
    <3> QED BY <3>1, <1>2
  <2>4. debt \in Nat
    <3>1. pid \in Pids
      BY PoolFacts DEF Inv
    <3> QED BY <3>1 DEF Inv, StakesInv, UserInfo
  <2> HIDE DEF n, debt
  <2>5. /\ a \in Nat /\ b \in Nat /\ a <= b
        /\ accScale * b <= accScale * a + (accScale * 1 + d * n)
    BY <2>1, DueRises
  <2> HIDE DEF a, b, p, q
  <2>6. q \in Nat
    BY <2>1, <2>2, <2>3, <2>4, <2>5
  <2>7. accScale * q <= accScale * p + (accScale * 1 + d * n)
    <3> DEFINE x == accScale * a
               y == accScale * b
               z == accScale * debt
               w == accScale * 1 + d * n
    <3>1. x \in Nat /\ y \in Nat /\ z \in Nat /\ w \in Nat
      BY <2>1, <2>4, <2>5, XVSVaultAssumption
    <3>2. accScale * p = x - z /\ accScale * q = y - z
      BY <2>1, <2>2, <2>3, <2>4, <2>5, XVSVaultAssumption
    <3>3. y <= x + w
      BY <2>5
    <3> HIDE DEF x, y, z, w
    <3>4. y - z <= (x - z) + w
      BY <3>1, <3>3
    <3> QED BY <3>2, <3>4 DEF w
  <2> QED BY <2>1, <2>6, <2>7 DEF p, q, n
<1> DEFINE P == owed(pid)
           Q == owed(pid)'
           s == earning(pid)
           g == partOfRate(pid) + 1
<1>4. P = [u \in Users |-> pendingReward(pid, u)] /\ Q = [u \in Users |-> pendingReward(pid, u)']
  BY DEF owed
<1>5. s \in [Users -> Nat] /\ supplyOf(pid) \in Nat /\ Total(s) <= supplyOf(pid)
  BY EarningBacked
<1>6. /\ P \in [Users -> Nat] /\ Q \in [Users -> Nat]
      /\ \A u \in Users : accScale * Q[u] <= accScale * P[u] + (accScale * 1 + d * s[u])
  <2>1. \A u \in Users : s[u] = userInfos[pid][u].amount - waiting(pid, u)
    BY DEF earning
  <2> HIDE DEF P, Q, s
  <2> QED BY <1>3, <1>4, <2>1
<1>7. partOfRate(pid) \in Nat
  <2> DEFINE k == rewardRate * poolInfos[pid].allocPoint
             m == totalAllocPoints
  <2>1. m \in Nat \ {0} /\ rewardRate \in Nat
    BY DEF Inv, PoolsInv
  <2>2. poolInfos[pid].allocPoint \in Nat
    BY PoolFacts DEF Inv, PoolInfo
  <2>3. k \in Nat
    BY <2>1, <2>2
  <2>4. partOfRate(pid) = k \div m
    BY DEF partOfRate
  <2> HIDE DEF k, m
  <2> QED BY <2>1, <2>3, <2>4, DivBounds
<1>8. IsFiniteSet(Users) /\ Cardinality(Users) \in Nat
  BY XVSVaultAssumption, FS_CardinalityType
<1>9. g \in Nat /\ d * supplyOf(pid) <= g * accScale + supplyOf(pid)
  BY <1>2, <1>7
<1> HIDE DEF P, Q, s, g
<1>10. Total(Q) <= Total(P) + g + Cardinality(Users) + supplyOf(pid) \div accScale
  BY <1>5, <1>6, <1>8, <1>9, UsersEarn
<1>11. supplyOf(pid) \div accScale \in Nat
  BY <1>5, XVSVaultAssumption, DivBounds
<1>12. rounding(pid) = 1 + Cardinality(Users) + supplyOf(pid) \div accScale
  BY DEF rounding, supplyOf
<1>13. Total(P) \in Nat /\ Total(Q) \in Nat
  BY <1>6, <1>8, TotalBounds
<1>14. rounding(pid) \in Nat /\ Total(Q) <= Total(P) + partOfRate(pid) + rounding(pid)
  BY <1>7, <1>8, <1>10, <1>11, <1>12, <1>13 DEF g
<1> QED BY <1>6, <1>7, <1>14 DEF P, Q

\* The table of what the pools owe the users: the row of a user, the totals of
\* the pools.
rowOf(F, u) == [i \in DOMAIN F |-> F[i][u]]
totalsOf(F) == [i \in DOMAIN F |-> Total(F[i])]

rowTotals(D, F) == [u \in D |-> Total(rowOf(F, u))]

\* It does not matter which of them are added up first.
LEMMA RowsAndTotals ==
  ASSUME NEW D, IsFiniteSet(D), NEW E, IsFiniteSet(E), NEW F \in [E -> [D -> Nat]]
  PROVE  rowTotals(D, F) \in [D -> Nat] /\ Total(rowTotals(D, F)) = Total(totalsOf(F))
<1> DEFINE T == [p \in D \X E |-> F[p[2]][p[1]]]
<1>1. T \in [D \X E -> Nat] /\ \A u \in D, i \in E : T[<<u, i>>] = F[i][u]
  OBVIOUS
<1> HIDE DEF T
<1>2. Total(RowsOf(D, E, T)) = Total(ColumnsOf(D, E, T))
  BY <1>1, TotalSwap
<1>3. DOMAIN F = E
  OBVIOUS
<1>4. ColumnsOf(D, E, T) = totalsOf(F)
  <2>1. ASSUME NEW i \in E PROVE Total([u \in D |-> T[<<u, i>>]]) = Total(F[i])
    <3>1. [u \in D |-> T[<<u, i>>]] = F[i]
      BY <1>1
    <3> QED BY <3>1
  <2> QED BY <1>3, <2>1, Zenon DEF ColumnsOf, totalsOf
<1>5. ASSUME NEW u \in D
      PROVE  /\ Total([i \in E |-> T[<<u, i>>]]) = Total(rowOf(F, u))
             /\ Total(rowOf(F, u)) \in Nat
  <2>1. rowOf(F, u) = [i \in E |-> T[<<u, i>>]] /\ rowOf(F, u) \in [E -> Nat]
    BY <1>1, <1>3 DEF rowOf
  <2>2. Total(rowOf(F, u)) \in Nat
    BY <2>1, TotalBounds
  <2> QED BY <2>1, <2>2
<1>6. RowsOf(D, E, T) = rowTotals(D, F)
  BY <1>5, Zenon DEF RowsOf, rowTotals
<1>7. rowTotals(D, F) \in [D -> Nat]
  BY <1>5 DEF rowTotals
<1> QED BY <1>2, <1>4, <1>6, <1>7

\* In one unit of time all users together earn the rate, up to the rounding of
\* the pools.
LEMMA TickEarns ==
  ASSUME Inv, PointsCounted, Tick
  PROVE  Total([u \in Users |-> earned(u)']) - Total([u \in Users |-> earned(u)])
           <= rewardRate + Total([pid \in DOMAIN poolInfos |-> rounding(pid)])
<1> DEFINE E == DOMAIN poolInfos
           before == [i \in E |-> owed(i)]
           after == [i \in E |-> owed(i)']
           parts == [i \in E |-> partOfRate(i)]
           rounds == [i \in E |-> rounding(i)]
           r == [u \in Users |-> rewardBalance[u] + pendingRewardTransfers[u]]
           W == totalsOf(before)
           V == totalsOf(after)
           more == [i \in E |-> parts[i] + rounds[i]]
           most == [i \in E |-> W[i] + more[i]]
<1>1. UNCHANGED <<poolInfos, rewardBalance, pendingRewardTransfers>>
  BY TickOnly
<1>2. /\ IsFiniteSet(Users) /\ IsFiniteSet(E) /\ rewardRate \in Nat
      /\ points(poolInfos) \in [E -> Nat]
  BY XVSVaultAssumption, PointsNatural DEF Inv
<1>3. r \in [Users -> Nat]
  BY DEF Inv, RewardsInv
<1>4. /\ before \in [E -> [Users -> Nat]] /\ after \in [E -> [Users -> Nat]]
      /\ parts \in [E -> Nat] /\ rounds \in [E -> Nat]
      /\ \A i \in E : Total(after[i]) <= Total(before[i]) + parts[i] + rounds[i]
  BY PoolEarns
<1>5. \A i \in E : Total(before[i]) \in Nat /\ Total(after[i]) \in Nat
  <2> HIDE DEF before, after
  <2> QED BY <1>2, <1>4, TotalBounds
<1>6. Total([u \in Users |-> earned(u)]) = Total(r) + Total(W)
  <2> DEFINE R == rowTotals(Users, before)
  <2>1. R \in [Users -> Nat] /\ Total(R) = Total(W)
    <3> HIDE DEF before, E
    <3> QED BY <1>2, <1>4, RowsAndTotals
  <2>2. ASSUME NEW u \in Users PROVE earned(u) = r[u] + R[u]
    <3>1. rowOf(before, u) = [i \in E |-> pendingReward(i, u)]
      BY DEF rowOf, owed
    <3>2. earned(u) = rewardBalance[u] + pendingRewardTransfers[u]
                         + Total([i \in E |-> pendingReward(i, u)])
      BY DEF earned
    <3>3. r[u] = rewardBalance[u] + pendingRewardTransfers[u]
      OBVIOUS
    <3>4. R[u] = Total(rowOf(before, u))
      BY Zenon DEF rowTotals
    <3> HIDE DEF before, r, E, R
    <3> QED BY <1>1, <3>1, <3>2, <3>3, <3>4
  <2> HIDE DEF r, R
  <2>3. [u \in Users |-> earned(u)] = [u \in Users |-> r[u] + R[u]]
    BY <2>2, Zenon
  <2>4. Total([u \in Users |-> r[u] + R[u]]) = Total(r) + Total(R)
    BY <1>2, <1>3, <2>1, TotalSum
  <2> QED BY <2>1, <2>3, <2>4
<1>7. Total([u \in Users |-> earned(u)']) = Total(r) + Total(V)
  <2> DEFINE R == rowTotals(Users, after)
  <2>1. R \in [Users -> Nat] /\ Total(R) = Total(V)
    <3> HIDE DEF after, E
    <3> QED BY <1>2, <1>4, RowsAndTotals
  <2>2. ASSUME NEW u \in Users PROVE earned(u)' = r[u] + R[u]
    <3>1. rowOf(after, u) = [i \in E |-> pendingReward(i, u)']
      BY DEF rowOf, owed
    <3>2. earned(u)' = rewardBalance'[u] + pendingRewardTransfers'[u]
                         + Total([i \in E |-> pendingReward(i, u)'])
      BY <1>1 DEF earned
    <3>3. r[u] = rewardBalance[u] + pendingRewardTransfers[u]
      OBVIOUS
    <3>4. R[u] = Total(rowOf(after, u))
      BY Zenon DEF rowTotals
    <3> HIDE DEF after, r, E, R
    <3> QED BY <1>1, <3>1, <3>2, <3>3, <3>4
  <2> HIDE DEF r, R
  <2>3. [u \in Users |-> earned(u)'] = [u \in Users |-> r[u] + R[u]]
    BY <2>2, Zenon
  <2>4. Total([u \in Users |-> r[u] + R[u]]) = Total(r) + Total(R)
    BY <1>2, <1>3, <2>1, TotalSum
  <2> QED BY <2>1, <2>3, <2>4
<1>8. W \in [E -> Nat] /\ V \in [E -> Nat] /\ \A i \in E : V[i] <= W[i] + (parts[i] + rounds[i])
  <2> HIDE DEF before, after, parts, rounds, E
  <2>1. DOMAIN before = E /\ DOMAIN after = E
    BY <1>4
  <2>2. W = [i \in E |-> Total(before[i])] /\ V = [i \in E |-> Total(after[i])]
    BY <2>1, Zenon DEF totalsOf
  <2> HIDE DEF W, V
  <2>3. \A i \in E : W[i] = Total(before[i]) /\ V[i] = Total(after[i])
    BY <2>2
  <2> QED BY <1>4, <1>5, <2>2, <2>3
<1> HIDE DEF W, V
<1>9. Total(V) <= Total(W) + Total(parts) + Total(rounds)
  <2> HIDE DEF parts, rounds
  <2>1. more \in [E -> Nat] /\ Total(more) = Total(parts) + Total(rounds)
    <3> HIDE DEF E
    <3>1. more \in [E -> Nat]
      BY <1>4
    <3>2. Total(more) = Total(parts) + Total(rounds)
      BY <1>2, <1>4, TotalSum, Zenon
    <3> QED BY <3>1, <3>2
  <2>2. \A i \in E : V[i] <= W[i] + more[i]
    BY <1>8
  <2> HIDE DEF more
  <2>3. most \in [E -> Nat] /\ Total(most) = Total(W) + Total(more)
    BY <1>2, <1>8, <2>1, TotalSum
  <2>4. \A i \in E : V[i] <= most[i]
    BY <2>2
  <2> HIDE DEF most
  <2>5. Total(V) <= Total(most)
    BY <1>2, <1>8, <2>3, <2>4, TotalMonotone
  <2>6. Total(parts) \in Nat /\ Total(rounds) \in Nat /\ Total(W) \in Nat
    BY <1>2, <1>4, <1>8, TotalBounds
  <2> QED BY <2>1, <2>3, <2>5, <2>6
<1>10. Total(parts) <= rewardRate
  <2> DEFINE f == points(poolInfos)
  <2>1. CASE poolInfos = <<>>
    <3>1. E = {}
      BY <2>1
    <3> HIDE DEF E
    <3>2. Total(parts) = 0
      BY <1>4, <3>1, TotalZero
    <3> QED BY <1>2, <3>2
  <2>2. CASE poolInfos # <<>>
    <3>1. Total(f) = totalAllocPoints /\ Total(f) > 0
      BY <2>2 DEF PointsCounted, Inv, PoolsInv
    <3>2. \A i \in E : f[i] = poolInfos[i].allocPoint
      BY DEF points
    <3> HIDE DEF f
    <3>3. parts = [i \in E |-> (rewardRate * f[i]) \div Total(f)]
      BY <3>1, <3>2 DEF partOfRate
    <3> HIDE DEF parts, E
    <3> QED BY <1>2, <3>1, <3>3, PartsOfRate DEF f
  <2> QED BY <2>1, <2>2
<1>11. /\ Total(r) \in Nat /\ Total(W) \in Nat /\ Total(V) \in Nat /\ Total(parts) \in Nat
       /\ Total(rounds) \in Nat
  <2> HIDE DEF r, parts, rounds
  <2> QED BY <1>2, <1>3, <1>4, <1>8, TotalBounds
<1> DEFINE e == Total([u \in Users |-> earned(u)])
           f == Total([u \in Users |-> earned(u)'])
<1>12. e = Total(r) + Total(W) /\ f = Total(r) + Total(V)
  BY <1>6, <1>7
<1> HIDE DEF e, f, r, parts
<1>13. f - e <= rewardRate + Total(rounds)
  <2> HIDE DEF rounds
  <2> QED BY <1>2, <1>9, <1>10, <1>11, <1>12
<1> QED BY <1>13 DEF e, f

\* Only a tick changes the time.
LEMMA TimeTicks ==
  ASSUME [Next]_vars, now' # now
  PROVE  Tick
<1>1. ASSUME StakerStep PROVE FALSE
  <2>1. PICK u \in Users, pid \in Pids :
          \/ Claim(u, pid) \/ ExecuteWithdrawal(u, pid) \/ ExecuteLegacyWithdrawal(u, pid)
          \/ \E n \in Amounts : Deposit(u, pid, n) \/ RequestWithdrawal(u, pid, n)
    BY <1>1 DEF StakerStep
  <2>2. ~Claim(u, pid)
    BY DEF Claim
  <2>3. ~ExecuteWithdrawal(u, pid)
    BY DEF ExecuteWithdrawal
  <2>4. ~ExecuteLegacyWithdrawal(u, pid)
    BY DEF ExecuteLegacyWithdrawal
  <2>5. \A n \in Amounts : ~Deposit(u, pid, n)
    BY DEF Deposit
  <2>6. \A n \in Amounts : ~RequestWithdrawal(u, pid, n)
    BY DEF RequestWithdrawal
  <2> QED BY <2>1, <2>2, <2>3, <2>4, <2>5, <2>6
<1>2. ~VoterStep
  BY DEF VoterStep, Delegate
<1>3. ~GovernanceStep
  BY DEF GovernanceStep, UpdatePool, SetAllocPoint, SetWithdrawalLockingPeriod,
         SetRewardRate, Add, PauseOrResume
<1>4. EnvironmentStep
  BY <1>1, <1>2, <1>3 DEF Next, vars
<1> QED BY <1>4 DEF EnvironmentStep, FundStore, Donate

\* In one unit of time all users of all pools together earn the rate, up to the
\* rounding of each pool, for any number of pools, users and points.
THEOREM RateNeverExceeded == Spec => RewardsWithinRate
<1>1. Init => PointsCounted
  BY InitPoints
<1>2. Inv /\ PointsCounted /\ [Next]_vars => PointsCounted'
  BY NextPoints
<1>3. Inv /\ PointsCounted /\ [Next]_vars =>
        [now' # now =>
           Total([u \in Users |-> earned(u)']) - Total([u \in Users |-> earned(u)])
             <= rewardRate + Total([pid \in DOMAIN poolInfos |-> rounding(pid)])]_vars
  BY TickEarns, TimeTicks
<1> QED BY <1>1, <1>2, <1>3, Invariant, PTL DEF Spec, RewardsWithinRate
=============================================================================
