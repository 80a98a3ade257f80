------------------------------ MODULE XVSVault ------------------------------
(***************************************************************************)
(* The staking vault contracts/XVSVault/XVSVault.sol with its reward store *)
(* XVSStore.sol: deposits, withdrawals that are requested and executed     *)
(* after a lock period, rewards per share, and the votes of the stakers    *)
(* with their checkpoints.                                                 *)
(*                                                                         *)
(* One reward token is modelled, xvs: the state of the contract is a       *)
(* mapping from reward tokens and its entries do not touch each other, and *)
(* a token is staked under one of them only (isStakedToken).  now stands   *)
(* for block.timestamp and for getBlockNumberOrTimestamp(), which is the   *)
(* timestamp in a time based vault and advances with it otherwise.  The    *)
(* notification of the Prime token is left out.                            *)
(***************************************************************************)
EXTENDS Integers, FiniteSets, Sequences, SequencesExt, FiniteSetsExt, Totals

CONSTANTS
  Users,
  Tokens, xvs,        \* staked tokens; xvs is the one that votes
  ZeroAddress,        \* the delegate of who has none
  accScale,           \* 1e12
  MaxPools,           \* bound of the model on the number of pools
  Amounts, RewardRates, AllocPoints, LockPeriods, Fundings,
  InitialPools,       \* the pools at the start, without any reward yet
  InitialRate, InitialStore,
  LegacyStakes, LegacyRequests,  \* of pool 1, from before the upgrade
  MaxTime,            \* bound of the model on now
  MaxStake            \* bound of the model on the tokens in a pool

ASSUME XVSVaultAssumption ==
  /\ IsFiniteSet(Users) /\ MaxPools \in Nat
  /\ xvs \in Tokens /\ ZeroAddress \notin Users
  /\ accScale \in Nat \ {0}
  /\ AllocPoints \cup Amounts \cup RewardRates \cup Fundings \subseteq Nat
  /\ LockPeriods \subseteq Nat

VARIABLES
  poolInfos, totalAllocPoints, rewardRate,
  userInfos, withdrawalRequests, totalPendingWithdrawals,
  delegates, checkpoints,
  pendingRewardTransfers,
  vaultBalance,       \* balanceOf(vault) of the staked tokens
  storeBalance,       \* balanceOf(xvsStore) of the reward token
  rewardBalance,      \* what the users have received of it
  vaultPaused, now

poolVars == <<poolInfos, totalAllocPoints, rewardRate>>
stakeVars == <<userInfos, withdrawalRequests, totalPendingWithdrawals, vaultBalance>>
voteVars == <<delegates, checkpoints>>
rewardVars == <<pendingRewardTransfers, storeBalance, rewardBalance>>
vars == <<poolVars, stakeVars, voteVars, rewardVars, vaultPaused, now>>

Pids == 1 .. MaxPools

PoolInfo ==
  [token : Tokens, allocPoint : Nat, lastReward : Nat, accRewardPerShare : Nat,
   lockPeriod : Nat]
UserInfo == [amount : Nat, rewardDebt : Nat, pendingWithdrawals : Nat]
WithdrawalRequest == [amount : Nat, lockedUntil : Nat, afterUpgrade : BOOLEAN]
Checkpoint == [from : Nat, votes : Nat]

\* The sum of the amounts of a list of requests that satisfy a flag.
counted(requests, afterUpgrade) ==
  [i \in DOMAIN requests |->
     IF requests[i].afterUpgrade = afterUpgrade THEN requests[i].amount ELSE 0]
requestedAmount(requests, afterUpgrade) == Total(counted(requests, afterUpgrade))

unlocksInOrder(requests) ==
  \A i, j \in DOMAIN requests :
    i < j => requests[i].lockedUntil >= requests[j].lockedUntil

\* A vault between two calls, at the time of its upgrade.
InitialVault ==
  /\ InitialPools \in Seq(PoolInfo) /\ Len(InitialPools) <= MaxPools
  /\ \A i \in DOMAIN InitialPools : InitialPools[i].allocPoint > 0
  /\ \A i, j \in DOMAIN InitialPools :
       InitialPools[i].token = InitialPools[j].token => i = j
  /\ InitialRate \in Nat /\ InitialStore \in Nat
  /\ LegacyStakes \in [Users -> Nat]
  /\ LegacyRequests \in [Users -> Seq(WithdrawalRequest)]
  /\ \A u \in Users :
       /\ unlocksInOrder(LegacyRequests[u])
       /\ \A i \in DOMAIN LegacyRequests[u] : ~LegacyRequests[u][i].afterUpgrade
       /\ requestedAmount(LegacyRequests[u], FALSE) <= LegacyStakes[u]
       /\ InitialPools = <<>> => LegacyStakes[u] = 0 /\ LegacyRequests[u] = <<>>

ASSUME InitialAssumption == InitialVault

\* The start of a model: some pools without any reward yet, and stakes and
\* requests in pool 1 from before the upgrade.
InitWith(initialPools, initialRate, initialStore, legacyStakes, legacyRequests) ==
  /\ poolInfos = initialPools
  /\ totalAllocPoints = Total([i \in DOMAIN initialPools |-> initialPools[i].allocPoint])
  /\ rewardRate = initialRate
  /\ userInfos =
       [pid \in Pids |-> [u \in Users |->
          [amount |-> IF pid = 1 THEN legacyStakes[u] ELSE 0, rewardDebt |-> 0,
           pendingWithdrawals |->
             IF pid = 1 THEN requestedAmount(legacyRequests[u], FALSE) ELSE 0]]]
  /\ withdrawalRequests =
       [pid \in Pids |-> [u \in Users |-> IF pid = 1 THEN legacyRequests[u] ELSE <<>>]]
  /\ totalPendingWithdrawals = [pid \in Pids |-> 0]
  /\ vaultBalance =
       [t \in Tokens |-> IF initialPools # <<>> /\ initialPools[1].token = t
                           THEN Total(legacyStakes) ELSE 0]
  /\ delegates = [u \in Users |-> ZeroAddress]
  /\ checkpoints = [u \in Users |-> <<>>]
  /\ pendingRewardTransfers = [u \in Users |-> 0]
  /\ storeBalance = initialStore
  /\ rewardBalance = [u \in Users |-> 0]
  /\ vaultPaused = FALSE
  /\ now = 1

Init ==
  InitWith(InitialPools, InitialRate, InitialStore, LegacyStakes, LegacyRequests)

validPool(pid) == pid \in DOMAIN poolInfos
-----------------------------------------------------------------------------
(* Rewards. *)

\* _updatePool on the pools, for the pool pid.
updatePool(infos, pid) ==
  LET pool   == infos[pid]
      supply == vaultBalance[pool.token] - totalPendingWithdrawals[pid]
      reward == ((now - pool.lastReward) * rewardRate * pool.allocPoint)
                  \div totalAllocPoints
  IN  IF now <= pool.lastReward
        THEN infos
        ELSE IF supply = 0
        THEN [infos EXCEPT ![pid].lastReward = now]
        ELSE [infos EXCEPT ![pid].lastReward = now,
                           ![pid].accRewardPerShare = @ + (reward * accScale) \div supply]

\* The update of a pool touches that pool only, so their order is irrelevant.
massUpdatePools ==
  [pid \in DOMAIN poolInfos |-> updatePool(poolInfos, pid)[pid]]

cumulativeReward(user, pool) ==
  ((user.amount - user.pendingWithdrawals) * pool.accRewardPerShare) \div accScale

computeReward(user, pool) == cumulativeReward(user, pool) - user.rewardDebt

\* Mutant: the debt of earlier transfers is forgotten.
transferReward_forgetful(u, amount) ==
  LET payment == IF amount <= storeBalance THEN amount ELSE storeBalance
  IN  /\ pendingRewardTransfers' =
           [pendingRewardTransfers EXCEPT ![u] = amount - payment]
      /\ storeBalance' = storeBalance - payment
      /\ rewardBalance' = [rewardBalance EXCEPT ![u] = @ + payment]

\* Pays what the store has, debts of earlier transfers included, and records
\* the rest.
transferReward(u, amount) ==
  LET fullAmount == amount + pendingRewardTransfers[u]
      payment    == IF fullAmount <= storeBalance THEN fullAmount ELSE storeBalance
  IN  /\ pendingRewardTransfers' =
           [pendingRewardTransfers EXCEPT ![u] = fullAmount - payment]
      /\ storeBalance' = storeBalance - payment
      /\ rewardBalance' = [rewardBalance EXCEPT ![u] = @ + payment]

\* safeRewardTransfer of the store: what is missing is not recorded.
safeRewardTransfer(u, amount) ==
  LET payment == IF amount <= storeBalance THEN amount ELSE storeBalance
  IN  /\ storeBalance' = storeBalance - payment
      /\ rewardBalance' = [rewardBalance EXCEPT ![u] = @ + payment]
      /\ UNCHANGED pendingRewardTransfers

\* The view pendingReward().
pendingReward(pid, u) ==
  LET user == userInfos[pid][u]
      acc  == updatePool(poolInfos, pid)[pid].accRewardPerShare
  IN  ((user.amount - requestedAmount(withdrawalRequests[pid][u], TRUE)) * acc)
        \div accScale - user.rewardDebt

-----------------------------------------------------------------------------
(* Withdrawal requests. *)

\* Sorted by unlock time, the first to be unlocked at the end; among equal
\* ones the new request goes in front of the others.
withRequest(requests, request) ==
  LET later == {i \in DOMAIN requests : requests[i].lockedUntil > request.lockedUntil}
      at    == Max({0} \cup later)
  IN  SubSeq(requests, 1, at) \o <<request>> \o SubSeq(requests, at + 1, Len(requests))

isUnlocked(request) == request.lockedUntil <= now

\* Popping from the end stops at the first request that is locked.
stillLocked(requests) ==
  SubSeq(requests, 1, Max({0} \cup {i \in DOMAIN requests : ~isUnlocked(requests[i])}))

unlocked(requests) ==
  SubSeq(requests, Len(stillLocked(requests)) + 1, Len(requests))

-----------------------------------------------------------------------------
(* Votes. *)

\* Mutant: stakes on their way out still vote.
getStakeAmount_whole(u) ==
  LET staking == {pid \in DOMAIN poolInfos : poolInfos[pid].token = xvs}
  IN  IF staking = {} THEN 0 ELSE userInfos[Min(staking)][u].amount

\* The stake in the first pool of the vault that stakes xvs.
getStakeAmount(u) ==
  LET staking == {pid \in DOMAIN poolInfos : poolInfos[pid].token = xvs}
      user    == userInfos[Min(staking)][u]
  IN  IF staking = {} THEN 0 ELSE user.amount - user.pendingWithdrawals

getCurrentVotes(list) == IF list = <<>> THEN 0 ELSE list[Len(list)].votes

\* Mutant: the latest checkpoint is overwritten whenever it was written.
writeCheckpoint_overwrite(list, newVotes) ==
  IF list # <<>> THEN [list EXCEPT ![Len(list)].votes = newVotes]
                 ELSE <<[from |-> now, votes |-> newVotes]>>

\* The checkpoint of this moment is overwritten.
writeCheckpoint(list, newVotes) ==
  IF list # <<>> /\ list[Len(list)].from = now
    THEN [list EXCEPT ![Len(list)].votes = newVotes]
    ELSE Append(list, [from |-> now, votes |-> newVotes])

\* sub96 reverts on underflow.
canMoveDelegates(src, dst, amount) ==
  src # dst /\ src # ZeroAddress => amount <= getCurrentVotes(checkpoints[src])

moveDelegates(src, dst, amount) ==
  [u \in Users |->
     IF src = dst \/ amount = 0 \/ u \notin {src, dst}
       THEN checkpoints[u]
       ELSE writeCheckpoint(checkpoints[u],
              IF u = src THEN getCurrentVotes(checkpoints[u]) - amount
                         ELSE getCurrentVotes(checkpoints[u]) + amount)]

\* Mutant: the center rounds down.
search_down(list, time) ==
  LET between[places \in (DOMAIN list) \X (DOMAIN list)] ==
        LET lower  == places[1]
            upper  == places[2]
            center == lower + (upper - lower) \div 2
        IN  IF upper <= lower \/ center = lower THEN list[lower].votes
            ELSE IF list[center].from < time THEN between[<<center, upper>>]
            ELSE between[<<lower, center - 1>>]
  IN  between[<<1, Len(list)>>]

\* The binary search of getPriorVotes, between two checkpoints.
search(list, time) ==
  LET between[places \in (DOMAIN list) \X (DOMAIN list)] ==
        LET lower  == places[1]
            upper  == places[2]
            center == upper - (upper - lower) \div 2
        IN  IF upper <= lower THEN list[lower].votes
            ELSE IF list[center].from = time THEN list[center].votes
            ELSE IF list[center].from < time THEN between[<<center, upper>>]
            ELSE between[<<lower, center - 1>>]
  IN  between[<<1, Len(list)>>]

\* Only defined for the past.
getPriorVotes(list, time) ==
  IF list = <<>> \/ list[1].from > time
    THEN 0
    ELSE IF list[Len(list)].from <= time THEN list[Len(list)].votes
    ELSE search(list, time)
-----------------------------------------------------------------------------
(* Stakers. *)

\* Mutant: old requests are not looked at.
legacyPending_ignored(pid, u) == 0

legacyPending(pid, u) == requestedAmount(withdrawalRequests[pid][u], FALSE)

\* Deposits and requests of xvs move votes; deposits of other tokens do not.
movesVotes(pid, src, dst, amount) ==
  IF poolInfos[pid].token = xvs
    THEN /\ canMoveDelegates(src, dst, amount)
         /\ checkpoints' = moveDelegates(src, dst, amount)
    ELSE UNCHANGED checkpoints

deposited(user, pool, amount) ==
  LET grown == [user EXCEPT !.amount = @ + amount]
  IN  [grown EXCEPT !.rewardDebt = cumulativeReward(grown, pool)]

requested(user, pool, amount) ==
  LET asked == [user EXCEPT !.pendingWithdrawals = @ + amount]
  IN  [asked EXCEPT !.rewardDebt = cumulativeReward(asked, pool)]

withdrawn(user, amount) ==
  [user EXCEPT !.amount = @ - amount, !.pendingWithdrawals = @ - amount]

Deposit(u, pid, amount) ==
  LET user    == userInfos[pid][u]
      infos   == updatePool(poolInfos, pid)
      pending == computeReward(user, infos[pid])
  IN  /\ ~vaultPaused /\ validPool(pid)
      /\ legacyPending(pid, u) = 0
      /\ user.amount > 0 => pending >= 0
      /\ vaultBalance[infos[pid].token] + amount <= MaxStake
      /\ IF user.amount > 0 /\ pending > 0 THEN transferReward(u, pending)
                                           ELSE UNCHANGED rewardVars
      /\ poolInfos' = infos
      /\ userInfos' = [userInfos EXCEPT ![pid][u] = deposited(@, infos[pid], amount)]
      /\ vaultBalance' = [vaultBalance EXCEPT ![infos[pid].token] = @ + amount]
      /\ movesVotes(pid, ZeroAddress, delegates[u], amount)
      /\ UNCHANGED <<totalAllocPoints, rewardRate, withdrawalRequests,
                     totalPendingWithdrawals, delegates, vaultPaused, now>>

\* Anybody may claim for u.  Nothing happens without a stake or a reward.
Claim(u, pid) ==
  LET user    == userInfos[pid][u]
      infos   == updatePool(poolInfos, pid)
      pending == computeReward(user, infos[pid])
  IN  /\ ~vaultPaused /\ validPool(pid)
      /\ legacyPending(pid, u) = 0
      /\ user.amount > 0 => pending >= 0
      /\ poolInfos' = infos
      /\ IF user.amount > 0 /\ pending > 0
           THEN /\ transferReward(u, pending)
                /\ userInfos' = [userInfos EXCEPT ![pid][u].rewardDebt =
                                   cumulativeReward(user, infos[pid])]
           ELSE UNCHANGED <<rewardVars, userInfos>>
      /\ UNCHANGED <<totalAllocPoints, rewardRate, withdrawalRequests, vaultBalance,
                     totalPendingWithdrawals, voteVars, vaultPaused, now>>

RequestWithdrawal(u, pid, amount) ==
  LET user    == userInfos[pid][u]
      infos   == updatePool(poolInfos, pid)
      pending == computeReward(user, infos[pid])
      request == [amount |-> amount, lockedUntil |-> now + infos[pid].lockPeriod,
                  afterUpgrade |-> TRUE]
  IN  /\ ~vaultPaused /\ validPool(pid)
      /\ amount > 0 /\ user.amount >= user.pendingWithdrawals + amount
      /\ legacyPending(pid, u) = 0
      /\ pending >= 0
      /\ transferReward(u, pending)
      /\ poolInfos' = infos
      /\ withdrawalRequests' = [withdrawalRequests EXCEPT ![pid][u] =
                                  withRequest(@, request)]
      /\ userInfos' = [userInfos EXCEPT ![pid][u] = requested(@, infos[pid], amount)]
      /\ totalPendingWithdrawals' = [totalPendingWithdrawals EXCEPT ![pid] = @ + amount]
      /\ movesVotes(pid, delegates[u], ZeroAddress, amount)
      /\ UNCHANGED <<totalAllocPoints, rewardRate, vaultBalance, delegates,
                     vaultPaused, now>>

\* Mutant: totalPendingWithdrawals is not reduced.
lessPending_kept(total, amount) == total

lessPending(total, amount) == total - amount

\* Requests made since the upgrade: their stake earns nothing any more.
ExecuteWithdrawal(u, pid) ==
  LET requests == withdrawalRequests[pid][u]
      amount   == requestedAmount(unlocked(requests), TRUE)
      user     == userInfos[pid][u]
  IN  /\ ~vaultPaused /\ validPool(pid)
      /\ amount > 0 /\ requestedAmount(unlocked(requests), FALSE) = 0
      /\ amount <= user.pendingWithdrawals /\ amount <= user.amount
      /\ amount <= totalPendingWithdrawals[pid]
      /\ amount <= vaultBalance[poolInfos[pid].token]
      /\ withdrawalRequests' = [withdrawalRequests EXCEPT ![pid][u] = stillLocked(@)]
      /\ userInfos' = [userInfos EXCEPT ![pid][u] = withdrawn(@, amount)]
      /\ totalPendingWithdrawals' =
           [totalPendingWithdrawals EXCEPT ![pid] = lessPending(@, amount)]
      /\ vaultBalance' = [vaultBalance EXCEPT ![poolInfos[pid].token] = @ - amount]
      /\ UNCHANGED <<poolVars, voteVars, rewardVars, vaultPaused, now>>

\* Requests from before the upgrade: their stake earns until it is withdrawn.
ExecuteLegacyWithdrawal(u, pid) ==
  LET requests == withdrawalRequests[pid][u]
      amount   == requestedAmount(unlocked(requests), FALSE)
      user     == userInfos[pid][u]
      infos    == updatePool(poolInfos, pid)
      acc      == infos[pid].accRewardPerShare
      pending  == (user.amount * acc) \div accScale - user.rewardDebt
  IN  /\ ~vaultPaused /\ validPool(pid)
      /\ amount > 0 /\ requestedAmount(unlocked(requests), TRUE) = 0
      /\ amount <= user.pendingWithdrawals /\ amount <= user.amount
      /\ pending >= 0 /\ amount <= vaultBalance[poolInfos[pid].token]
      /\ safeRewardTransfer(u, pending)
      /\ poolInfos' = infos
      /\ withdrawalRequests' = [withdrawalRequests EXCEPT ![pid][u] = stillLocked(@)]
      /\ userInfos' = [userInfos EXCEPT ![pid][u] =
                         [withdrawn(user, amount) EXCEPT
                            !.rewardDebt = ((user.amount - amount) * acc) \div accScale]]
      /\ vaultBalance' = [vaultBalance EXCEPT ![poolInfos[pid].token] = @ - amount]
      /\ UNCHANGED <<totalAllocPoints, rewardRate, totalPendingWithdrawals, voteVars,
                     vaultPaused, now>>

\* delegate and delegateBySig.
Delegate(u, delegatee) ==
  LET stake == getStakeAmount(u)
  IN  /\ ~vaultPaused
      /\ canMoveDelegates(delegates[u], delegatee, stake)
      /\ delegates' = [delegates EXCEPT ![u] = delegatee]
      /\ checkpoints' = moveDelegates(delegates[u], delegatee, stake)
      /\ UNCHANGED <<poolVars, stakeVars, rewardVars, vaultPaused, now>>

UpdatePool(pid) ==
  /\ ~vaultPaused /\ validPool(pid)
  /\ poolInfos' = updatePool(poolInfos, pid)
  /\ UNCHANGED <<totalAllocPoints, rewardRate, stakeVars, voteVars, rewardVars,
                 vaultPaused, now>>

-----------------------------------------------------------------------------
(* Governance. *)

\* A token is staked in at most one pool, since the supply of a pool is the
\* balance of the vault.  Unlike the setter, add takes a lock period of 0.
Add(token, allocPoint, rate, lockPeriod) ==
  /\ Len(poolInfos) < MaxPools
  /\ allocPoint > 0
  /\ \A pid \in DOMAIN poolInfos : poolInfos[pid].token # token
  /\ poolInfos' =
       Append(massUpdatePools,
              [token |-> token, allocPoint |-> allocPoint, lastReward |-> now,
               accRewardPerShare |-> 0, lockPeriod |-> lockPeriod])
  /\ totalAllocPoints' = totalAllocPoints + allocPoint
  /\ rewardRate' = rate
  /\ UNCHANGED <<stakeVars, voteVars, rewardVars, vaultPaused, now>>

\* Mutant: the total is left as it was.
newTotalAllocPoints_stale(pid, allocPoint) == totalAllocPoints

newTotalAllocPoints(pid, allocPoint) ==
  totalAllocPoints - poolInfos[pid].allocPoint + allocPoint

SetAllocPoint(pid, allocPoint) ==
  /\ validPool(pid)
  /\ newTotalAllocPoints(pid, allocPoint) > 0
  /\ poolInfos' = [massUpdatePools EXCEPT ![pid].allocPoint = allocPoint]
  /\ totalAllocPoints' = newTotalAllocPoints(pid, allocPoint)
  /\ UNCHANGED <<rewardRate, stakeVars, voteVars, rewardVars, vaultPaused, now>>

SetRewardRate(rate) ==
  /\ poolInfos # <<>>
  /\ poolInfos' = massUpdatePools
  /\ rewardRate' = rate
  /\ UNCHANGED <<totalAllocPoints, stakeVars, voteVars, rewardVars, vaultPaused, now>>

SetWithdrawalLockingPeriod(pid, lockPeriod) ==
  /\ validPool(pid) /\ lockPeriod > 0
  /\ poolInfos' = [poolInfos EXCEPT ![pid].lockPeriod = lockPeriod]
  /\ UNCHANGED <<totalAllocPoints, rewardRate, stakeVars, voteVars, rewardVars,
                 vaultPaused, now>>

PauseOrResume ==
  /\ vaultPaused' = ~vaultPaused
  /\ UNCHANGED <<poolVars, stakeVars, voteVars, rewardVars, now>>

-----------------------------------------------------------------------------
(* The environment: time passes, the store is funded, and anyone may send   *)
(* staked tokens to the vault, which counts them as part of the supply.     *)

Tick ==
  /\ now < MaxTime
  /\ now' = now + 1
  /\ UNCHANGED <<poolVars, stakeVars, voteVars, rewardVars, vaultPaused>>

FundStore(amount) ==
  /\ storeBalance' = storeBalance + amount
  /\ UNCHANGED <<poolVars, stakeVars, voteVars, pendingRewardTransfers, rewardBalance,
                 vaultPaused, now>>

Donate(token, amount) ==
  /\ vaultBalance[token] + amount <= MaxStake
  /\ vaultBalance' = [vaultBalance EXCEPT ![token] = @ + amount]
  /\ UNCHANGED <<poolVars, userInfos, withdrawalRequests, totalPendingWithdrawals,
                 voteVars, rewardVars, vaultPaused, now>>

StakerStep ==
  \E u \in Users, pid \in Pids :
    \/ Claim(u, pid) \/ ExecuteWithdrawal(u, pid) \/ ExecuteLegacyWithdrawal(u, pid)
    \/ \E n \in Amounts : Deposit(u, pid, n) \/ RequestWithdrawal(u, pid, n)

VoterStep == \E u \in Users, d \in Users \cup {ZeroAddress} : Delegate(u, d)

GovernanceStep ==
  \/ \E pid \in Pids :
       \/ UpdatePool(pid)
       \/ \E points \in AllocPoints : SetAllocPoint(pid, points)
       \/ \E period \in LockPeriods : SetWithdrawalLockingPeriod(pid, period)
  \/ \E rate \in RewardRates :
       \/ SetRewardRate(rate)
       \/ \E t \in Tokens, points \in AllocPoints, period \in LockPeriods :
            Add(t, points, rate, period)
  \/ PauseOrResume

EnvironmentStep ==
  \/ Tick
  \/ \E n \in Fundings : FundStore(n)
  \/ \E t \in Tokens, n \in Amounts : Donate(t, n)

Next == StakerStep \/ VoterStep \/ GovernanceStep \/ EnvironmentStep

Spec == Init /\ [][Next]_vars
-----------------------------------------------------------------------------
(* Properties. *)

TypeOK ==
  /\ poolInfos \in Seq(PoolInfo) /\ totalAllocPoints \in Nat /\ rewardRate \in Nat
  /\ userInfos \in [Pids -> [Users -> UserInfo]]
  /\ withdrawalRequests \in [Pids -> [Users -> Seq(WithdrawalRequest)]]
  /\ totalPendingWithdrawals \in [Pids -> Nat]
  /\ delegates \in [Users -> Users \cup {ZeroAddress}]
  /\ checkpoints \in [Users -> Seq(Checkpoint)]
  /\ pendingRewardTransfers \in [Users -> Nat] /\ rewardBalance \in [Users -> Nat]
  /\ vaultBalance \in [Tokens -> Nat] /\ storeBalance \in Nat
  /\ vaultPaused \in BOOLEAN /\ now \in Nat

\* The requests of a user are sorted, the first to be unlocked last, although
\* the lock period changes between them: popEligibleWithdrawalRequests stops at
\* the first that is locked.
RequestsSorted ==
  \A pid \in Pids, u \in Users : unlocksInOrder(withdrawalRequests[pid][u])

\* The three books of the withdrawals agree: the requests of a user add up to
\* its pendingWithdrawals, within its stake, and totalPendingWithdrawals is what
\* all users have requested since the upgrade.
PendingCounted ==
  \A pid \in Pids :
    /\ \A u \in Users :
         /\ userInfos[pid][u].pendingWithdrawals =
              requestedAmount(withdrawalRequests[pid][u], TRUE) + legacyPending(pid, u)
         /\ userInfos[pid][u].pendingWithdrawals <= userInfos[pid][u].amount
    /\ totalPendingWithdrawals[pid] =
         Total([u \in Users |-> requestedAmount(withdrawalRequests[pid][u], TRUE)])

\* The vault holds every token that is staked or on its way out.
StakesBacked ==
  \A pid \in DOMAIN poolInfos :
    Total([u \in Users |-> userInfos[pid][u].amount])
      <= vaultBalance[poolInfos[pid].token]

\* The debt never exceeds the reward it is subtracted from, so that no deposit,
\* claim, request or withdrawal reverts in a subtraction.
RewardDebtCovered ==
  \A pid \in DOMAIN poolInfos, u \in Users : pendingReward(pid, u) >= 0

\* The books of a pool agree with each other and with what the vault holds,
\* and no order of calls, payments and decisions makes a balance negative.
BooksAgree ==
  TypeOK /\ RequestsSorted /\ PendingCounted /\ StakesBacked /\ RewardDebtCovered

\* A user whose request has been unlocked can execute it, unless the vault is
\* paused: no require and no subtraction of executeWithdrawal reverts.
WithdrawalsNeverStuck ==
  \A pid \in DOMAIN poolInfos, u \in Users :
    ~vaultPaused /\ unlocked(withdrawalRequests[pid][u]) # <<>>
      => ENABLED (ExecuteWithdrawal(u, pid) \/ ExecuteLegacyWithdrawal(u, pid))

\* The current votes of a delegatee are the stakes of those who delegate to it,
\* without what they have asked to withdraw.
VotesMatchStakes ==
  \A d \in Users :
    getCurrentVotes(checkpoints[d]) =
      Total([s \in (DOMAIN poolInfos) \X Users |->
               IF poolInfos[s[1]].token = xvs /\ delegates[s[2]] = d
                 THEN userInfos[s[1]][s[2]].amount - userInfos[s[1]][s[2]].pendingWithdrawals
                 ELSE 0])

\* The votes at the end of a moment, without a search.
votesAt(list, time) ==
  LET written == {i \in DOMAIN list : list[i].from <= time}
  IN  IF written = {} THEN 0 ELSE list[Max(written)].votes

\* getPriorVotes finds the latest checkpoint that is not after the time asked.
PriorVotesRight ==
  \A d \in Users, time \in 0 .. now - 1 :
    getPriorVotes(checkpoints[d], time) = votesAt(checkpoints[d], time)

\* The votes of a moment that has passed are never rewritten: a governance
\* proposal counts them at its start block.
PastVotesFixed ==
  [][\A d \in Users, time \in 0 .. now - 1 :
       getPriorVotes(checkpoints'[d], time) = getPriorVotes(checkpoints[d], time)]_vars

\* What a user has received, is owed, and has earned so far.
earned(u) ==
  rewardBalance[u] + pendingRewardTransfers[u]
    + Total([pid \in DOMAIN poolInfos |-> pendingReward(pid, u)])

\* Only time gives rewards and none are lost: no deposit, claim, request,
\* withdrawal or decision of governance changes what any user has earned.  Tokens
\* sent to the vault dilute it, and the withdrawal of an old request forgets what
\* the store does not have.
EarningsKept ==
  [][\A u \in Users :
       \/ earned(u)' = earned(u)
       \/ now' # now
       \/ \E t \in Tokens, n \in Amounts : Donate(t, n)
       \/ storeBalance' = 0 /\ \E pid \in Pids : ExecuteLegacyWithdrawal(u, pid)]_vars

\* What rounding may add to the rewards of a pool in one unit of time: one for
\* its part of the rate, one for each user, and one unit of its rewards per share
\* for the whole supply.
rounding(pid) ==
  1 + Cardinality(Users)
    + (vaultBalance[poolInfos[pid].token] - totalPendingWithdrawals[pid]) \div accScale

\* In one unit of time all users of all pools together earn the rate, up to the
\* rounding of each pool.
RewardsWithinRate ==
  [][now' # now =>
     Total([u \in Users |-> earned(u)']) - Total([u \in Users |-> earned(u)])
       <= rewardRate + Total([pid \in DOMAIN poolInfos |-> rounding(pid)])]_vars
=============================================================================
