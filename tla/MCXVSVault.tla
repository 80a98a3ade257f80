--------------------------- MODULE MCXVSVault ---------------------------
(* A vault that was upgraded with requests in it and whose store runs dry;  *)
(* a vault whose pools, shares and rate governance sets up and changes      *)
(* while alice stakes; and two stakers with their votes.                    *)
EXTENDS XVSVault

CONSTANTS alice, bob, xvsToken, other

VARIABLE scenario

MCUsers == {alice, bob}
MCTokens == {xvsToken, other}

pool(t, points) ==
  [token |-> t, allocPoint |-> points, lastReward |-> 1, accRewardPerShare |-> 0,
   lockPeriod |-> 1]
MCNoPools == <<>>
MCXVSPool == <<pool(xvsToken, 1)>>
MCSlowPool == <<[pool(xvsToken, 1) EXCEPT !.lockPeriod = 2]>>

MCNoStakes == [u \in Users |-> 0]
MCNoRequests == [u \in Users |-> <<>>]

\* Before the upgrade alice staked 3 and asked for 2 of them, at two moments.
MCLegacyStakes == [u \in Users |-> IF u = alice THEN 3 ELSE 0]
oldRequest(time) == [amount |-> 1, lockedUntil |-> time, afterUpgrade |-> FALSE]
MCLegacyRequests ==
  [u \in Users |-> IF u = alice THEN <<oldRequest(3), oldRequest(2)>> ELSE <<>>]

MCInit ==
  \/ scenario = "upgrade" /\ InitWith(MCXVSPool, 20, 20, MCLegacyStakes, MCLegacyRequests)
  \/ scenario = "pools" /\ InitWith(MCNoPools, 0, 15, MCNoStakes, MCNoRequests)
  \/ scenario = "votes" /\ InitWith(MCSlowPool, 0, 0, MCNoStakes, MCNoRequests)

\* Bob only stakes and claims beside alice.
UpgradeNext ==
  \/ ExecuteLegacyWithdrawal(alice, 1) \/ ExecuteWithdrawal(alice, 1)
  \/ RequestWithdrawal(alice, 1, 1)
  \/ \E u \in Users : Claim(u, 1) \/ Deposit(u, 1, 1)
  \/ Tick
  \/ storeBalance = 0 /\ FundStore(20)
  \/ now = 2 /\ Donate(xvs, 1)

\* Up to the time 3, with stakes of 2, and paused at the time 2 only; the XVS
\* pool may be without a lock period at first, the other one never is.
PoolsNext ==
  \/ /\ GovernanceStep
     /\ vaultPaused' => now = 2
     /\ \A pid \in DOMAIN poolInfos' :
          poolInfos'[pid].token = xvs \/ poolInfos'[pid].lockPeriod > 0
  \/ now < 3 /\ ~vaultPaused /\ Tick
  \/ \E pid \in Pids :
       \/ Claim(alice, pid) \/ RequestWithdrawal(alice, pid, 2)
       \/ Deposit(alice, pid, 2) /\ \A t \in Tokens : vaultBalance'[t] <= 2

\* Up to the time 3, with two staked at most, no rewards and a waiting time that
\* becomes shorter; bob stays with alice, who delegates to anyone or nobody.
VotesNext ==
  \/ \E u \in Users :
       \/ ExecuteWithdrawal(u, 1) \/ RequestWithdrawal(u, 1, 1)
       \/ Deposit(u, 1, 1) /\ vaultBalance'[xvs] <= 2
  \/ \E d \in Users \cup {ZeroAddress} : Delegate(alice, d)
  \/ Delegate(bob, alice)
  \/ now < 3 /\ Tick
  \/ SetWithdrawalLockingPeriod(1, 1)

MCNext ==
  /\ UNCHANGED scenario
  /\ \/ scenario = "upgrade" /\ UpgradeNext
     \/ scenario = "pools" /\ PoolsNext
     \/ scenario = "votes" /\ VotesNext

MCSpec == MCInit /\ [][MCNext]_<<vars, scenario>>
=============================================================================
