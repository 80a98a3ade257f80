------------------------------- MODULE Prime -------------------------------
(***************************************************************************)
(* The Prime token contracts/Tokens/Prime/Prime.sol together with the      *)
(* PrimeLiquidityProvider.sol that feeds it: who holds a token, the score  *)
(* of each holder in each boosted market, the rounds in which all scores   *)
(* are recomputed, and the income of a market that is shared by score.     *)
(*                                                                         *)
(* A market has one underlying asset and an asset one market               *)
(* (vTokenForAsset), so that what both contracts store per asset is kept   *)
(* with the market.  stake is the balance of a user in the XVSVault and    *)
(* capital what it supplies and borrows in a market; vault and comptroller *)
(* report each change in the same transaction.  Prices do not move, and no *)
(* interest of the market itself changes the capital in between.  The caps *)
(* of the capital and the fractional power of Scores.sol are the constant  *)
(* ScoreOf.                                                                *)
(***************************************************************************)
EXTENDS Exponential, Totals

CONSTANTS
  Users, Markets,
  ScoreOf(_, _, _, _),   \* of the capped stake, capital, multiplier and alpha
  STAKING_PERIOD, MINIMUM_STAKED_XVS, MAXIMUM_XVS_CAP,
  Stakes, Capitals, Multipliers, Alphas, Limits, Speeds, Fundings, StakedTimes,
  InitialMarkets,        \* added to Prime and initialized in the provider
  InitialLimit,          \* of both kinds, from a setLimit right after the deployment
  MaxTime, MaxRounds, MaxIncome   \* bounds of the model

ASSUME PrimeAssumption ==
  /\ IsFiniteSet(Users) /\ InitialMarkets \subseteq Markets
  /\ InitialMarkets # {} => Multipliers # {}
  /\ {STAKING_PERIOD, MINIMUM_STAKED_XVS, MAXIMUM_XVS_CAP, InitialLimit} \subseteq Nat
  /\ Stakes \cup Capitals \cup Multipliers \cup Limits \cup Speeds \cup Fundings
       \cup StakedTimes \subseteq Nat
  /\ \A xvs \in Stakes \cup {0, MAXIMUM_XVS_CAP}, c \in Capitals \cup {0},
        m \in Multipliers, a \in Alphas : ScoreOf(xvs, c, m, a) \in Nat

VARIABLES
  tokens, totalIrrevocable, totalRevocable, irrevocableLimit, revocableLimit,
  stakedAt,
  markets,               \* with the interests of the users and the provider
  alpha,
  isScoreUpdated,        \* the users marked in the current round
  nextScoreUpdateRoundId, totalScoreUpdatesRequired, pendingScoreUpdates,
  paused,                \* claimInterest
  fundsTransferPaused,   \* releaseFunds of the provider
  stake, capital, received, now

tokenVars == <<tokens, totalIrrevocable, totalRevocable>>
limitVars == <<irrevocableLimit, revocableLimit>>
roundVars ==
  <<isScoreUpdated, nextScoreUpdateRoundId, totalScoreUpdatesRequired, pendingScoreUpdates>>
pauseVars == <<paused, fundsTransferPaused>>
userVars == <<stake, capital, received>>
vars == <<tokenVars, limitVars, stakedAt, markets, alpha, roundVars, pauseVars,
          userVars, now>>

Token == [exists : BOOLEAN, isIrrevocable : BOOLEAN]
Interest == [accrued : Nat, score : Nat, rewardIndex : Nat]
Market ==
  [exists : BOOLEAN, multiplier : Multipliers \cup {0}, rewardIndex : Nat,
   sumOfMembersScore : Nat, interests : [Users -> Interest],
   unreleasedPLPIncome : Nat,
   balance : Nat,                    \* of the asset in Prime
   tokenDistributionSpeed : Nat,
   tokenAmountAccrued : Nat,
   lastAccrued : Nat,                \* 0 before initializeTokens
   plpBalance : Nat]                 \* of the asset in the provider

noToken == [exists |-> FALSE, isIrrevocable |-> FALSE]
noInterest == [accrued |-> 0, score |-> 0, rewardIndex |-> 0]

\* A market in storage; the initial ones have the smallest multiplier.
initialMarket(added) ==
  [exists |-> added,
   multiplier |-> IF added THEN CHOOSE n \in Multipliers : \A k \in Multipliers : n <= k
                           ELSE 0,
   rewardIndex |-> 0, sumOfMembersScore |-> 0, interests |-> [u \in Users |-> noInterest],
   unreleasedPLPIncome |-> 0, balance |-> 0, tokenDistributionSpeed |-> 0,
   tokenAmountAccrued |-> 0, lastAccrued |-> IF added THEN 1 ELSE 0, plpBalance |-> 0]

Init ==
  /\ tokens = [u \in Users |-> noToken] /\ totalIrrevocable = 0 /\ totalRevocable = 0
  /\ irrevocableLimit = InitialLimit /\ revocableLimit = InitialLimit
  /\ stakedAt = [u \in Users |-> 0]
  /\ markets = [v \in Markets |-> initialMarket(v \in InitialMarkets)]
  /\ alpha \in Alphas
  /\ isScoreUpdated = {} /\ nextScoreUpdateRoundId = 0
  /\ totalScoreUpdatesRequired = 0 /\ pendingScoreUpdates = 0
  /\ paused = TRUE /\ fundsTransferPaused = FALSE
  /\ stake = [u \in Users |-> 0]
  /\ capital = [v \in Markets |-> [u \in Users |-> 0]]
  /\ received = [v \in Markets |-> [u \in Users |-> 0]]
  /\ now = 1

-----------------------------------------------------------------------------
(* The provider releases a speed per unit of time, as far as it has funds. *)

initialized(m) == m.lastAccrued > 0

accrueTokens(m) ==
  LET due == (now - m.lastAccrued) * m.tokenDistributionSpeed
      free == m.plpBalance - m.tokenAmountAccrued
  IN  [m EXCEPT !.tokenAmountAccrued = @ + (IF free <= due THEN free ELSE due),
                !.lastAccrued = now]

releaseFunds(m) ==
  LET a == accrueTokens(m)
  IN  [a EXCEPT !.balance = @ + a.tokenAmountAccrued,
                !.plpBalance = @ - a.tokenAmountAccrued,
                !.tokenAmountAccrued = 0]

-----------------------------------------------------------------------------
(* Income and scores of a market. *)

\* Mutant: the income that was counted before is counted again.
accrueInterest_again(m) ==
  LET a      == accrueTokens(m)
      income == a.tokenAmountAccrued
      delta  == IF a.sumOfMembersScore # 0
                  THEN (income * expScale) \div a.sumOfMembersScore ELSE 0
  IN  [a EXCEPT !.unreleasedPLPIncome = a.tokenAmountAccrued, !.rewardIndex = @ + delta]

\* Income that accrues while nobody has a score is shared with nobody.
accrueInterest(m) ==
  LET a      == accrueTokens(m)
      income == a.tokenAmountAccrued - a.unreleasedPLPIncome
      delta  == IF a.sumOfMembersScore # 0
                  THEN (income * expScale) \div a.sumOfMembersScore ELSE 0
  IN  [a EXCEPT !.unreleasedPLPIncome = a.tokenAmountAccrued, !.rewardIndex = @ + delta]

interestAccrued(m, u) ==
  ((m.rewardIndex - m.interests[u].rewardIndex) * m.interests[u].score) \div expScale

\* Mutant: the index of the user is not moved on.
executeBoost_sameIndex(m, u) ==
  LET a == accrueInterest(m)
  IN  [a EXCEPT !.interests[u].accrued = @ + interestAccrued(a, u)]

\* For the holder of a token.
executeBoost(m, u) ==
  LET a == accrueInterest(m)
  IN  [a EXCEPT !.interests[u].accrued = @ + interestAccrued(a, u),
                !.interests[u].rewardIndex = a.rewardIndex]

xvsBalanceForScore(xvs) == IF xvs > MAXIMUM_XVS_CAP THEN MAXIMUM_XVS_CAP ELSE xvs

calculateScore(m, xvs, cap) == ScoreOf(xvsBalanceForScore(xvs), cap, m.multiplier, alpha)

\* Mutant: the old score stays in the sum.
updateScore_added(m, u, score) ==
  [m EXCEPT !.sumOfMembersScore = @ + score, !.interests[u].score = score]

updateScore(m, u, score) ==
  [m EXCEPT !.sumOfMembersScore = @ - m.interests[u].score + score,
            !.interests[u].score = score]

boostAndScore(v, u, xvs, cap) ==
  updateScore(executeBoost(markets[v], u), u, calculateScore(markets[v], xvs, cap))

\* _initializeMarkets in one market: what is accrued before counts for nothing.
initializeMarket(v, u) ==
  LET a     == accrueInterest(markets[v])
      score == calculateScore(a, stake[u], capital[v][u])
  IN  [a EXCEPT !.interests[u].rewardIndex = a.rewardIndex,
                !.interests[u].score = score,
                !.sumOfMembersScore = @ + score]

\* The part of _burn in one market.
leaveMarket(v, u) ==
  LET b == executeBoost(markets[v], u)
  IN  [b EXCEPT !.sumOfMembersScore = @ - b.interests[u].score,
                !.interests[u].score = 0, !.interests[u].rewardIndex = 0]

\* The loops over _allMarkets revert in a market the provider does not know.
canAccrueAll == \A v \in Markets : markets[v].exists => initialized(markets[v])

inAllMarkets(changed) ==
  [v \in Markets |-> IF markets[v].exists THEN changed[v] ELSE markets[v]]

-----------------------------------------------------------------------------
(* Rounds of score updates. *)

startScoreUpdateRound ==
  /\ nextScoreUpdateRoundId < MaxRounds
  /\ nextScoreUpdateRoundId' = nextScoreUpdateRoundId + 1
  /\ isScoreUpdated' = {}
  /\ totalScoreUpdatesRequired' = totalIrrevocable + totalRevocable
  /\ pendingScoreUpdates' = totalIrrevocable + totalRevocable

\* Mutant: a holder who leaves stays pending.
updateRoundAfterTokenBurned_pending(u) ==
  /\ totalScoreUpdatesRequired' =
       IF totalScoreUpdatesRequired # 0 THEN totalScoreUpdatesRequired - 1 ELSE 0
  /\ UNCHANGED <<pendingScoreUpdates, isScoreUpdated, nextScoreUpdateRoundId>>

updateRoundAfterTokenBurned(u) ==
  /\ totalScoreUpdatesRequired' =
       IF totalScoreUpdatesRequired # 0 THEN totalScoreUpdatesRequired - 1 ELSE 0
  /\ pendingScoreUpdates' =
       IF pendingScoreUpdates # 0 /\ u \notin isScoreUpdated
         THEN pendingScoreUpdates - 1 ELSE pendingScoreUpdates
  /\ UNCHANGED <<isScoreUpdated, nextScoreUpdateRoundId>>

updateRoundAfterTokenMinted(u) ==
  /\ isScoreUpdated' = IF totalScoreUpdatesRequired # 0
                         THEN isScoreUpdated \cup {u} ELSE isScoreUpdated
  /\ UNCHANGED <<totalScoreUpdatesRequired, pendingScoreUpdates, nextScoreUpdateRoundId>>

-----------------------------------------------------------------------------
(* Tokens. *)

\* _mint and _initializeMarkets.
mint(isIrrevocable, u) ==
  /\ ~tokens[u].exists /\ canAccrueAll
  /\ tokens' = [tokens EXCEPT ![u] = [exists |-> TRUE, isIrrevocable |-> isIrrevocable]]
  /\ totalIrrevocable' = totalIrrevocable + (IF isIrrevocable THEN 1 ELSE 0)
  /\ totalRevocable' = totalRevocable + (IF isIrrevocable THEN 0 ELSE 1)
  /\ totalIrrevocable' <= irrevocableLimit /\ totalRevocable' <= revocableLimit
  /\ updateRoundAfterTokenMinted(u)
  /\ markets' = inAllMarkets([v \in Markets |-> initializeMarket(v, u)])

burn(u) ==
  /\ tokens[u].exists /\ canAccrueAll
  /\ markets' = inAllMarkets([v \in Markets |-> leaveMarket(v, u)])
  /\ totalIrrevocable' = totalIrrevocable - (IF tokens[u].isIrrevocable THEN 1 ELSE 0)
  /\ totalRevocable' = totalRevocable - (IF tokens[u].isIrrevocable THEN 0 ELSE 1)
  /\ tokens' = [tokens EXCEPT ![u] = noToken]
  /\ updateRoundAfterTokenBurned(u)

upgrade(u) ==
  /\ tokens' = [tokens EXCEPT ![u].isIrrevocable = TRUE]
  /\ totalIrrevocable' = totalIrrevocable + 1
  /\ totalRevocable' = totalRevocable - 1
  /\ totalIrrevocable' <= irrevocableLimit

\* One element of the list of issue.
Issue(isIrrevocable, u) ==
  /\ IF isIrrevocable /\ tokens[u].exists /\ ~tokens[u].isIrrevocable
       THEN upgrade(u) /\ UNCHANGED <<roundVars, markets>>
       ELSE mint(isIrrevocable, u)
  /\ UNCHANGED <<limitVars, stakedAt, alpha, pauseVars, userVars, now>>

Claim(u) ==
  /\ stakedAt[u] # 0 /\ now - stakedAt[u] >= STAKING_PERIOD
  /\ mint(FALSE, u)
  /\ UNCHANGED <<limitVars, stakedAt, alpha, pauseVars, userVars, now>>

Burn(u) ==
  /\ burn(u)
  /\ UNCHANGED <<limitVars, stakedAt, alpha, pauseVars, userVars, now>>

isEligible(xvs) == xvs >= MINIMUM_STAKED_XVS

\* A deposit or a request of withdrawal in the vault, which calls xvsUpdated;
\* anybody may also call it without a change.
StakeChanged(u, xvs) ==
  /\ stake' = [stake EXCEPT ![u] = xvs]
  /\ stakedAt' = [stakedAt EXCEPT ![u] =
                    IF ~isEligible(xvs) THEN 0 ELSE IF @ = 0 THEN now ELSE @]
  /\ \/ ~tokens[u].exists /\ UNCHANGED <<tokenVars, roundVars, markets>>
     \/ tokens[u].exists /\ ~isEligible(xvs) /\ ~tokens[u].isIrrevocable /\ burn(u)
     \/ /\ tokens[u].exists /\ (isEligible(xvs) \/ tokens[u].isIrrevocable)
        /\ canAccrueAll
        /\ markets' = inAllMarkets([v \in Markets |-> boostAndScore(v, u, xvs, capital[v][u])])
        /\ UNCHANGED <<tokenVars, roundVars>>
  /\ UNCHANGED <<limitVars, alpha, pauseVars, capital, received, now>>

-----------------------------------------------------------------------------
(* Scores and interest. *)

\* An operation of u in the market v and accrueInterestAndUpdateScore, which
\* the hooks of the comptroller call after it.
CapitalChanged(u, v, amount) ==
  /\ capital' = [capital EXCEPT ![v][u] = amount]
  /\ IF markets[v].exists /\ tokens[u].exists
       THEN /\ initialized(markets[v])
            /\ markets' = [markets EXCEPT ![v] = boostAndScore(v, u, stake[u], amount)]
       ELSE UNCHANGED markets
  /\ UNCHANGED <<tokenVars, limitVars, stakedAt, alpha, roundVars, pauseVars, stake,
                 received, now>>

\* One element of the list of updateScores.
UpdateScores(u) ==
  /\ pendingScoreUpdates # 0 /\ nextScoreUpdateRoundId # 0
  /\ tokens[u].exists /\ u \notin isScoreUpdated
  /\ canAccrueAll
  /\ markets' = inAllMarkets([v \in Markets |-> boostAndScore(v, u, stake[u], capital[v][u])])
  /\ pendingScoreUpdates' = pendingScoreUpdates - 1
  /\ isScoreUpdated' = isScoreUpdated \cup {u}
  /\ UNCHANGED <<tokenVars, limitVars, stakedAt, alpha, nextScoreUpdateRoundId,
                 totalScoreUpdatesRequired, pauseVars, userVars, now>>

AccrueInterest(v) ==
  /\ markets[v].exists /\ initialized(markets[v])
  /\ markets' = [markets EXCEPT ![v] = accrueInterest(@)]
  /\ UNCHANGED <<tokenVars, limitVars, stakedAt, alpha, roundVars, pauseVars, userVars, now>>

\* Mutant: what the user had accrued before stays.
settled_kept(m, u) == [m EXCEPT !.interests[u].rewardIndex = m.rewardIndex]

settled(m, u) ==
  [m EXCEPT !.interests[u].rewardIndex = m.rewardIndex, !.interests[u].accrued = 0]

\* Anybody may claim for u.  The provider is only asked when the balance of
\* Prime is not enough, and then for all it has accrued.
ClaimInterest(v, u) ==
  LET m      == accrueInterest(markets[v])
      amount == interestAccrued(m, u) + m.interests[u].accrued
      paid   == IF amount > m.balance
                  THEN releaseFunds([settled(m, u) EXCEPT !.unreleasedPLPIncome = 0])
                  ELSE settled(m, u)
  IN  /\ ~paused /\ markets[v].exists /\ initialized(markets[v])
      /\ amount > m.balance => ~fundsTransferPaused
      /\ amount <= paid.balance
      /\ markets' = [markets EXCEPT ![v] = [paid EXCEPT !.balance = @ - amount]]
      /\ received' = [received EXCEPT ![v][u] = @ + amount]
      /\ UNCHANGED <<tokenVars, limitVars, stakedAt, alpha, roundVars, pauseVars, stake,
                     capital, now>>

-----------------------------------------------------------------------------
(* Governance. *)

UpdateAlpha(newAlpha) ==
  /\ canAccrueAll
  /\ alpha' = newAlpha
  /\ markets' = inAllMarkets([v \in Markets |-> accrueInterest(markets[v])])
  /\ startScoreUpdateRound
  /\ UNCHANGED <<tokenVars, limitVars, stakedAt, pauseVars, userVars, now>>

UpdateMultipliers(v, multiplier) ==
  /\ markets[v].exists /\ initialized(markets[v])
  /\ markets' = [markets EXCEPT ![v] = [accrueInterest(@) EXCEPT !.multiplier = multiplier]]
  /\ startScoreUpdateRound
  /\ UNCHANGED <<tokenVars, limitVars, stakedAt, alpha, pauseVars, userVars, now>>

\* The provider is not asked whether it knows the asset.
AddMarket(v, multiplier) ==
  /\ ~markets[v].exists
  /\ markets' = [markets EXCEPT ![v].exists = TRUE, ![v].multiplier = multiplier,
                                ![v].rewardIndex = 0, ![v].sumOfMembersScore = 0]
  /\ startScoreUpdateRound
  /\ UNCHANGED <<tokenVars, limitVars, stakedAt, alpha, pauseVars, userVars, now>>

SetLimit(irrevocable, revocable) ==
  /\ totalIrrevocable <= irrevocable /\ totalRevocable <= revocable
  /\ irrevocableLimit' = irrevocable /\ revocableLimit' = revocable
  /\ UNCHANGED <<tokenVars, stakedAt, markets, alpha, roundVars, pauseVars, userVars, now>>

SetStakedAt(u, time) ==
  /\ time <= now
  /\ stakedAt' = [stakedAt EXCEPT ![u] = time]
  /\ UNCHANGED <<tokenVars, limitVars, markets, alpha, roundVars, pauseVars, userVars, now>>

TogglePause ==
  /\ paused' = ~paused
  /\ UNCHANGED <<tokenVars, limitVars, stakedAt, markets, alpha, roundVars,
                 fundsTransferPaused, userVars, now>>

-----------------------------------------------------------------------------
(* Calls to the provider. *)

providerOnly ==
  UNCHANGED <<tokenVars, limitVars, stakedAt, alpha, roundVars, pauseVars, userVars, now>>

AccrueTokens(v) ==
  /\ initialized(markets[v])
  /\ markets' = [markets EXCEPT ![v] = accrueTokens(@)]
  /\ providerOnly

InitializeToken(v) ==
  /\ ~initialized(markets[v])
  /\ markets' = [markets EXCEPT ![v].lastAccrued = now]
  /\ providerOnly

SetTokenDistributionSpeed(v, speed) ==
  /\ initialized(markets[v])
  /\ speed # markets[v].tokenDistributionSpeed
  /\ markets' = [markets EXCEPT ![v] =
                   [accrueTokens(@) EXCEPT !.tokenDistributionSpeed = speed]]
  /\ providerOnly

PauseOrResumeFundsTransfer ==
  /\ fundsTransferPaused' = ~fundsTransferPaused
  /\ UNCHANGED <<tokenVars, limitVars, stakedAt, markets, alpha, roundVars, paused,
                 userVars, now>>

\* Income arrives; it may accrue for the time since the last accrual.
Fund(v, amount) ==
  /\ markets[v].plpBalance + markets[v].balance + Total(received[v]) + amount <= MaxIncome
  /\ markets' = [markets EXCEPT ![v].plpBalance = @ + amount]
  /\ providerOnly

Tick ==
  /\ now < MaxTime
  /\ now' = now + 1
  /\ UNCHANGED <<tokenVars, limitVars, stakedAt, markets, alpha, roundVars, pauseVars,
                 userVars>>

-----------------------------------------------------------------------------

UserStep ==
  \E u \in Users :
    \/ Claim(u) \/ UpdateScores(u)
    \/ \E xvs \in Stakes : StakeChanged(u, xvs)
    \/ \E v \in Markets : ClaimInterest(v, u)
                          \/ \E amount \in Capitals : CapitalChanged(u, v, amount)

TokenStep ==
  \E u \in Users :
    Burn(u) \/ \E isIrrevocable \in BOOLEAN : Issue(isIrrevocable, u)

RoundStep ==
  \/ \E a \in Alphas : UpdateAlpha(a)
  \/ \E v \in Markets, n \in Multipliers : UpdateMultipliers(v, n) \/ AddMarket(v, n)

SettingStep ==
  \/ \E i, r \in Limits : SetLimit(i, r)
  \/ \E u \in Users, time \in StakedTimes : SetStakedAt(u, time)
  \/ TogglePause \/ PauseOrResumeFundsTransfer

IncomeStep ==
  \E v \in Markets :
    \/ AccrueInterest(v) \/ AccrueTokens(v) \/ InitializeToken(v)
    \/ \E speed \in Speeds : SetTokenDistributionSpeed(v, speed)
    \/ \E amount \in Fundings : Fund(v, amount)

Next == UserStep \/ TokenStep \/ RoundStep \/ SettingStep \/ IncomeStep \/ Tick

Spec == Init /\ [][Next]_vars
-----------------------------------------------------------------------------
(* Properties. *)

\* The type invariant of Prime and its provider.
TypeOK ==
  /\ tokens \in [Users -> Token]
  /\ {totalIrrevocable, totalRevocable, irrevocableLimit, revocableLimit} \subseteq Nat
  /\ stakedAt \in [Users -> Nat] /\ markets \in [Markets -> Market] /\ alpha \in Alphas
  /\ isScoreUpdated \subseteq Users
  /\ {nextScoreUpdateRoundId, totalScoreUpdatesRequired, pendingScoreUpdates} \subseteq Nat
  /\ {paused, fundsTransferPaused} \subseteq BOOLEAN
  /\ stake \in [Users -> Nat] /\ now \in Nat
  /\ capital \in [Markets -> [Users -> Nat]] /\ received \in [Markets -> [Users -> Nat]]

holders == {u \in Users : tokens[u].exists}

\* The totals are the numbers of tokens of each kind, within their limits,
\* after any sequence of issues, claims, upgrades, burns and revocations.
MembersCounted ==
  /\ totalIrrevocable = Cardinality({u \in holders : tokens[u].isIrrevocable})
  /\ totalRevocable = Cardinality({u \in holders : ~tokens[u].isIrrevocable})
  /\ totalIrrevocable <= irrevocableLimit /\ totalRevocable <= revocableLimit

\* sumOfMembersScore, which is only changed by differences, is the sum of the
\* scores of the holders; who holds no token has no score.  The subtractions of
\* _updateScore and _burn therefore never underflow.
ScoresSum ==
  \A v \in Markets :
    /\ markets[v].sumOfMembersScore = Total([u \in Users |-> markets[v].interests[u].score])
    /\ \A u \in Users \ holders : markets[v].interests[u].score = 0

\* The books of the tokens and of the scores agree with the holders, and no
\* counter is decremented below 0.
BooksAgree == TypeOK /\ MembersCounted /\ ScoresSum

owed(m, u) == m.interests[u].accrued + interestAccrued(m, u)

\* What a market owes to all users is covered by the balance of Prime and the
\* income it has counted but not fetched, which the provider really holds: no
\* claim fails for lack of funds while transfers are not paused.
InterestCovered ==
  \A v \in Markets :
    LET m == markets[v]
    IN  /\ Total([u \in Users |-> owed(m, u)]) <= m.balance + m.unreleasedPLPIncome
        /\ m.unreleasedPLPIncome <= m.tokenAmountAccrued
        /\ m.tokenAmountAccrued <= m.plpBalance

\* There are as many holders left to update as the counter says, or more: a
\* round can always be brought to its end.
RoundCanFinish == pendingScoreUpdates <= Cardinality(holders \ isScoreUpdated)

\* What a user has been paid and would be paid now.
earned(v, u) ==
  received[v][u] + owed(IF initialized(markets[v]) THEN accrueInterest(markets[v])
                                                   ELSE markets[v], u)

\* Only time and funding give interest, and none is lost: no mint, burn, update
\* of a score, claim or decision of governance changes what anybody, the caller
\* or another user, has earned so far.
EarnedKept ==
  [][\A v \in Markets, u \in Users :
       \/ earned(v, u)' = earned(v, u)
       \/ now' # now
       \/ markets'[v].plpBalance > markets[v].plpBalance]_vars

\* The holders whose score is not the one of the present parameters.
outdated ==
  {u \in holders : \E v \in Markets :
     /\ markets[v].exists
     /\ markets[v].interests[u].score # calculateScore(markets[v], stake[u], capital[v][u])}

\* What PrimeStorage.sol says of pendingScoreUpdates, "total number of accounts
\* whose score is yet to be updated": no holder is outdated beyond that number.
OutdatedArePending == Cardinality(outdated) <= pendingScoreUpdates
=============================================================================
