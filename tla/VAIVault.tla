------------------------------- MODULE VAIVault -------------------------------
(***************************************************************************)
(* VAIVault.sol, which shares the XVS it receives among those who deposit  *)
(* VAI in it, and the comptroller, which releases XVS to it: every hook of *)
(* every market calls releaseToVault, and that calls the vault.            *)
(*                                                                         *)
(* External: the XVS that reaches and leaves the comptroller otherwise.    *)
(***************************************************************************)
EXTENDS Exponential, Totals

CONSTANTS
  Accounts,
  Amounts,                 \* of VAI
  Rewards,                 \* of XVS
  Rates, MinReleases,      \* arguments of the setters
  MaxBlock, MaxVAI, MaxXVS \* bounds of the model

VAIVaultAssumption ==
  /\ IsFiniteSet(Accounts)
  /\ Amounts \cup Rewards \cup Rates \cup MinReleases \subseteq Nat

VARIABLES
  comptroller,  \* the XVS it holds and the parameters of the release
  vault,        \* vai and xvs are what it holds, xvsBalance what it has recorded
  userInfo,
  received,     \* XVS paid to each account
  resized,      \* how often an amount has changed, and a debt been rounded anew
  blockNumber

vars == <<comptroller, vault, userInfo, received, resized, blockNumber>>

Comptroller ==
  [xvs : Nat, releaseStartBlock : Nat, venusVAIVaultRate : Nat, minReleaseAmount : Nat]
Vault ==
  [vai : Nat, xvs : Nat, xvsBalance : Nat, pendingRewards : Nat, accXVSPerShare : Nat,
   vaultPaused : BOOLEAN]

TypeOK ==
  /\ comptroller \in Comptroller
  /\ vault \in Vault
  /\ userInfo \in [Accounts -> [amount : Nat, rewardDebt : Nat]]
  /\ received \in [Accounts -> Nat]
  /\ resized \in Nat /\ blockNumber \in Nat

InitWith(xvs, start, rate, minimum) ==
  /\ blockNumber = 1
  /\ comptroller = [xvs |-> xvs, releaseStartBlock |-> start,
                    venusVAIVaultRate |-> rate, minReleaseAmount |-> minimum]
  /\ vault = [vai |-> 0, xvs |-> 0, xvsBalance |-> 0, pendingRewards |-> 0,
              accXVSPerShare |-> 0, vaultPaused |-> FALSE]
  /\ userInfo = [a \in Accounts |-> [amount |-> 0, rewardDebt |-> 0]]
  /\ received = [a \in Accounts |-> 0] /\ resized = 0

Init ==
  \E start \in 0 .. MaxBlock, rate \in Rates, minimum \in MinReleases :
    InitWith(0, start, rate, minimum)
-----------------------------------------------------------------------------
(* The vault: what arrives is first pending, then shared. *)

\* The vault finds out by itself what has arrived; the subtraction reverts
\* below zero, and so does everything if the vault is paused.
updatePendingRewards(v) ==
  [v EXCEPT !.xvsBalance = v.xvs, !.pendingRewards = @ + (v.xvs - v.xvsBalance)]

\* Without VAI in the vault the rewards stay pending.
updateVault(v) ==
  LET u == updatePendingRewards(v)
  IN  IF u.vai = 0 THEN u
      ELSE [u EXCEPT !.accXVSPerShare = @ + getExp(u.pendingRewards, u.vai),
                     !.pendingRewards = 0]

grown(v, user) == mulScalarTruncate(v.accXVSPerShare, user.amount)
pendingXVS(v, user) == grown(v, user) - user.rewardDebt

\* Mutant: the record of the balance is left as it was.
safeXVSTransfer_untracked(v, amount) ==
  [v EXCEPT !.xvs = @ - (IF amount > v.xvs THEN v.xvs ELSE amount)]

\* Never more than there is: rounding may leave the last one short.
safeXVSTransfer(v, amount) ==
  LET left == IF amount > v.xvs THEN 0 ELSE v.xvs - amount
  IN  [v EXCEPT !.xvs = left, !.xvsBalance = left]

\* Mutant: what has arrived is not shared before the amounts change.
settled_stale(a) ==
  safeXVSTransfer(updatePendingRewards(vault), pendingXVS(vault, userInfo[a]))

\* updateVault and updateAndPayOutPending.
settled(a) ==
  LET v == updateVault(vault) IN safeXVSTransfer(v, pendingXVS(v, userInfo[a]))

\* Mutant: a claim does not renew the debt.
userAfter_oldDebt(v, user, amount) ==
  [amount |-> amount, rewardDebt |-> IF amount = user.amount THEN user.rewardDebt
                                                             ELSE grown(v, user)]

userAfter(v, user, amount) ==
  [amount |-> amount, rewardDebt |-> mulScalarTruncate(v.accXVSPerShare, amount)]

\* Pay what is pending, then change the amount; paying moves neither the
\* index nor the VAI.
SetAmount(a, amount) ==
  LET v == settled(a)
      user == userInfo[a]
  IN  /\ ~vault.vaultPaused
      /\ vault' = [v EXCEPT !.vai = (@ - user.amount) + amount]
      /\ userInfo' = [userInfo EXCEPT ![a] = userAfter(v, user, amount)]
      /\ received' = [received EXCEPT ![a] = @ + (vault.xvs - v.xvs)]
      /\ resized' = IF amount = user.amount THEN resized ELSE resized + 1
      /\ UNCHANGED <<comptroller, blockNumber>>

Deposit(a, amount) ==
  /\ vault.vai + amount <= MaxVAI
  /\ SetAmount(a, userInfo[a].amount + amount)

Withdraw(a, amount) ==
  /\ userInfo[a].amount >= amount
  /\ SetAmount(a, userInfo[a].amount - amount)

\* claim, for oneself or for another account.
Claim(a) == SetAmount(a, userInfo[a].amount)

SetVault(v) ==
  vault' = v /\ UNCHANGED <<comptroller, userInfo, received, resized, blockNumber>>

UpdatePendingRewards == ~vault.vaultPaused /\ SetVault(updatePendingRewards(vault))

\* pause and resume.
SetPaused(paused) ==
  vault.vaultPaused # paused /\ SetVault([vault EXCEPT !.vaultPaused = paused])

\* Anyone can send tokens to the vault.
DonateVAI(amount) ==
  vault.vai + amount <= MaxVAI /\ SetVault([vault EXCEPT !.vai = @ + amount])
DonateXVS(amount) ==
  /\ vault.xvs + Total(received) + amount <= MaxXVS
  /\ SetVault([vault EXCEPT !.xvs = @ + amount])
-----------------------------------------------------------------------------
(* The comptroller: releaseToVault. *)

releaseAmount ==
  LET due == comptroller.venusVAIVaultRate * (blockNumber - comptroller.releaseStartBlock)
  IN  IF comptroller.xvs >= due THEN due ELSE comptroller.xvs

releases ==
  /\ comptroller.releaseStartBlock # 0 /\ blockNumber >= comptroller.releaseStartBlock
  /\ comptroller.xvs > 0 /\ releaseAmount >= comptroller.minReleaseAmount

\* Every market hook, and _setVenusVAIVaultRate with the new rate.  A release
\* to a paused vault reverts, and the hook with it.
ReleaseToVault(rate) ==
  /\ IF releases
       THEN /\ ~vault.vaultPaused
            /\ comptroller' = [comptroller EXCEPT !.xvs = @ - releaseAmount,
                                                  !.releaseStartBlock = blockNumber,
                                                  !.venusVAIVaultRate = rate]
            /\ vault' = updatePendingRewards([vault EXCEPT !.xvs = @ + releaseAmount])
       ELSE /\ comptroller' = [comptroller EXCEPT !.venusVAIVaultRate = rate]
            /\ UNCHANGED vault
  /\ UNCHANGED <<userInfo, received, resized, blockNumber>>

MarketHook == ReleaseToVault(comptroller.venusVAIVaultRate)

SetVenusVAIVaultRate(rate) ==
  rate # comptroller.venusVAIVaultRate /\ ReleaseToVault(rate)

\* XVS that arrives at the comptroller, or leaves it for a claim.
SetBalance(xvs) ==
  /\ comptroller' = [comptroller EXCEPT !.xvs = xvs]
  /\ UNCHANGED <<vault, userInfo, received, resized, blockNumber>>

Fund(amount) ==
  /\ comptroller.xvs + vault.xvs + Total(received) + amount <= MaxXVS
  /\ SetBalance(comptroller.xvs + amount)
Grant(amount) == amount <= comptroller.xvs /\ SetBalance(comptroller.xvs - amount)

NextBlock ==
  /\ blockNumber < MaxBlock /\ blockNumber' = blockNumber + 1
  /\ UNCHANGED <<comptroller, vault, userInfo, received, resized>>

Next ==
  \/ \E a \in Accounts, amount \in Amounts : Deposit(a, amount) \/ Withdraw(a, amount)
  \/ \E a \in Accounts : Claim(a)
  \/ UpdatePendingRewards \/ MarketHook \/ NextBlock
  \/ \E paused \in BOOLEAN : SetPaused(paused)
  \/ \E amount \in Amounts : DonateVAI(amount)
  \/ \E amount \in Rewards : DonateXVS(amount) \/ Fund(amount) \/ Grant(amount)
  \/ \E rate \in Rates : SetVenusVAIVaultRate(rate)

Spec == Init /\ [][Next]_vars
-----------------------------------------------------------------------------
(* Properties. *)

\* No subtraction of the vault can revert: neither those that withdraw, nor
\* the one that every market hook of the comptroller reaches.
NeverStuck ==
  /\ vault.xvsBalance <= vault.xvs
  /\ Total([a \in Accounts |-> userInfo[a].amount]) <= vault.vai
  /\ \A a \in Accounts : userInfo[a].rewardDebt <= grown(vault, userInfo[a])

\* What is owed is there, up to one unit for every time a debt was rounded.
RewardsCovered ==
  Total([a \in Accounts |-> pendingXVS(vault, userInfo[a])]) + vault.pendingRewards
    <= vault.xvsBalance + resized

\* What an account would be paid now.
owedNow(a) == pendingXVS(updateVault(vault), userInfo[a])

\* Nobody's step takes rewards from anybody: whoever comes or goes, whatever
\* is released, nobody has less than before, unless VAI is donated, which
\* takes part in what is pending, or the roundings have left less in the
\* vault than the account is owed.
EarningsKept ==
  [][\/ \E amount \in Amounts : DonateVAI(amount)
     \/ \A a \in Accounts :
          \/ received'[a] + owedNow(a)' >= received[a] + owedNow(a)
          \/ owedNow(a) > vault.xvs]_vars
=============================================================================
