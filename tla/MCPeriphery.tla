----------------------------- MODULE MCPeriphery -----------------------------
(* Three contracts at the edge of the protocol, which share nothing, each in  *)
(* scenarios of its own: the liquidator with three markets that may be unable *)
(* to pay, so that a chunk of one or two is shorter than the queue; the VAI   *)
(* vault with two accounts that come and go while XVS is sent to it and VAI   *)
(* is donated, or with one account, a comptroller that releases XVS at two    *)
(* rates, and pauses; and the VRT vault with two depositors and an end of the *)
(* accrual that is set late and moved both ways.                              *)
EXTENDS Periphery

CONSTANTS v1, v2, v3, alice, bob, MaxResized, MaxReceived

VARIABLE scenario

MCVTokens == {v1, v2, v3}
MCAccounts == {alice, bob}

MCInit ==
  /\ VrtVault!Init
  /\ \/ scenario = "liquidator" /\ Init /\ VaiVault!InitWith(0, 0, 0, 0)
     \/ /\ scenario \in {"sharing", "release", "VRT"}
        /\ Init /\ treasuryPercent = 2 /\ liquidatorShare = 2
        /\ cash = [v \in VTokens |-> 0]
        /\ IF scenario = "release"
             THEN \E start \in 1 .. 2, minimum \in MinReleases :
                    VaiVault!InitWith(3, start, 1, minimum)
             ELSE VaiVault!InitWith(0, 0, 0, 0)

\* The VAI vault.
SharingNext ==
  \/ \E a \in MCAccounts, amount \in Deposits :
       VaiVault!Deposit(a, amount) \/ VaiVault!Withdraw(a, amount)
  \/ \E a \in MCAccounts : VaiVault!Claim(a)
  \/ \E amount \in Rewards : VaiVault!DonateXVS(amount)
  \/ VaiVault!DonateVAI(1) \/ VaiVault!UpdatePendingRewards

ReleaseNext ==
  \/ VaiVault!Deposit(alice, 2) \/ VaiVault!Withdraw(alice, 2) \/ VaiVault!Claim(alice)
  \/ \E amount \in Rewards : VaiVault!Fund(amount) \/ VaiVault!Grant(amount)
  \/ \E rate \in Rates : VaiVault!SetVenusVAIVaultRate(rate)
  \/ \E paused \in BOOLEAN : VaiVault!SetPaused(paused)
  \/ VaiVault!MarketHook \/ VaiVault!NextBlock

\* Where the exploration ends.
VaiBound == resized' <= MaxResized /\ vaiBlock' < MaxBlock
VrtBound ==
  VrtVault!Total(vrtReceived') <= MaxReceived /\ given' \in -1 .. 3

MCNext ==
  /\ UNCHANGED scenario
  /\ \/ /\ scenario = "liquidator" /\ Next
        /\ UNCHANGED <<vaiVars, vrtVars>>
     \/ /\ \/ scenario = "sharing" /\ SharingNext
           \/ scenario = "release" /\ ReleaseNext
        /\ VaiBound /\ UNCHANGED <<vars, vrtVars>>
     \/ /\ scenario = "VRT" /\ VrtVault!Next
        /\ VrtBound /\ UNCHANGED <<vars, vaiVars>>

MCSpec ==
  /\ MCInit
  /\ [][MCNext]_<<vars, vaiVars, vrtVars, scenario>>
  /\ Fairness
=============================================================================
