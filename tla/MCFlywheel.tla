----------------------------- MODULE MCFlywheel -----------------------------
(* Two accounts in a market that is listed, given speeds and unlisted while *)
(* they use it; two markets with speeds and claims of all kinds while the   *)
(* comptroller runs out of XVS and is funded again; and a borrower who is   *)
(* liquidated.                                                              *)
EXTENDS RewardFlywheel

CONSTANTS alice, bob, vA, vX

VARIABLE scenario

MCAccounts == {alice, bob}
MCVTokens == {vA, vX}
MCHolderLists == {<<alice>>, <<bob, alice>>, <<alice, alice>>}

MCEmpty == [v \in VTokens |-> initialMarket(1)]
MCNoSpeeds == [side \in Sides |-> [v \in VTokens |-> 0]]
MCSupplySpeeds == [MCNoSpeeds EXCEPT !["supply"] = [v \in VTokens |-> 2]]
MCBothSpeeds == [side \in Sides |-> [v \in VTokens |-> IF v = vA THEN 2 ELSE 0]]

\* alice holds vA and vX.
MCSupplied == [v \in VTokens |-> mintFresh(initialMarket(1), alice, 2)]

MCInit ==
  \/ scenario = "speeds" /\ InitWith(MCEmpty, {}, MCNoSpeeds, 0)
  \/ scenario = "claims" /\ InitWith(MCSupplied, VTokens, MCSupplySpeeds, 2)
  \/ scenario = "liquidation" /\ InitWith(MCSupplied, VTokens, MCBothSpeeds, 0)

SpeedsNext ==
  \/ SupportMarket(vA) \/ UnlistMarket(vA) \/ AccrueInterest(vA) \/ NextBlock
  \/ \E n \in Amounts :
       \/ Mint(alice, vA, n) \/ Redeem(alice, vA, n) \/ Mint(bob, vA, n)
       \/ Borrow(alice, vA, n) \/ RepayBorrow(alice, vA, n)
  \/ \E s, b \in Speeds : b \in {0, s} /\ SetVenusSpeed(vA, s, b)

ClaimsNext ==
  /\ \/ NextBlock
     \/ \E n \in Amounts : Mint(bob, vA, n) \/ Transfer(alice, bob, vA, n)
     \/ \E holders \in HolderLists, bankrupt \in SUBSET Accounts, collateral \in BOOLEAN :
          /\ bankrupt \subseteq ToSet(holders)
          /\ \/ ClaimVenus(holders, VTokens, Sides, collateral, bankrupt, 0)
             \/ ClaimVenus(holders, {vA}, {"supply"}, collateral, bankrupt, 0)
     \/ \E holders \in HolderLists : SeizeVenus(ToSet(holders))
     \/ \E n \in Fundings : GrantXVS(n) \/ (Fund(n) /\ flywheel.xvs = 0)
  /\ \A v \in VTokens : markets'[v].borrowIndex = expScale

LiquidationNext ==
  \/ \E n \in Amounts :
       \/ Borrow(alice, vA, n) \/ Borrow(bob, vA, n)
       \/ RepayBorrow(alice, vA, n) \/ RepayBorrow(bob, vA, n)
       \/ \E tokens \in Amounts : LiquidateBorrow(bob, alice, vA, vX, n, tokens)
       \/ \E tokens \in Amounts : LiquidateBorrow(bob, alice, vA, vA, n, tokens)
  \/ NextBlock

MCNext ==
  /\ UNCHANGED scenario
  /\ \/ scenario = "speeds" /\ SpeedsNext
     \/ scenario = "claims" /\ ClaimsNext
     \/ scenario = "liquidation" /\ LiquidationNext

MCSpec == MCInit /\ [][MCNext]_<<vars, scenario>>
=============================================================================
