------------------------------ MODULE Periphery ------------------------------
(***************************************************************************)
(* Three contracts at the edge of the protocol, side by side: the          *)
(* liquidator, the VAI vault with the comptroller that releases XVS to it, *)
(* and the VRT vault.  They share the accounts and nothing else, so that   *)
(* a step is a step of one of them.                                        *)
(***************************************************************************)
EXTENDS Liquidator

CONSTANTS
  Accounts,                  \* depositors
  Deposits,                  \* amounts of VAI and of VRT
  Rewards, Rates, MinReleases, MaxVAI, MaxXVS,      \* of the VAI vault
  interestRatePerBlock, Blocks, MaxVRT,             \* of the VRT vault
  MaxBlock

VARIABLES
  comptroller, vault, vaiUsers, xvsReceived, resized, vaiBlock,    \* the VAI vault
  vrtUsers, vrt, lastAccruingBlock, vaultPaused, vrtReceived, given, vrtBlock

vaiVars == <<comptroller, vault, vaiUsers, xvsReceived, resized, vaiBlock>>
vrtVars ==
  <<vrtUsers, vrt, lastAccruingBlock, vaultPaused, vrtReceived, given, vrtBlock>>

VaiVault == INSTANCE VAIVault
              WITH Amounts <- Deposits, userInfo <- vaiUsers,
                   received <- xvsReceived, blockNumber <- vaiBlock

VrtVault == INSTANCE VRTVault
              WITH Amounts <- Deposits, userInfo <- vrtUsers,
                   received <- vrtReceived, blockNumber <- vrtBlock

ASSUME VaultsAssumption == VaiVault!VAIVaultAssumption /\ VrtVault!VRTVaultAssumption

\* The comptroller may hold XVS, and release it, before the vault is there.
PeripheryInit ==
  /\ Init /\ VrtVault!Init
  /\ \E xvs, start, rate, minimum \in Nat : VaiVault!InitWith(xvs, start, rate, minimum)

PeripheryNext ==
  \/ Next /\ UNCHANGED <<vaiVars, vrtVars>>
  \/ VaiVault!Next /\ UNCHANGED <<vars, vrtVars>>
  \/ VrtVault!Next /\ UNCHANGED <<vars, vaiVars>>

PeripherySpec ==
  PeripheryInit /\ [][PeripheryNext]_<<vars, vaiVars, vrtVars>> /\ Fairness
-----------------------------------------------------------------------------
(* Properties. *)

\* No balance of the three contracts and no subtraction in them goes below 0,
\* and the vaults hold what their books say.
LedgersAgree ==
  /\ TypeOK /\ VaiVault!TypeOK /\ VrtVault!TypeOK
  /\ VaiVault!NeverStuck /\ VrtVault!BooksAgree

\* What the VAI vault owes is there, up to rounding.
RewardsCovered == VaiVault!RewardsCovered

\* No step of anybody takes rewards of the VAI vault from anybody.
EarningsKept == VaiVault!EarningsKept

\* Interest on VRT comes with the blocks and with nothing else.
InterestIsTime == VrtVault!InterestIsTime
=============================================================================
