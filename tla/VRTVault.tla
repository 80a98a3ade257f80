------------------------------- MODULE VRTVault -------------------------------
(***************************************************************************)
(* VRTVault.sol: deposits of VRT that earn a fixed interest per block, in  *)
(* VRT as well and out of the same balance, until lastAccruingBlock, which *)
(* governance sets and moves while it lies ahead.                          *)
(***************************************************************************)
EXTENDS Exponential, Totals

CONSTANTS
  Accounts,
  interestRatePerBlock,
  Amounts, Blocks,     \* arguments of the calls
  MaxBlock, MaxVRT     \* bounds of the model

VRTVaultAssumption ==
  /\ IsFiniteSet(Accounts)
  /\ interestRatePerBlock \in Nat \ {0}
  /\ Amounts \subseteq Nat \ {0} /\ Blocks \subseteq Nat

VARIABLES
  userInfo,            \* hasPosition stands for a userAddress
  vrt,                 \* the balance of the vault
  lastAccruingBlock, vaultPaused,
  received,            \* interest paid to each account
  given,               \* VRT that others sent, less what governance withdrew
  blockNumber

vars == <<userInfo, vrt, lastAccruingBlock, vaultPaused, received, given, blockNumber>>

UserInfo ==
  [hasPosition : BOOLEAN, accrualStartBlockNumber : Nat, totalPrincipalAmount : Nat]

TypeOK ==
  /\ userInfo \in [Accounts -> UserInfo]
  /\ vrt \in Nat /\ lastAccruingBlock \in Nat /\ blockNumber \in Nat
  /\ vaultPaused \in BOOLEAN
  /\ received \in [Accounts -> Nat]
  /\ given \in Int

Init ==
  /\ userInfo = [a \in Accounts |-> [hasPosition |-> FALSE, accrualStartBlockNumber |-> 0,
                                     totalPrincipalAmount |-> 0]]
  /\ vrt = 0 /\ lastAccruingBlock = 0 /\ vaultPaused = FALSE
  /\ received = [a \in Accounts |-> 0] /\ given = 0
  /\ blockNumber = 1
-----------------------------------------------------------------------------
(* Interest. *)

endOfAccrual == IF blockNumber > lastAccruingBlock THEN lastAccruingBlock ELSE blockNumber

\* 0 for who deposited before lastAccruingBlock was set, until the next deposit.
accruedInterest(user) ==
  LET start == user.accrualStartBlockNumber
  IN  IF start = 0 \/ start >= endOfAccrual THEN 0
      ELSE (user.totalPrincipalAmount * interestRatePerBlock * (endOfAccrual - start))
             \div expScale

\* Where the accrual of a deposit, or the next one after a claim, starts.
newStart == IF lastAccruingBlock > blockNumber THEN blockNumber ELSE lastAccruingBlock

\* What is paid must be there before a deposit comes in.
covers(amount, interest) == vrt >= amount + interest
-----------------------------------------------------------------------------
(* The operations. *)

Deposit(a, amount) ==
  LET user == userInfo[a]
      interest == accruedInterest(user)
  IN  /\ ~vaultPaused
      /\ covers(0, interest) /\ vrt + amount <= MaxVRT
      /\ userInfo' = [userInfo EXCEPT ![a] =
           [hasPosition |-> TRUE, accrualStartBlockNumber |-> newStart,
            totalPrincipalAmount |-> user.totalPrincipalAmount + amount]]
      /\ vrt' = (vrt - interest) + amount
      /\ received' = [received EXCEPT ![a] = @ + interest]
      /\ UNCHANGED <<lastAccruingBlock, vaultPaused, given, blockNumber>>

\* claim, for oneself or for another account.
Claim(a) ==
  LET interest == accruedInterest(userInfo[a])
  IN  /\ ~vaultPaused /\ userInfo[a].hasPosition
      /\ interest > 0 /\ covers(0, interest)
      /\ userInfo' = [userInfo EXCEPT ![a].accrualStartBlockNumber = newStart]
      /\ vrt' = vrt - interest
      /\ received' = [received EXCEPT ![a] = @ + interest]
      /\ UNCHANGED <<lastAccruingBlock, vaultPaused, given, blockNumber>>

withdrawn(user) == user.totalPrincipalAmount + accruedInterest(user)

Withdraw(a) ==
  LET user == userInfo[a]
      interest == accruedInterest(user)
  IN  /\ ~vaultPaused /\ user.hasPosition
      /\ covers(user.totalPrincipalAmount, interest)
      /\ userInfo' = [userInfo EXCEPT ![a].totalPrincipalAmount = 0,
                                      ![a].accrualStartBlockNumber = blockNumber]
      /\ vrt' = vrt - withdrawn(user)
      /\ received' = [received EXCEPT ![a] = @ + interest]
      /\ UNCHANGED <<lastAccruingBlock, vaultPaused, given, blockNumber>>

\* Mutant: the block may be moved after it has passed.
maySetLast_late(block) ==
  lastAccruingBlock = 0 \/ block < lastAccruingBlock => blockNumber < block

maySetLast(block) ==
  /\ lastAccruingBlock # 0 => blockNumber < lastAccruingBlock
  /\ lastAccruingBlock = 0 \/ block < lastAccruingBlock => blockNumber < block

SetLastAccruingBlock(block) ==
  /\ maySetLast(block) /\ lastAccruingBlock' = block
  /\ UNCHANGED <<userInfo, vrt, vaultPaused, received, given, blockNumber>>

\* pause and resume.
SetPaused(paused) ==
  /\ vaultPaused # paused /\ vaultPaused' = paused
  /\ UNCHANGED <<userInfo, vrt, lastAccruingBlock, received, given, blockNumber>>

\* withdrawBep20, of the VRT itself.
WithdrawBep20(amount) ==
  /\ amount <= vrt /\ vrt' = vrt - amount /\ given' = given - amount
  /\ UNCHANGED <<userInfo, lastAccruingBlock, vaultPaused, received, blockNumber>>

\* Somebody sends VRT to the vault, out of which interest can be paid.
Fund(amount) ==
  /\ vrt + amount <= MaxVRT /\ vrt' = vrt + amount /\ given' = given + amount
  /\ UNCHANGED <<userInfo, lastAccruingBlock, vaultPaused, received, blockNumber>>

NextBlock ==
  /\ blockNumber < MaxBlock /\ blockNumber' = blockNumber + 1
  /\ UNCHANGED <<userInfo, vrt, lastAccruingBlock, vaultPaused, received, given>>

Next ==
  \/ \E a \in Accounts : Claim(a) \/ Withdraw(a) \/ \E amount \in Amounts : Deposit(a, amount)
  \/ \E block \in Blocks : SetLastAccruingBlock(block)
  \/ \E paused \in BOOLEAN : SetPaused(paused)
  \/ \E amount \in Amounts : WithdrawBep20(amount) \/ Fund(amount)
  \/ NextBlock

Spec == Init /\ [][Next]_vars
-----------------------------------------------------------------------------
(* Properties. *)

\* Principals and interest share one balance: what is missing for the
\* principals is interest that nobody has funded, and nothing else.
BooksAgree ==
  vrt + Total(received)
    = Total([a \in Accounts |-> userInfo[a].totalPrincipalAmount]) + given

\* What an account has earned, paid or not.
earned(a) == received[a] + accruedInterest(userInfo[a])

\* Interest comes with the blocks and with nothing else: no call of anybody,
\* governance that moves the end of the accrual included, changes what is
\* earned; and a block before that end is paid at the rate, up to truncation,
\* to every deposit whose accrual has started.
InterestIsTime ==
  [][\A a \in Accounts :
       LET start == userInfo[a].accrualStartBlockNumber
           forOneBlock == userInfo[a].totalPrincipalAmount * interestRatePerBlock
           gain == (earned(a)' - earned(a)) * expScale
       IN  IF NextBlock /\ start # 0 /\ blockNumber < lastAccruingBlock
             THEN gain \in (forOneBlock - expScale) .. (forOneBlock + expScale)
             ELSE gain = 0]_vars
=============================================================================
