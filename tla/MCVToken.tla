------------------------------ MODULE MCVToken ------------------------------
(* One market, two accounts that are both suppliers and borrowers.          *)
EXTENDS VToken, TLC

CONSTANTS alice, bob

MCAccounts == {alice, bob}
MCSymmetry == Permutations(MCAccounts)

\* A bound: allowances are only granted and used in the first block and while
\* nothing is borrowed; neither interest nor debts depend on them.
MCApprovalsEarly ==
  \/ blockNumber = StartBlock /\ market.totalBorrows = 0
  \/ \A src, spender \in Accounts : transferAllowances[src][spender] = 0
=============================================================================
