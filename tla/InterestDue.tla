---------------------------- MODULE InterestDue -----------------------------
(***************************************************************************)
(* What the borrowers of a market are charged while the block time of the  *)
(* chain changes, and what they owe at the yearly rate: the promise that   *)
(* governance makes with the checkpoint (CheckpointView.sol).              *)
(***************************************************************************)
EXTENDS Integers

CONSTANT At      \* CHECKPOINT_TIMESTAMP

VARIABLES
  now, fork,     \* fork: when the block time really changes
  charged,       \* interest charged to borrowers so far
  due,           \* interest at the yearly rate, over the time that has passed
  switched       \* when the market got its view

\* Nobody is ever charged more than the yearly rate for the time that has
\* passed: not while blocks are slow, and not afterwards, however the accruals
\* fall around the checkpoint, if governance has switched the market before it
\* and blocks did not become faster before it.
NeverOvercharged ==
  now <= fork \/ (switched < At /\ fork >= At) => charged <= due
=============================================================================
