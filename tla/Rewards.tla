------------------------------ MODULE Rewards -------------------------------
(***************************************************************************)
(* The storage of the flywheel that pays XVS to suppliers and borrowers:   *)
(* each market keeps an index of XVS per vToken and one of XVS per         *)
(* borrowed unit, and an account is paid for how far they have moved since *)
(* it was paid last (XVSRewardsHelper.sol).  And what its calls, those of  *)
(* RewardFlywheel, must keep.  Indices have 224 bits and never get near.   *)
(***************************************************************************)
EXTENDS VTokenMarket, FiniteSetsExt

CONSTANTS
  VTokens,              \* the markets
  doubleScale,          \* 1e36
  venusVAIVaultRate, minReleaseAmount

VARIABLES
  markets,       \* the VToken contracts
  flywheel,      \* the storage of the flywheel
  allMarkets,    \* markets that ever were listed
  received,      \* XVS paid to each account, or seized from it
  promised,      \* XVS the speeds have released so far
  currentBlock   \* block.number

venusInitialIndex == doubleScale

\* Suppliers and borrowers are paid the same way.
Sides == {"supply", "borrow"}
State == [index : Nat, block : Nat]
Flywheel ==
  [state : [Sides -> [VTokens -> State]],   \* venusSupplyState, venusBorrowState
   speed : [Sides -> [VTokens -> Nat]],
   accountIndex : [Sides -> [VTokens -> [Accounts -> Nat]]],
   accrued : [Accounts -> Nat],
   xvs : Nat,                               \* the balance of the comptroller
   releaseStartBlock : Nat]
-----------------------------------------------------------------------------
(* Indices and their distribution. *)

\* Debts are counted in units of the time the market began.
unscaled(m, debt) == (debt * expScale) \div m.borrowIndex

sizeOf(side, m) ==
  IF side = "supply" THEN m.totalSupply ELSE unscaled(m, m.totalBorrows)
shareOf(side, m, a) ==
  IF side = "supply" THEN m.accountTokens[a] ELSE unscaled(m, borrowBalanceStored(m, a))

\* Mutant: the block is left behind while the speed is 0.
moveIndex_sleeping(state, speed, size) ==
  IF currentBlock = state.block \/ speed = 0 THEN state
  ELSE [index |-> IF size = 0 THEN state.index
                  ELSE state.index
                       + ((currentBlock - state.block) * speed * doubleScale) \div size,
        block |-> currentBlock]

\* Without a speed, or with nobody to pay, only the block moves.
moveIndex(state, speed, size) ==
  IF currentBlock = state.block THEN state
  ELSE [index |-> IF speed = 0 \/ size = 0 THEN state.index
                  ELSE state.index
                       + ((currentBlock - state.block) * speed * doubleScale) \div size,
        block |-> currentBlock]

\* updateVenusSupplyIndex and updateVenusBorrowIndex.
updateIndex(f, side, v, m) ==
  moveIndex(f.state[side][v], f.speed[side][v], sizeOf(side, m))

\* Nothing is released before the start, without a balance, or below the minimum.
releaseToVault(f) ==
  LET amount == Min({f.xvs, venusVAIVaultRate * (currentBlock - f.releaseStartBlock)})
  IN  IF \/ f.releaseStartBlock = 0 \/ currentBlock < f.releaseStartBlock
         \/ f.xvs = 0 \/ amount < minReleaseAmount
        THEN f
        ELSE [f EXCEPT !.releaseStartBlock = currentBlock, !.xvs = @ - amount]

\* Who came before the market had an index is paid from the first index on.
deltaIndex(index, from) ==
  index - (IF from = 0 /\ index >= venusInitialIndex THEN venusInitialIndex ELSE from)

\* What keeps the flywheel moving: the indices of some markets are moved on
\* some sides, and distributed to some accounts (distributeSupplierVenus and
\* distributeBorrowerVenus).  The order does not matter.
distribute(f, ms, sides, vTokens, accounts) ==
  LET touched == sides \X vTokens
      state == [side \in Sides |-> [v \in VTokens |->
                  IF <<side, v>> \in touched THEN updateIndex(f, side, v, ms[v])
                                             ELSE f.state[side][v]]]
      share(a, s) ==
        (shareOf(s[1], ms[s[2]], a)
           * deltaIndex(state[s[1]][s[2]].index, f.accountIndex[s[1]][s[2]][a]))
        \div doubleScale
  IN  [IF touched = {} THEN f ELSE releaseToVault(f) EXCEPT
         !.state = state,
         !.accountIndex = [side \in Sides |-> [v \in VTokens |-> [a \in Accounts |->
            IF <<side, v>> \in touched /\ a \in accounts THEN state[side][v].index
                                                         ELSE @[side][v][a]]]],
         !.accrued = [a \in Accounts |->
            IF a \in accounts THEN @[a] + Total([s \in touched |-> share(a, s)])
                              ELSE @[a]]]
-----------------------------------------------------------------------------
(* Properties. *)

\* The flywheel after a claim of everybody in all markets now.
claimed == distribute(flywheel, markets, Sides, allMarkets, Accounts)

\* What each account has been paid, and would be paid by that claim.
earned == [a \in Accounts |-> received[a] + claimed.accrued[a]]

\* No call changes what anybody has earned so far: a balance or a debt that
\* changes is paid up to this block first, a new speed holds from its block on,
\* and a claim that is paid in part, as collateral, late or not at all forgets
\* nothing and pays nothing twice.  Time alone adds.  Where interest is added,
\* the borrowed units move by a rounding, and that step is left out.
EarnedKept ==
  [][currentBlock' = currentBlock
       /\ (\A v \in VTokens : markets'[v].borrowIndex = markets[v].borrowIndex)
     => earned' = earned]_<<markets, flywheel, allMarkets, received, promised, currentBlock>>

\* All accounts together never earn more than the speeds have released: the
\* suppliers whatever the interest, the borrowers until interest is added.
\* From then on the roundings of the debts and of their total differ, and the
\* units that share a reward may be more than it was divided by.
NeverOverpaid ==
  (\A v \in VTokens : \/ markets[v].borrowIndex = expScale
                      \/ claimed.state["borrow"][v].index <= venusInitialIndex)
    => Total(earned) <= promised
=============================================================================
